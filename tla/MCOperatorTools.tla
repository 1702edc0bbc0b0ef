--------------------------- MODULE MCOperatorTools ---------------------------
(***************************************************************************)
(* Instances of OperatorTools: one store, four snapshots, five portable    *)
(* exports, two builds and two proposals.                                  *)
(***************************************************************************)
EXTENDS OperatorTools, TLC

CONSTANTS b1, b2, p1, p2

\* f and h have the same bytes; g is RESTRICTED and not in the store yet.
MCFiles == {"f", "g", "h"}
MCObjectOf == [f |-> "o1", g |-> "o2", h |-> "o1"]
MCPrivacyRank == [f |-> 1, g |-> 2, h |-> 1]

\* The run is bound to s2, which no longer lists all that s1 did.
MCSnapshots == {"s0", "s1", "s2", "s3"}
MCMembers == [s0 |-> {}, s1 |-> {"f", "h"}, s2 |-> {"f"}, s3 |-> {"f", "h"}]
MCEvents == {"e1"}
MCCites == [e1 |-> {"g"}]
MCBefore == [s0 |-> "root", s1 |-> "s0", s2 |-> "s1", s3 |-> "s2", e1 |-> "root"]
MCStart ==
  In("object", {"o1"}) \cup In("file", {"f", "h"}) \cup {Collection, Run}
  \cup In("snapshot", {"s0", "s1", "s2"}) \cup In("head", {"s2"})
  \cup In("run-head", {"root"})

\* Two exports of the same object under two specifications, one that must be
\* refused at its pack, one RESTRICTED, and one nobody acknowledged.
MCPackOf ==
  [plain |-> {[path |-> "x", source |-> "s", privacy |-> "INTERNAL",
               recovery |-> "MID_SHELL"]},
   secret |-> {[path |-> "y", source |-> "s", privacy |-> "RESTRICTED",
                recovery |-> "MID_SHELL"]}]
MCExportSpecs ==
  [one |-> [class |-> "INTERNAL", acknowledged |-> FALSE, bindings |-> [r1 |-> "plain"]],
   two |-> [class |-> "INTERNAL", acknowledged |-> FALSE,
            bindings |-> [r1 |-> "plain", r2 |-> "plain"]],
   leak |-> [class |-> "INTERNAL", acknowledged |-> FALSE, bindings |-> [r1 |-> "secret"]],
   vault |-> [class |-> "RESTRICTED", acknowledged |-> TRUE, bindings |-> [r1 |-> "secret"]],
   unasked |-> [class |-> "RESTRICTED", acknowledged |-> FALSE, bindings |-> [r1 |-> "secret"]]]
MCClassRank == [PUBLIC |-> 0, INTERNAL |-> 1, RESTRICTED |-> 2]

\* The two builds are alike, and so are the two proposals.
CallSymmetry == Permutations({b1, b2}) \cup Permutations({p1, p2})
=============================================================================
