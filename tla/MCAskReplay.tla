----------------------------- MODULE MCAskReplay -----------------------------
(* AskReplay with two clients; a configuration without NEXUS, one without       *)
(* members and two whose members differ in a profile only; a store that is new  *)
(* or holds one run made before replay bases; and a ledger that may be         *)
(* corrected, or spoilt by an event whose hash is not its own.                  *)
EXTENDS AskReplay, TLC

CONSTANTS asker, replayer

RosterA == [ids |-> {"m"}, profile |-> "careful"]
RosterB == [ids |-> {"m"}, profile |-> "bold"]
Without == [nexus |-> FALSE, roster |-> RosterA]
Memberless == [nexus |-> TRUE, roster |-> NoRoster]
Careful == [nexus |-> TRUE, roster |-> RosterA]
Bold == [nexus |-> TRUE, roster |-> RosterB]
MCConfigs == {Without, Careful, Bold}
MCRequests ==
  {[config |-> Without, mode |-> "evidence_only", members |-> NoRoster, snapshot |-> Newest],
   [config |-> Careful, mode |-> "council", members |-> NoRoster, snapshot |-> 0],
   [config |-> Memberless, mode |-> "council", members |-> NoRoster, snapshot |-> 0]}

Legacy == [mode |-> "council", snapshot |-> 1, replayability |-> "R3", refs |-> {},
           state |-> "unknown"]
Event(n, id, hash, previous, from, subject, state, kind) ==
  [sequence |-> n, id |-> id, hash |-> hash, previous |-> previous, from |-> from,
   genuine |-> TRUE, subject |-> subject, state |-> state, kind |-> kind]
Genesis == Event(0, "e0", "h0", "none", {}, "q", "observed", "record")
MCEvents ==
  {Genesis,
   Event(1, "e1", "h1", "h0", {"h0"}, "q", "observed", "correction"),
   Event(0, "g0", "g0", "none", {}, "q", "conflict", "record"),
   [Genesis EXCEPT !.hash = "f0", !.genuine = FALSE]}
MCHistories ==
  {[ledger |-> <<Genesis>>, runs |-> <<>>, log |-> <<>>],
   [ledger |-> <<>>, runs |-> <<Legacy>>,
    log |-> <<<<[kind |-> "response", roster |-> RosterA, live |-> TRUE]>>>>]}
MCCached ==
  {[available |-> TRUE, state |-> "known", refs |-> {"e0"}, head |-> "h0"],
   [available |-> TRUE, state |-> "unknown", refs |-> {"e0", "e1"}, head |-> "h0"],
   [available |-> TRUE, state |-> "known", refs |-> {"e0", "e1"}, head |-> "h1"]}
=============================================================================
