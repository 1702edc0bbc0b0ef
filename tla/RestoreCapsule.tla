--------------------------- MODULE RestoreCapsule ---------------------------
(***************************************************************************)
(* storage/restore_capsule.py: the QSOL-RESTORE-DAT/1 container that every *)
(* recovery artifact is made of.  An entry is a logical path, its bytes,   *)
(* its privacy class, its recovery class and, for private use, where the   *)
(* bytes came from.  A capsule is a manifest (one row per entry, with the  *)
(* digest of its bytes, and the order in which to restore them) followed   *)
(* by the bytes.                                                           *)
(*                                                                         *)
(* Bytes stand for their SHA-256: two sections with the same digest are    *)
(* the same section.  Paths are kept in a set, for their order in the file *)
(* is theirs alone to decide; the restore order is what the code adds.     *)
(***************************************************************************)
EXTENDS Naturals, Sequences, FiniteSets

CONSTANTS MaxEntries      \* MAX_ENTRY_COUNT

\* RECOVERY_CLASSES, first to last.
RecoveryClasses == <<"NEAR_SHELL", "MID_SHELL", "OUTER_SHELL",
                     "RESONANCE_NODE", "WIGGLE_ZONE">>

\* The source_ref of an entry that names no source.
NoSource == "no source_ref"

Entry(path, data, privacy, recovery) ==
  [path |-> path, data |-> data, privacy |-> privacy,
   recovery |-> recovery, source |-> NoSource]

\* What the manifest keeps of an entry: all but the bytes, and their digest.
ManifestRow(e) ==
  [path |-> e.path, sha256 |-> e.data, privacy |-> e.privacy,
   recovery |-> e.recovery, source |-> e.source]

\* The rows in the order of their shells; inside a shell the paths decide.
RestoreOrder(rows) ==
  [n \in DOMAIN RecoveryClasses |->
     {r.path : r \in {x \in rows : x.recovery = RecoveryClasses[n]}}]

-----------------------------------------------------------------------------

PackCapsule(entries) ==
  LET rows == {ManifestRow(e) : e \in entries}
  IN  [rows |-> rows,
       order |-> RestoreOrder(rows),
       payload |-> [p \in {e.path : e \in entries} |->
                      (CHOOSE e \in entries : e.path = p).data]]

\* parse_capsule trusts nothing the manifest says of the bytes.
Parses(capsule) ==
  /\ capsule.rows # {}
  /\ Cardinality(capsule.rows) <= MaxEntries
  /\ \A a, b \in capsule.rows : a.path = b.path => a = b
  /\ DOMAIN capsule.payload = {r.path : r \in capsule.rows}
  /\ \A r \in capsule.rows : capsule.payload[r.path] = r.sha256
  /\ capsule.order = RestoreOrder(capsule.rows)

ParsedEntries(capsule) ==
  {[path |-> r.path, data |-> capsule.payload[r.path], privacy |-> r.privacy,
    recovery |-> r.recovery, source |-> r.source] : r \in capsule.rows}

\* verify_capsule: the entries pack to the very bytes they were read from.
VerifiesCapsule(capsule) ==
  /\ Parses(capsule)
  /\ PackCapsule(ParsedEntries(capsule)) = capsule
=============================================================================
