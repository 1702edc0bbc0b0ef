------------------------- MODULE CollectionRegister -------------------------
(***************************************************************************)
(* What a Collection promises its callers, with no locks, files or HEAD    *)
(* pointer in sight: one register that holds a set of Files, changed only  *)
(* by applying a caller's whole request to the value the register holds at *)
(* that moment.  A request names Files to add and to remove and may name   *)
(* the version it was computed from; a version is never used twice, so a   *)
(* caller that names one cannot be fooled by a value that changed and      *)
(* changed back.  ControlStore implements this (docs/PERSISTENT-STORAGE.md *)
(* "Collections", docs/STORAGE-HARDENING.md section 4).                    *)
(***************************************************************************)
EXTENDS Naturals

CONSTANTS Clients,   \* processes and threads that use the store
          Files,     \* File records a caller can name
          Permitted, \* Files whose privacy class the Collection may hold
          Versions,  \* names of register values (snapshot identities)
          NoVersion  \* before creation; also: no version is expected

VARIABLES version,  \* the name of the present value
          used,     \* every name a value has had
          members,  \* the present value
          pending   \* each client's request under way: {} or {request}

vars == <<version, used, members, pending>>

Request == [add : SUBSET Files, remove : SUBSET Files,
            expected : Versions \cup {NoVersion}]

Init ==
  /\ version = NoVersion
  /\ used = {}
  /\ members = {}
  /\ pending = [c \in Clients |-> {}]

NewVersion == version' \in Versions \ used /\ used' = used \cup {version'}

Create ==
  /\ version = NoVersion
  /\ NewVersion
  /\ members' = {}
  /\ UNCHANGED pending

Submit(c) ==
  /\ pending[c] = {}
  /\ \E r \in pending'[c] :
       r \in Request /\ pending' = [pending EXCEPT ![c] = {r}]
  /\ UNCHANGED <<version, used, members>>

\* The request ends without an effect: refused, failed or abandoned.
Drop(c) ==
  /\ pending[c] # {}
  /\ pending' = [pending EXCEPT ![c] = {}]
  /\ UNCHANGED <<version, used, members>>

\* The request takes effect, once, on the value it finds.
Commit(c) ==
  /\ version # NoVersion
  /\ \E r \in pending[c] :
       /\ r.expected \in {NoVersion, version}
       /\ r.add \cap r.remove = {}
       /\ r.remove \subseteq members
       /\ members' = (members \cup r.add) \ r.remove
  /\ members' # members
  /\ members' \subseteq Permitted
  /\ NewVersion
  /\ pending' = [pending EXCEPT ![c] = {}]

Next == Create \/ \E c \in Clients : Submit(c) \/ Drop(c) \/ Commit(c)

Spec == Init /\ [][Next]_vars
=============================================================================
