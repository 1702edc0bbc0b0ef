---------------------------- MODULE ControlStore ----------------------------
(***************************************************************************)
(* storage/control_store.py: Files and one Collection of the local store,  *)
(* used by several clients at once.  A client is a process (the CLIs) or a *)
(* server thread (webui, api).  Every object of the store is a file that   *)
(* _atomic_write replaces whole, so each write is one step; an operation   *)
(* is the sequence of its writes, and between any two of them another      *)
(* client may act, the write may raise, or the process may be killed.      *)
(*                                                                         *)
(* All paths and lock names of a Collection contain its identity, so       *)
(* Collections do not interact and one stands for all of them.             *)
(*                                                                         *)
(* A content identity is the SHA-256 of the record it names.  Snapshots    *)
(* are numbered in the order they are first written and a record that is   *)
(* already stored keeps its number: equal content, equal identity.         *)
(***************************************************************************)
EXTENDS Naturals, Sequences

CONSTANTS Clients,        \* processes and threads that use the store
          Files,          \* File records a caller can put and name
          Objects,        \* raw byte strings
          ObjectOf,       \* the bytes each File record describes
          PrivacyRank,    \* PRIVACY_RANK of each File's privacy class
          CollectionRank, \* PRIVACY_RANK of the Collection's class
          Times,          \* created_at values a caller may pass
          Changes,        \* the [add, remove] pairs callers ask for
          Free, Dead,     \* lock states: no lock file; its owner is gone
          MaxSnapshots    \* bound: no update starts past this many snapshots

ASSUME StoreAssumption ==
  /\ ObjectOf \in [Files -> Objects]
  /\ PrivacyRank \in [Files -> Nat]
  /\ CollectionRank \in Nat
  /\ Changes \subseteq [add : SUBSET Files, remove : SUBSET Files]
  /\ Times # {}
  /\ Free \notin Clients /\ Dead \notin Clients /\ Free # Dead
  /\ MaxSnapshots \in Nat

VARIABLES objects,    \* objects/: byte strings stored
          records,    \* records/files/: File records stored
          descriptor, \* collection.json exists
          snapshots,  \* snapshots/: records, by identity
          head,       \* HEAD.json: the identity it names, NoSnapshot if absent
          published,  \* history: every identity HEAD.json has named
          lock,       \* the two lock files of the Collection
          pc,         \* what each client does next
          file,       \* the File a client is putting
          request,    \* the arguments of a client's update_collection
          base,       \* the HEAD identity the update was computed from
          proposed,   \* the members the update will store
          target      \* the identity of the snapshot the client wrote

storeVars == <<objects, records, descriptor, snapshots, head, published>>
localVars == <<file, request, base, proposed, target>>
vars == <<storeVars, lock, pc, localVars>>

NoSnapshot == 0
LockNames == {"create", "head"}
Permitted == {f \in Files : PrivacyRank[f] <= CollectionRank}

Request == [add : SUBSET Files, remove : SUBSET Files, expected : Nat]
NoRequest == [add |-> {}, remove |-> {}, expected |-> NoSnapshot]
Snapshot == [revision : Nat, previous : Nat, members : SUBSET Files, at : Times]

Creating == {"create_check", "create_descriptor", "create_snapshot",
             "create_head", "create_unlock"}
Updating == {"update_read", "update_snapshot", "update_head", "update_unlock"}
Steps == {"idle", "put_record"} \cup Creating \cup Updating

TypeOK ==
  /\ objects \subseteq Objects
  /\ records \subseteq Files
  /\ descriptor \in BOOLEAN
  /\ snapshots \in Seq(Snapshot)
  /\ head \in Nat
  /\ published \subseteq Nat
  /\ lock \in [LockNames -> Clients \cup {Free, Dead}]
  /\ pc \in [Clients -> Steps]
  /\ file \in [Clients -> Files \cup {Free}]
  /\ request \in [Clients -> Request]
  /\ base \in [Clients -> Nat]
  /\ proposed \in [Clients -> SUBSET Files]
  /\ target \in [Clients -> Nat]

Init ==
  /\ objects = {} /\ records = {}
  /\ descriptor = FALSE /\ snapshots = <<>>
  /\ head = NoSnapshot /\ published = {}
  /\ lock = [l \in LockNames |-> Free]
  /\ pc = [c \in Clients |-> "idle"]
  /\ file = [c \in Clients |-> Free]
  /\ request = [c \in Clients |-> NoRequest]
  /\ base = [c \in Clients |-> NoSnapshot]
  /\ proposed = [c \in Clients |-> {}]
  /\ target = [c \in Clients |-> NoSnapshot]

Goto(c, from, to) == pc[c] = from /\ pc' = [pc EXCEPT ![c] = to]

\* What a client held in local variables is gone when its call ends.
Forget(c) ==
  /\ file' = [file EXCEPT ![c] = Free]
  /\ request' = [request EXCEPT ![c] = NoRequest]
  /\ base' = [base EXCEPT ![c] = NoSnapshot]
  /\ proposed' = [proposed EXCEPT ![c] = {}]
  /\ target' = [target EXCEPT ![c] = NoSnapshot]

-----------------------------------------------------------------------------
(* _exclusive_lock: O_CREAT|O_EXCL on the lock file.  A client that finds  *)
(* the file raises at once, which changes nothing.                         *)

Acquire(c, l) == lock[l] = Free /\ lock' = [lock EXCEPT ![l] = c]

Release(c, l) == lock' = [lock EXCEPT ![l] = Free]

\* os.write or os.fsync on the new lock file raises: the file was made, the
\* with body is never entered and nobody unlinks it.
AcquireFails(c, l) ==
  /\ pc[c] = "idle"
  /\ lock[l] = Free
  /\ lock' = [lock EXCEPT ![l] = Dead]
  /\ UNCHANGED <<storeVars, pc, localVars>>

-----------------------------------------------------------------------------
(* put_file: the bytes first, then the record that names them.             *)

PutObject(c, f) ==
  /\ Goto(c, "idle", "put_record")
  /\ objects' = objects \cup {ObjectOf[f]}
  /\ file' = [file EXCEPT ![c] = f]
  /\ UNCHANGED <<records, descriptor, snapshots, head, published, lock,
                 request, base, proposed, target>>

PutRecord(c) ==
  /\ Goto(c, "put_record", "idle")
  /\ records' = records \cup {file[c]}
  /\ Forget(c)
  /\ UNCHANGED <<objects, descriptor, snapshots, head, published, lock>>

-----------------------------------------------------------------------------
(* _write_snapshot: n is the identity of record s; a stored record is kept. *)

WriteSnapshot(s, n) ==
  \/ /\ n \in DOMAIN snapshots
     /\ snapshots[n] = s
     /\ UNCHANGED snapshots
  \/ /\ \A k \in DOMAIN snapshots : snapshots[k] # s
     /\ n = Len(snapshots) + 1
     /\ snapshots' = Append(snapshots, s)

WriteHead(n) == head' = n /\ published' = published \cup {n}

-----------------------------------------------------------------------------
(* create_collection                                                       *)

BeginCreateUnlocked(c) ==
  /\ Goto(c, "idle", "create_check")
  /\ UNCHANGED <<storeVars, lock, localVars>>

BeginCreate(c) ==
  /\ Goto(c, "idle", "create_check")
  /\ Acquire(c, "create")
  /\ UNCHANGED <<storeVars, localVars>>

CreateExistsRepairing(c) ==
  /\ descriptor
  /\ Goto(c, "create_check",
          IF head = NoSnapshot THEN "create_snapshot" ELSE "create_unlock")
  /\ UNCHANGED <<storeVars, lock, localVars>>

\* The descriptor is there: the stored HEAD is returned, or its absence is
\* raised; either way nothing is written.
CreateExists(c) ==
  /\ descriptor
  /\ Goto(c, "create_check", "create_unlock")
  /\ UNCHANGED <<storeVars, lock, localVars>>

CreateMissing(c) ==
  /\ ~descriptor
  /\ Goto(c, "create_check", "create_descriptor")
  /\ UNCHANGED <<storeVars, lock, localVars>>

CreateDescriptor(c) ==
  /\ Goto(c, "create_descriptor", "create_snapshot")
  /\ descriptor' = TRUE
  /\ UNCHANGED <<objects, records, snapshots, head, published, lock, localVars>>

FirstSnapshotBeforeZero ==
  [revision |-> 0 - 1, previous |-> NoSnapshot, members |-> {},
   at |-> CHOOSE t \in Times : TRUE]

\* The collection identity covers created_at, so creators of this collection
\* all pass the same one: the revision 0 record is always the same.
FirstSnapshot ==
  [revision |-> 0, previous |-> NoSnapshot, members |-> {},
   at |-> CHOOSE t \in Times : TRUE]

CreateSnapshot(c) ==
  /\ Goto(c, "create_snapshot", "create_head")
  /\ \E n \in 1 .. Len(snapshots) + 1 :
       /\ WriteSnapshot(FirstSnapshot, n)
       /\ target' = [target EXCEPT ![c] = n]
  /\ UNCHANGED <<objects, records, descriptor, head, published, lock,
                 file, request, base, proposed>>

CreateHead(c) ==
  /\ Goto(c, "create_head", "create_unlock")
  /\ WriteHead(target[c])
  /\ UNCHANGED <<objects, records, descriptor, snapshots, lock, localVars>>

CreateUnlock(c) ==
  /\ Goto(c, "create_unlock", "idle")
  /\ Release(c, "create")
  /\ Forget(c)
  /\ UNCHANGED storeVars

-----------------------------------------------------------------------------
(* update_collection                                                       *)

\* The caller read some earlier HEAD (or passes no expectation), then asks.
BeginUpdate(c) ==
  /\ Len(snapshots) < MaxSnapshots
  /\ Goto(c, "idle", "update_read")
  /\ Acquire(c, "head")
  /\ \E change \in Changes, e \in published \cup {NoSnapshot} :
       request' = [request EXCEPT ![c] =
         [add |-> change.add, remove |-> change.remove, expected |-> e]]
  /\ UNCHANGED <<storeVars, file, base, proposed, target>>

Members(n) == snapshots[n].members

Apply(r) == (Members(head) \cup r.add) \ r.remove

AcceptableUnexpected(r) ==
  /\ descriptor /\ head # NoSnapshot
  /\ r.add \cap r.remove = {}
  /\ r.remove \subseteq Members(head)
  /\ Apply(r) \subseteq records \cap Permitted

AcceptableUnchecked(r) ==
  /\ descriptor /\ head # NoSnapshot
  /\ r.add \cap r.remove = {}
  /\ r.remove \subseteq Members(head)
  /\ r.expected \in {NoSnapshot, head}

\* _proposed_collection_update and the expected-HEAD comparison raise nothing.
Acceptable(r) ==
  /\ descriptor /\ head # NoSnapshot
  /\ r.add \cap r.remove = {}
  /\ r.remove \subseteq Members(head)
  /\ Apply(r) \subseteq records \cap Permitted
  /\ r.expected \in {NoSnapshot, head}

UpdateRefused(c) ==
  /\ ~Acceptable(request[c])
  /\ Goto(c, "update_read", "update_unlock")
  /\ UNCHANGED <<storeVars, lock, localVars>>

UpdateUnchanged(c) ==
  /\ Acceptable(request[c])
  /\ Apply(request[c]) = Members(head)
  /\ Goto(c, "update_read", "update_unlock")
  /\ UNCHANGED <<storeVars, lock, localVars>>

UpdateAccepted(c) ==
  /\ Acceptable(request[c])
  /\ Apply(request[c]) # Members(head)
  /\ Goto(c, "update_read", "update_snapshot")
  /\ base' = [base EXCEPT ![c] = head]
  /\ proposed' = [proposed EXCEPT ![c] = Apply(request[c])]
  /\ UNCHANGED <<storeVars, lock, file, request, target>>

UpdateSnapshot(c) ==
  /\ Goto(c, "update_snapshot", "update_head")
  /\ \E t \in Times, n \in 1 .. Len(snapshots) + 1 :
       /\ WriteSnapshot([revision |-> snapshots[base[c]].revision + 1,
                         previous |-> base[c],
                         members |-> proposed[c], at |-> t], n)
       /\ target' = [target EXCEPT ![c] = n]
  /\ UNCHANGED <<objects, records, descriptor, head, published, lock,
                 file, request, base, proposed>>

UpdateHead(c) ==
  /\ Goto(c, "update_head", "update_unlock")
  /\ WriteHead(target[c])
  /\ UNCHANGED <<objects, records, descriptor, snapshots, lock, localVars>>

UpdateUnlock(c) ==
  /\ Goto(c, "update_unlock", "idle")
  /\ Release(c, "head")
  /\ Forget(c)
  /\ UNCHANGED storeVars

-----------------------------------------------------------------------------
(* Failures                                                                *)

\* A read or write raises: put_file just ends, the others unwind through the
\* finally of _exclusive_lock.
Fail(c) ==
  /\ \/ pc[c] = "put_record" /\ pc' = [pc EXCEPT ![c] = "idle"]
     \/ /\ pc[c] \in Creating \ {"create_unlock"}
        /\ pc' = [pc EXCEPT ![c] = "create_unlock"]
     \/ /\ pc[c] \in Updating \ {"update_unlock"}
        /\ pc' = [pc EXCEPT ![c] = "update_unlock"]
  /\ Forget(c)
  /\ UNCHANGED <<storeVars, lock>>

\* The process is killed: what it wrote stays, its lock file stays too.
Kill(c) ==
  /\ pc[c] # "idle"
  /\ pc' = [pc EXCEPT ![c] = "idle"]
  /\ lock' = [l \in LockNames |-> IF lock[l] = c THEN Dead ELSE lock[l]]
  /\ Forget(c)
  /\ UNCHANGED storeVars

\* No code removes a leftover lock; the operator does, after making sure that
\* its owner is gone (docs/STORAGE-HARDENING.md section 4).
OperatorUnlock(l) ==
  /\ lock[l] = Dead
  /\ lock' = [lock EXCEPT ![l] = Free]
  /\ UNCHANGED <<storeVars, pc, localVars>>

Create(c) ==
  \/ BeginCreate(c) \/ CreateExists(c) \/ CreateMissing(c)
  \/ CreateDescriptor(c) \/ CreateSnapshot(c) \/ CreateHead(c)
  \/ CreateUnlock(c)

Update(c) ==
  \/ BeginUpdate(c) \/ UpdateRefused(c) \/ UpdateUnchanged(c)
  \/ UpdateAccepted(c) \/ UpdateSnapshot(c) \/ UpdateHead(c)
  \/ UpdateUnlock(c)

Next ==
  \/ \E c \in Clients :
       \/ \E f \in Files : PutObject(c, f)
       \/ PutRecord(c)
       \/ Create(c) \/ Update(c)
       \/ Fail(c) \/ Kill(c)
       \/ \E l \in LockNames : AcquireFails(c, l)
  \/ \E l \in LockNames : OperatorUnlock(l)

Spec == Init /\ [][Next]_vars

-----------------------------------------------------------------------------
(* Properties                                                              *)

\* Snapshot n continues the chain: revision 0 has no predecessor, any other
\* snapshot names a stored one with the revision before its own.
Continues(n) ==
  LET s == snapshots[n] IN
    IF s.revision = 0
    THEN s.previous = NoSnapshot
    ELSE /\ s.previous \in DOMAIN snapshots
         /\ snapshots[s.previous].revision + 1 = s.revision

\* In every state, also while an operation is under way and after any failure,
\* verify() would accept: every File record has its bytes, HEAD names a stored
\* snapshot, the lineage below it has no gap and ends at revision 0, and all
\* members are recorded Files the Collection's privacy class may hold.
HeadVerifies ==
  /\ \A f \in records : ObjectOf[f] \in objects
  /\ head # NoSnapshot => descriptor /\ head \in DOMAIN snapshots
  /\ \A n \in DOMAIN snapshots :
       Continues(n) /\ Members(n) \subseteq records \cap Permitted

\* HEAD.json only ever moves from absent to the revision 0 snapshot, or from a
\* snapshot to one that names it as predecessor: no writer, however late or
\* however often restarted, takes the Collection back or sideways.
HeadAdvances ==
  [][head' # head =>
       /\ head' \in DOMAIN snapshots'
       /\ snapshots'[head'].previous = head
       /\ (head = NoSnapshot) <=> (snapshots'[head'].revision = 0)]_vars

Abandoned ==
  /\ descriptor /\ head = NoSnapshot
  /\ \A c \in Clients : pc[c] \notin {"create_snapshot", "create_head"}

\* A Collection whose creation stopped after the descriptor, with nobody still
\* creating it, is never given a HEAD: create_collection finds the descriptor
\* and only reads.  get_collection, verify and fingerprint raise from then on.
AbandonedStaysUnusable == [][Abandoned => Abandoned']_vars

(***************************************************************************)
(* The inductive strengthening: what each client knows at each step.       *)
(***************************************************************************)

\* A lock file names the one client that is inside the locked region.
Exclusion ==
  \A c \in Clients :
    /\ pc[c] \in Creating <=> lock["create"] = c
    /\ pc[c] \in Updating <=> lock["head"] = c

PuttingInv ==
  \A c \in Clients : pc[c] = "put_record" =>
    file[c] \in Files /\ ObjectOf[file[c]] \in objects

\* A creator past the check is the only one to have found no descriptor, so
\* nobody has given the Collection a HEAD since.
CreatingInv ==
  \A c \in Clients :
    /\ pc[c] = "create_descriptor" => ~descriptor
    /\ pc[c] \in {"create_snapshot", "create_head"} => descriptor /\ head = NoSnapshot
    /\ pc[c] = "create_head" =>
         target[c] \in DOMAIN snapshots /\ snapshots[target[c]] = FirstSnapshot

\* What an updater read is still so when it writes.
UpdatingInv ==
  \A c \in Clients :
    /\ pc[c] \in {"update_snapshot", "update_head"} =>
         /\ Acceptable(request[c])
         /\ base[c] = head
         /\ proposed[c] = Apply(request[c])
         /\ proposed[c] # Members(head)
    /\ pc[c] = "update_head" =>
         /\ target[c] \in DOMAIN snapshots
         /\ snapshots[target[c]].revision = snapshots[head].revision + 1
         /\ snapshots[target[c]].previous = head
         /\ snapshots[target[c]].members = proposed[c]

\* Revisions grow along HEAD's path, so no identity is named twice.
PublishedInv ==
  /\ published \subseteq DOMAIN snapshots
  /\ head = NoSnapshot => published = {}
  /\ \A n \in published : snapshots[n].revision <= snapshots[head].revision

IInv ==
  /\ TypeOK /\ HeadVerifies
  /\ Exclusion /\ PuttingInv /\ CreatingInv /\ UpdatingInv /\ PublishedInv

\* The store implements the atomic register: see CollectionRegister.  A
\* request is pending from the lock until HEAD moves or the call gives up.
Register == INSTANCE CollectionRegister WITH
  Versions <- Nat \ {0}, NoVersion <- NoSnapshot,
  version <- head, used <- published,
  members <- IF head = NoSnapshot THEN {} ELSE Members(head),
  pending <- [c \in Clients |->
                IF pc[c] \in {"update_read", "update_snapshot", "update_head"}
                THEN {request[c]} ELSE {}]

RegisterSpec == Register!Spec
=============================================================================
