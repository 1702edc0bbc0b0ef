------------------------- MODULE ControlStoreProofs -------------------------
(***************************************************************************)
(* Proofs about ControlStore for every number of clients, Files, Times and *)
(* snapshots.                                                              *)
(***************************************************************************)
EXTENDS ControlStore, TLAPS

-----------------------------------------------------------------------------
(* Lemmas                                                                  *)

\* Writing a snapshot leaves every stored one where it was and makes the
\* written one readable under the identity the writer was given.
LEMMA WriteSnapshotKeeps ==
  ASSUME snapshots \in Seq(Snapshot), NEW s \in Snapshot, NEW n \in Nat,
         WriteSnapshot(s, n)
  PROVE  /\ snapshots' \in Seq(Snapshot)
         /\ n \in DOMAIN snapshots' /\ snapshots'[n] = s
         /\ n # NoSnapshot
         /\ \A k \in DOMAIN snapshots :
              k \in DOMAIN snapshots' /\ snapshots'[k] = snapshots[k]
         /\ \A k \in DOMAIN snapshots' :
              k \in DOMAIN snapshots \/ snapshots'[k] = s
<1>1. CASE n \in DOMAIN snapshots /\ snapshots[n] = s /\ UNCHANGED snapshots
  BY <1>1 DEF NoSnapshot
<1>2. CASE n = Len(snapshots) + 1 /\ snapshots' = Append(snapshots, s)
  BY <1>2 DEF NoSnapshot
<1>3. QED
  BY <1>1, <1>2 DEF WriteSnapshot

\* A snapshot that was stored keeps its place in the chain when another is
\* written: its predecessor is stored and unchanged.
LEMMA ContinuesKept ==
  ASSUME NEW n \in DOMAIN snapshots, Continues(n),
         \A k \in DOMAIN snapshots :
           k \in DOMAIN snapshots' /\ snapshots'[k] = snapshots[k]
  PROVE  Continues(n)'
BY DEF Continues

\* A stored snapshot has the fields of one.
LEMMA SnapshotFields ==
  ASSUME TypeOK, NEW n \in DOMAIN snapshots
  PROVE  /\ snapshots[n] \in Snapshot
         /\ snapshots[n].revision \in Nat
         /\ snapshots[n].members \in SUBSET Files
<1>1. snapshots[n] \in Snapshot
  BY DEF TypeOK
<1>2. QED
  BY <1>1 DEF Snapshot

\* The revision 0 record is a snapshot.
LEMMA FirstSnapshotType == FirstSnapshot \in Snapshot
BY StoreAssumption DEF FirstSnapshot, Snapshot, NoSnapshot

\* Whatever update_collection stores is a set of Files.
LEMMA ApplyType ==
  ASSUME TypeOK, NEW r \in Request, head \in DOMAIN snapshots
  PROVE  Apply(r) \in SUBSET Files
<1>1. Members(head) \in SUBSET Files
  BY SnapshotFields DEF Members
<1>2. r.add \in SUBSET Files
  BY DEF Request
<1>3. QED
  BY <1>1, <1>2 DEF Apply

-----------------------------------------------------------------------------
(* The inductive invariant                                                 *)

\* The invariant holds of the empty directory.
LEMMA InitInv == Init => IInv
<1> SUFFICES ASSUME Init PROVE IInv
  OBVIOUS
<1>1. TypeOK
  <2>1. NoRequest \in Request
    BY DEF NoRequest, Request, NoSnapshot
  <2>2. snapshots \in Seq(Snapshot)
    BY DEF Init
  <2>3. QED
    BY <2>1, <2>2 DEF Init, TypeOK, NoSnapshot, Steps
<1>2. HeadVerifies
  BY DEF Init, HeadVerifies, NoSnapshot
<1>3. Exclusion
  BY StoreAssumption DEF Init, Exclusion, LockNames, Creating, Updating
<1>4. PuttingInv /\ CreatingInv /\ UpdatingInv /\ PublishedInv
  BY DEF Init, PuttingInv, CreatingInv, UpdatingInv, PublishedInv
<1>5. QED
  BY <1>1, <1>2, <1>3, <1>4 DEF IInv

\* Every variable keeps its type in a step.
LEMMA TypeStep == IInv /\ [Next]_vars => TypeOK'
<1> SUFFICES ASSUME IInv, [Next]_vars PROVE TypeOK'
  OBVIOUS
<1> USE DEF IInv
<1>f. ASSUME NEW c \in Clients, Forget(c)
      PROVE  /\ file' \in [Clients -> Files \cup {Free}]
             /\ request' \in [Clients -> Request]
             /\ base' \in [Clients -> Nat]
             /\ proposed' \in [Clients -> SUBSET Files]
             /\ target' \in [Clients -> Nat]
  <2>1. NoRequest \in Request
    BY DEF NoRequest, Request, NoSnapshot
  <2>2. QED
    BY <1>f, <2>1 DEF TypeOK, Forget, NoSnapshot
<1>g. ASSUME NEW c \in Clients, NEW from, NEW to \in Steps, Goto(c, from, to)
      PROVE  pc' \in [Clients -> Steps]
  BY <1>g DEF TypeOK, Goto
<1>l. ASSUME NEW l \in LockNames, NEW x \in Clients \cup {Free, Dead},
             lock' = [lock EXCEPT ![l] = x]
      PROVE  lock' \in [LockNames -> Clients \cup {Free, Dead}]
  BY <1>l DEF TypeOK
<1> USE DEF Steps, Creating, Updating
<1>1. ASSUME NEW c \in Clients, NEW f \in Files, PutObject(c, f) PROVE TypeOK'
  <2>1. ObjectOf[f] \in Objects
    BY StoreAssumption
  <2>2. QED
    BY <1>1, <1>g, <2>1 DEF TypeOK, PutObject
<1>2. ASSUME NEW c \in Clients, PutRecord(c) PROVE TypeOK'
  BY <1>2, <1>f, <1>g DEF TypeOK, PutRecord, Goto, PuttingInv
<1>3. ASSUME NEW c \in Clients, BeginCreate(c) PROVE TypeOK'
  BY <1>3, <1>g, <1>l DEF TypeOK, BeginCreate, Acquire, LockNames, storeVars, localVars
<1>4. ASSUME NEW c \in Clients, CreateExists(c) \/ CreateMissing(c) PROVE TypeOK'
  BY <1>4, <1>g DEF TypeOK, CreateExists, CreateMissing, storeVars, localVars
<1>5. ASSUME NEW c \in Clients, CreateDescriptor(c) PROVE TypeOK'
  BY <1>5, <1>g DEF TypeOK, CreateDescriptor, localVars
<1>6. ASSUME NEW c \in Clients, CreateSnapshot(c) PROVE TypeOK'
  <2>1. PICK n \in 1 .. Len(snapshots) + 1 :
          WriteSnapshot(FirstSnapshot, n) /\ target' = [target EXCEPT ![c] = n]
    BY <1>6 DEF CreateSnapshot
  <2>2. snapshots' \in Seq(Snapshot)
    BY <2>1, WriteSnapshotKeeps, FirstSnapshotType DEF TypeOK
  <2>3. QED
    BY <1>6, <1>g, <2>1, <2>2 DEF TypeOK, CreateSnapshot
<1>7. ASSUME NEW c \in Clients, CreateHead(c) PROVE TypeOK'
  BY <1>7, <1>g DEF TypeOK, CreateHead, WriteHead, localVars
<1>8. ASSUME NEW c \in Clients, CreateUnlock(c) PROVE TypeOK'
  BY <1>8, <1>f, <1>g, <1>l DEF TypeOK, CreateUnlock, Release, LockNames, storeVars
<1>9. ASSUME NEW c \in Clients, BeginUpdate(c) PROVE TypeOK'
  <2>1. request' \in [Clients -> Request]
    <3>1. PICK change \in Changes, e \in published \cup {NoSnapshot} :
            request' = [request EXCEPT ![c] =
              [add |-> change.add, remove |-> change.remove, expected |-> e]]
      BY <1>9 DEF BeginUpdate
    <3>2. change.add \in SUBSET Files /\ change.remove \in SUBSET Files /\ e \in Nat
      BY StoreAssumption DEF TypeOK, NoSnapshot
    <3>3. QED
      BY <3>1, <3>2 DEF TypeOK, Request
  <2>2. QED
    BY <1>9, <1>g, <1>l, <2>1 DEF TypeOK, BeginUpdate, Acquire, LockNames, storeVars
<1>10. ASSUME NEW c \in Clients, UpdateRefused(c) \/ UpdateUnchanged(c) PROVE TypeOK'
  BY <1>10, <1>g DEF TypeOK, UpdateRefused, UpdateUnchanged, storeVars, localVars
<1>11. ASSUME NEW c \in Clients, UpdateAccepted(c) PROVE TypeOK'
  <2>1. Apply(request[c]) \in SUBSET Files
    BY <1>11, ApplyType DEF TypeOK, UpdateAccepted, Acceptable, HeadVerifies
  <2>2. QED
    BY <1>11, <1>g, <2>1 DEF TypeOK, UpdateAccepted, storeVars
<1>12. ASSUME NEW c \in Clients, UpdateSnapshot(c) PROVE TypeOK'
  <2>1. PICK t \in Times, n \in 1 .. Len(snapshots) + 1 :
          /\ WriteSnapshot([revision |-> snapshots[base[c]].revision + 1,
                            previous |-> base[c],
                            members |-> proposed[c], at |-> t], n)
          /\ target' = [target EXCEPT ![c] = n]
    BY <1>12 DEF UpdateSnapshot
  <2>2. base[c] \in DOMAIN snapshots
    BY <1>12 DEF UpdateSnapshot, Goto, UpdatingInv, Acceptable, HeadVerifies
  <2>3. [revision |-> snapshots[base[c]].revision + 1, previous |-> base[c],
         members |-> proposed[c], at |-> t] \in Snapshot
    <3>1. snapshots[base[c]] \in Snapshot /\ base[c] \in Nat /\ proposed[c] \in SUBSET Files
      BY <2>2 DEF TypeOK
    <3>2. snapshots[base[c]].revision + 1 \in Nat
      BY <3>1 DEF Snapshot
    <3>3. QED
      BY <3>1, <3>2 DEF Snapshot
  <2>4. snapshots' \in Seq(Snapshot)
    BY <2>1, <2>3, WriteSnapshotKeeps DEF TypeOK
  <2>5. QED
    BY <1>12, <1>g, <2>1, <2>4 DEF TypeOK, UpdateSnapshot
<1>13. ASSUME NEW c \in Clients, UpdateHead(c) PROVE TypeOK'
  BY <1>13, <1>g DEF TypeOK, UpdateHead, WriteHead, localVars
<1>14. ASSUME NEW c \in Clients, UpdateUnlock(c) PROVE TypeOK'
  BY <1>14, <1>f, <1>g, <1>l DEF TypeOK, UpdateUnlock, Release, LockNames, storeVars
<1>15. ASSUME NEW c \in Clients, Fail(c) PROVE TypeOK'
  BY <1>15, <1>f DEF TypeOK, Fail, storeVars
<1>16. ASSUME NEW c \in Clients, Kill(c) PROVE TypeOK'
  BY <1>16, <1>f DEF TypeOK, Kill, storeVars
<1>17. ASSUME NEW c \in Clients, NEW l \in LockNames, AcquireFails(c, l) PROVE TypeOK'
  BY <1>17, <1>l DEF TypeOK, AcquireFails, storeVars, localVars
<1>18. ASSUME NEW l \in LockNames, OperatorUnlock(l) PROVE TypeOK'
  BY <1>18, <1>l DEF TypeOK, OperatorUnlock, storeVars, localVars
<1>19. CASE UNCHANGED vars
  BY <1>19 DEF TypeOK, vars, storeVars, localVars
<1>20. QED
  BY <1>1, <1>2, <1>3, <1>4, <1>5, <1>6, <1>7, <1>8, <1>9, <1>10, <1>11, <1>12,
     <1>13, <1>14, <1>15, <1>16, <1>17, <1>18, <1>19 DEF Next, Create, Update

\* The seven steps that write a file of the store; every other step leaves the
\* store as it is.
LEMMA StoreWriters ==
  ASSUME [Next]_vars
  PROVE  \/ UNCHANGED storeVars
         \/ \E c \in Clients :
              \/ \E f \in Files : PutObject(c, f)
              \/ PutRecord(c) \/ CreateDescriptor(c) \/ CreateSnapshot(c)
              \/ CreateHead(c) \/ UpdateSnapshot(c) \/ UpdateHead(c)
BY DEF Next, Create, Update, vars, BeginCreate, CreateExists, CreateMissing,
       CreateUnlock, BeginUpdate, UpdateRefused, UpdateUnchanged,
       UpdateAccepted, UpdateUnlock, Fail, Kill, AcquireFails, OperatorUnlock

\* What CreateSnapshot and UpdateSnapshot do to the snapshots directory, with
\* the identity bound: everything stored stays, one record is added or found.
LEMMA SnapshotWritten ==
  ASSUME IInv, NEW c \in Clients, CreateSnapshot(c) \/ UpdateSnapshot(c)
  PROVE  \E s \in Snapshot, n \in Nat \ {NoSnapshot} :
           /\ target' = [target EXCEPT ![c] = n]
           /\ n \in DOMAIN snapshots' /\ snapshots'[n] = s
           /\ \A k \in DOMAIN snapshots :
                k \in DOMAIN snapshots' /\ snapshots'[k] = snapshots[k]
           /\ \A k \in DOMAIN snapshots' :
                k \in DOMAIN snapshots \/ snapshots'[k] = s
           /\ CreateSnapshot(c) => s = FirstSnapshot
           /\ UpdateSnapshot(c) =>
                /\ head \in DOMAIN snapshots
                /\ s.revision = snapshots[head].revision + 1
                /\ s.previous = head
                /\ s.members = proposed[c]
<1> USE DEF IInv
<1>1. CASE CreateSnapshot(c)
  <2>1. PICK n \in 1 .. Len(snapshots) + 1 :
          WriteSnapshot(FirstSnapshot, n) /\ target' = [target EXCEPT ![c] = n]
    BY <1>1 DEF CreateSnapshot
  <2>2. ~UpdateSnapshot(c)
    BY <1>1 DEF CreateSnapshot, UpdateSnapshot, Goto
  <2>3. n \in Nat
    BY DEF TypeOK
  <2>4. QED
    BY <2>1, <2>2, <2>3, WriteSnapshotKeeps, FirstSnapshotType DEF TypeOK
<1>2. CASE UpdateSnapshot(c)
  <2> DEFINE Rec(t) == [revision |-> snapshots[base[c]].revision + 1,
                        previous |-> base[c],
                        members |-> proposed[c], at |-> t]
  <2>1. PICK t \in Times, n \in 1 .. Len(snapshots) + 1 :
          WriteSnapshot(Rec(t), n) /\ target' = [target EXCEPT ![c] = n]
    BY <1>2 DEF UpdateSnapshot
  <2>2. base[c] = head /\ head \in DOMAIN snapshots
    BY <1>2 DEF UpdateSnapshot, Goto, UpdatingInv, Acceptable, HeadVerifies
  <2>3. Rec(t) \in Snapshot
    <3>1. snapshots[base[c]] \in Snapshot /\ base[c] \in Nat /\ proposed[c] \in SUBSET Files
      BY <2>2 DEF TypeOK
    <3>2. snapshots[base[c]].revision + 1 \in Nat
      BY <3>1 DEF Snapshot
    <3>3. QED
      BY <3>1, <3>2 DEF Snapshot
  <2>4. ~CreateSnapshot(c)
    BY <1>2 DEF CreateSnapshot, UpdateSnapshot, Goto
  <2>5. n \in Nat
    BY DEF TypeOK
  <2> HIDE DEF Rec
  <2>6. /\ n \in DOMAIN snapshots' /\ snapshots'[n] = Rec(t) /\ n # NoSnapshot
        /\ \A k \in DOMAIN snapshots :
             k \in DOMAIN snapshots' /\ snapshots'[k] = snapshots[k]
        /\ \A k \in DOMAIN snapshots' :
             k \in DOMAIN snapshots \/ snapshots'[k] = Rec(t)
    BY <2>1, <2>3, <2>5, WriteSnapshotKeeps DEF TypeOK
  <2>7. /\ Rec(t).revision = snapshots[head].revision + 1
        /\ Rec(t).previous = head /\ Rec(t).members = proposed[c]
    BY <2>2 DEF Rec
  <2>8. QED
    BY <2>1, <2>2, <2>3, <2>4, <2>5, <2>6, <2>7
<1>3. QED
  BY <1>1, <1>2

\* What an accepted update stores is recorded and permitted.
LEMMA ProposedPermitted ==
  ASSUME IInv, NEW c \in Clients, pc[c] \in {"update_snapshot", "update_head"}
  PROVE  proposed[c] \subseteq records \cap Permitted
BY DEF IInv, UpdatingInv, Acceptable

\* What verify() checks is not broken by any step: a snapshot is stored only as
\* a continuation of a stored one, with recorded and permitted members, and HEAD
\* is moved only to a stored snapshot.
LEMMA HeadVerifiesStep == IInv /\ [Next]_vars => HeadVerifies'
<1> SUFFICES ASSUME IInv, [Next]_vars PROVE HeadVerifies'
  OBVIOUS
<1> USE DEF IInv
<1>1. CASE UNCHANGED storeVars
  BY <1>1 DEF storeVars, HeadVerifies, Continues, Members
<1>2. ASSUME NEW c \in Clients, NEW f \in Files, PutObject(c, f)
      PROVE  HeadVerifies'
  BY <1>2 DEF PutObject, HeadVerifies, Continues, Members
<1>3. ASSUME NEW c \in Clients, PutRecord(c) PROVE HeadVerifies'
  BY <1>3 DEF PutRecord, Goto, PuttingInv, HeadVerifies, Continues, Members
<1>4. ASSUME NEW c \in Clients, CreateDescriptor(c) PROVE HeadVerifies'
  BY <1>4 DEF CreateDescriptor, HeadVerifies, Continues, Members
<1>5. ASSUME NEW c \in Clients, CreateSnapshot(c) \/ UpdateSnapshot(c)
      PROVE  HeadVerifies'
  <2>1. PICK s \in Snapshot, n \in Nat \ {NoSnapshot} :
          /\ \A k \in DOMAIN snapshots :
               k \in DOMAIN snapshots' /\ snapshots'[k] = snapshots[k]
          /\ \A k \in DOMAIN snapshots' :
               k \in DOMAIN snapshots \/ snapshots'[k] = s
          /\ CreateSnapshot(c) => s = FirstSnapshot
          /\ UpdateSnapshot(c) =>
               /\ head \in DOMAIN snapshots
               /\ s.revision = snapshots[head].revision + 1
               /\ s.previous = head
               /\ s.members = proposed[c]
    BY <1>5, SnapshotWritten
  <2>2. UNCHANGED <<objects, records, descriptor, head>>
    BY <1>5 DEF CreateSnapshot, UpdateSnapshot
  <2>3. \/ s.revision = 0 /\ s.previous = NoSnapshot /\ s.members = {}
        \/ /\ head \in DOMAIN snapshots
           /\ s.revision = snapshots[head].revision + 1
           /\ s.previous = head
           /\ s.members \subseteq records \cap Permitted
    <3>1. CASE CreateSnapshot(c)
      BY <3>1, <2>1 DEF FirstSnapshot
    <3>2. CASE UpdateSnapshot(c)
      BY <3>2, <2>1, ProposedPermitted DEF UpdateSnapshot, Goto
    <3>3. QED
      BY <1>5, <3>1, <3>2
  <2>4. ASSUME NEW k \in DOMAIN snapshots'
        PROVE  Continues(k)' /\ Members(k)' \subseteq records' \cap Permitted
    <3>1. CASE k \in DOMAIN snapshots
      BY <3>1, <2>1, <2>2, ContinuesKept DEF HeadVerifies, Members
    <3>2. CASE snapshots'[k] = s
      <4>1. Members(k)' \subseteq records' \cap Permitted
        BY <3>2, <2>2, <2>3 DEF Members
      <4>2. CASE s.revision = 0 /\ s.previous = NoSnapshot
        BY <3>2, <4>1, <4>2 DEF Continues
      <4>3. CASE /\ head \in DOMAIN snapshots
                 /\ s.revision = snapshots[head].revision + 1
                 /\ s.previous = head
        <5>1. snapshots[head].revision \in Nat
          BY <4>3, SnapshotFields
        <5>2. snapshots'[head] = snapshots[head] /\ head \in DOMAIN snapshots'
          BY <4>3, <2>1
        <5>3. s.revision # 0
          BY <4>3, <5>1
        <5>4. /\ snapshots'[k].revision # 0
              /\ snapshots'[k].previous \in DOMAIN snapshots'
              /\ snapshots'[snapshots'[k].previous].revision + 1 = snapshots'[k].revision
          BY <3>2, <4>3, <5>2, <5>3
        <5>5. QED
          BY <4>1, <5>4 DEF Continues
      <4>4. QED
        BY <2>3, <4>2, <4>3
    <3>3. QED
      BY <2>1, <3>1, <3>2
  <2>5. QED
    BY <2>1, <2>2, <2>4 DEF HeadVerifies
<1>6. ASSUME NEW c \in Clients, CreateHead(c) \/ UpdateHead(c)
      PROVE  HeadVerifies'
  <2>1. target[c] \in DOMAIN snapshots /\ descriptor
    BY <1>6 DEF CreateHead, UpdateHead, Goto, CreatingInv, UpdatingInv, Acceptable
  <2>2. head' = target[c] /\ UNCHANGED <<objects, records, descriptor, snapshots>>
    BY <1>6 DEF CreateHead, UpdateHead, WriteHead
  <2>3. QED
    BY <2>1, <2>2 DEF HeadVerifies, Continues, Members
<1>7. QED
  BY <1>1, <1>2, <1>3, <1>4, <1>5, <1>6, StoreWriters

\* Each lock file and the client inside its region agree after every step.
LEMMA ExclusionStep == IInv /\ [Next]_vars => Exclusion'
<1> SUFFICES ASSUME IInv, [Next]_vars PROVE Exclusion'
  OBVIOUS
<1> USE DEF IInv, TypeOK, Exclusion, LockNames, Creating, Updating
<1>a. Free \notin Clients /\ Dead \notin Clients /\ Free # Dead
  BY StoreAssumption
<1>1. ASSUME NEW c \in Clients, NEW from, NEW to, Goto(c, from, to), UNCHANGED lock,
             from \in Creating <=> to \in Creating,
             from \in Updating <=> to \in Updating
      PROVE  Exclusion'
  BY <1>1 DEF Goto
<1>2. ASSUME NEW c \in Clients,
             (\E f \in Files : PutObject(c, f)) \/ PutRecord(c) \/ CreateExists(c)
             \/ CreateMissing(c) \/ CreateDescriptor(c) \/ CreateSnapshot(c)
             \/ CreateHead(c) \/ UpdateRefused(c) \/ UpdateUnchanged(c)
             \/ UpdateAccepted(c) \/ UpdateSnapshot(c) \/ UpdateHead(c)
      PROVE  Exclusion'
  <2>1. UNCHANGED lock
    BY <1>2 DEF PutObject, PutRecord, CreateExists, CreateMissing, CreateDescriptor,
       CreateSnapshot, CreateHead, UpdateRefused, UpdateUnchanged, UpdateAccepted,
       UpdateSnapshot, UpdateHead
  <2>2. /\ Goto(c, pc[c], pc'[c])
        /\ pc[c] \in Creating <=> pc'[c] \in Creating
        /\ pc[c] \in Updating <=> pc'[c] \in Updating
    BY <1>2 DEF Goto, PutObject, PutRecord, CreateExists, CreateMissing, CreateDescriptor,
       CreateSnapshot, CreateHead, UpdateRefused, UpdateUnchanged, UpdateAccepted,
       UpdateSnapshot, UpdateHead
  <2>3. QED
    BY <2>1, <2>2, <1>1
<1>3. ASSUME NEW c \in Clients, BeginCreate(c) \/ BeginUpdate(c) PROVE Exclusion'
  BY <1>3, <1>a DEF BeginCreate, BeginUpdate, Goto, Acquire
<1>4. ASSUME NEW c \in Clients, CreateUnlock(c) \/ UpdateUnlock(c) PROVE Exclusion'
  BY <1>4, <1>a DEF CreateUnlock, UpdateUnlock, Goto, Release
<1>5. ASSUME NEW c \in Clients, Fail(c) PROVE Exclusion'
  BY <1>5 DEF Fail
<1>6. ASSUME NEW c \in Clients, Kill(c) PROVE Exclusion'
  BY <1>6, <1>a DEF Kill
<1>7. ASSUME NEW c \in Clients, NEW l \in LockNames, AcquireFails(c, l) PROVE Exclusion'
  BY <1>7, <1>a DEF AcquireFails
<1>8. ASSUME NEW l \in LockNames, OperatorUnlock(l) PROVE Exclusion'
  BY <1>8, <1>a DEF OperatorUnlock
<1>9. CASE UNCHANGED vars
  BY <1>9 DEF vars
<1>10. QED
  BY <1>2, <1>3, <1>4, <1>5, <1>6, <1>7, <1>8, <1>9 DEF Next, Create, Update

\* Two clients are never both inside the region of one lock.
LEMMA OneInside ==
  ASSUME Exclusion, NEW c \in Clients, NEW d \in Clients,
         \/ pc[c] \in Creating /\ pc[d] \in Creating
         \/ pc[c] \in Updating /\ pc[d] \in Updating
  PROVE  c = d
BY DEF Exclusion

\* A client about to write a File record has its bytes stored already.
LEMMA PuttingStep == IInv /\ [Next]_vars => PuttingInv'
<1> SUFFICES ASSUME IInv, [Next]_vars, NEW d \in Clients, pc'[d] = "put_record"
             PROVE  file'[d] \in Files /\ ObjectOf[file'[d]] \in objects'
  BY DEF PuttingInv
<1>1. CASE \E f \in Files : PutObject(d, f)
  BY <1>1 DEF PutObject, IInv, TypeOK
<1>2. CASE ~\E f \in Files : PutObject(d, f)
  <2>1. pc[d] = "put_record" /\ file'[d] = file[d] /\ objects \subseteq objects'
    BY <1>2 DEF IInv, TypeOK, Next, Create, Update, vars, storeVars, localVars, Forget,
       Goto, PutObject, PutRecord, BeginCreate, CreateExists, CreateMissing,
       CreateDescriptor, CreateSnapshot, CreateHead, CreateUnlock, BeginUpdate,
       UpdateRefused, UpdateUnchanged, UpdateAccepted, UpdateSnapshot, UpdateHead,
       UpdateUnlock, Fail, Kill, AcquireFails, OperatorUnlock
  <2>2. QED
    BY <2>1 DEF IInv, PuttingInv
<1>3. QED
  BY <1>1, <1>2

ClientStep(c) ==
  \/ \E f \in Files : PutObject(c, f)
  \/ PutRecord(c) \/ Create(c) \/ Update(c) \/ Fail(c) \/ Kill(c)

Kept(d) ==
  /\ pc'[d] = pc[d] /\ file'[d] = file[d] /\ request'[d] = request[d]
  /\ base'[d] = base[d] /\ proposed'[d] = proposed[d]
  /\ target'[d] = target[d]

\* A client's control and local variables change only by its own steps.
LEMMA OthersKept ==
  ASSUME TypeOK, NEW c \in Clients, NEW d \in Clients, c # d, ClientStep(c)
  PROVE  Kept(d)
<1>1. CASE (\E f \in Files : PutObject(c, f)) \/ PutRecord(c) \/ Fail(c) \/ Kill(c)
  BY <1>1 DEF Kept, TypeOK, PutObject, PutRecord, Fail, Kill, Goto, Forget
<1>2. CASE Create(c)
  BY <1>2 DEF Kept, TypeOK, Create, BeginCreate, CreateExists, CreateMissing,
     CreateDescriptor, CreateSnapshot, CreateHead, CreateUnlock, localVars, Goto, Forget
<1>3. CASE Update(c)
  <2>1. CASE BeginUpdate(c)
    BY <2>1 DEF Kept, TypeOK, BeginUpdate, Goto
  <2>2. CASE UpdateSnapshot(c)
    BY <2>2 DEF Kept, TypeOK, UpdateSnapshot, Goto
  <2>3. QED
    BY <1>3, <2>1, <2>2 DEF Kept, TypeOK, Update, UpdateRefused, UpdateUnchanged,
       UpdateAccepted, UpdateHead, UpdateUnlock, localVars, Goto, Forget
<1>4. QED
  BY <1>1, <1>2, <1>3 DEF ClientStep

\* A step moves at most one client, by a step of that client.
LEMMA Frame ==
  ASSUME TypeOK, [Next]_vars, NEW d \in Clients, ~Kept(d)
  PROVE  ClientStep(d) /\ \A e \in Clients \ {d} : Kept(e)
<1>1. ASSUME NEW l \in LockNames,
             OperatorUnlock(l) \/ \E c \in Clients : AcquireFails(c, l)
      PROVE  FALSE
  BY <1>1 DEF Kept, OperatorUnlock, AcquireFails, localVars
<1>2. ~UNCHANGED vars
  BY DEF Kept, vars, localVars
<1>3. PICK c \in Clients : ClientStep(c)
  BY <1>1, <1>2 DEF Next, ClientStep
<1>4. QED
  BY <1>3, OthersKept

\* How a client comes to stand, after a step, at a write of create_collection:
\* it stood there before, it passed the check, or it made the previous write.
LEMMA EnterCreating ==
  ASSUME TypeOK, [Next]_vars, NEW d \in Clients,
         pc'[d] \in {"create_descriptor", "create_snapshot", "create_head"}
  PROVE  \/ pc'[d] = pc[d] /\ target'[d] = target[d]
         \/ CreateMissing(d) \/ CreateDescriptor(d) \/ CreateSnapshot(d)
BY Frame DEF Kept, ClientStep, TypeOK, Create, Update, Goto, PutObject, PutRecord, BeginCreate,
   CreateExists, CreateHead, CreateUnlock, BeginUpdate, UpdateRefused,
   UpdateUnchanged, UpdateAccepted, UpdateSnapshot, UpdateHead, UpdateUnlock,
   Fail, Kill, Creating, Updating

\* The same for the writes of update_collection.
LEMMA EnterUpdating ==
  ASSUME TypeOK, [Next]_vars, NEW d \in Clients,
         pc'[d] \in {"update_snapshot", "update_head"}
  PROVE  \/ /\ pc'[d] = pc[d] /\ request'[d] = request[d] /\ base'[d] = base[d]
            /\ proposed'[d] = proposed[d] /\ target'[d] = target[d]
         \/ UpdateAccepted(d) \/ UpdateSnapshot(d)
BY Frame DEF Kept, ClientStep, TypeOK, Create, Update, Goto, PutObject, PutRecord, BeginCreate,
   CreateExists, CreateMissing, CreateDescriptor, CreateSnapshot, CreateHead,
   CreateUnlock, BeginUpdate, UpdateRefused, UpdateUnchanged, UpdateHead,
   UpdateUnlock, Fail, Kill, Creating, Updating

\* What a creator found under its lock is still so when it writes.
LEMMA CreatingStep == IInv /\ [Next]_vars => CreatingInv'
<1> SUFFICES ASSUME IInv, [Next]_vars, NEW d \in Clients,
                    pc'[d] \in {"create_descriptor", "create_snapshot", "create_head"}
             PROVE  /\ pc'[d] = "create_descriptor" => ~descriptor'
                    /\ pc'[d] \in {"create_snapshot", "create_head"} =>
                         descriptor' /\ head' = NoSnapshot
                    /\ pc'[d] = "create_head" =>
                         /\ target'[d] \in DOMAIN snapshots'
                         /\ snapshots'[target'[d]] = FirstSnapshot
  BY DEF CreatingInv
<1>1. CASE CreateMissing(d)
  BY <1>1 DEF CreateMissing, Goto, storeVars, IInv, TypeOK
<1>2. CASE CreateDescriptor(d)
  BY <1>2 DEF CreateDescriptor, Goto, IInv, TypeOK, CreatingInv, HeadVerifies
<1>3. CASE CreateSnapshot(d)
  <2>1. \E n \in Nat :
          /\ target' = [target EXCEPT ![d] = n]
          /\ n \in DOMAIN snapshots' /\ snapshots'[n] = FirstSnapshot
    BY <1>3, SnapshotWritten
  <2>2. target'[d] \in DOMAIN snapshots' /\ snapshots'[target'[d]] = FirstSnapshot
    BY <2>1 DEF IInv, TypeOK
  <2>3. pc[d] = "create_snapshot" /\ UNCHANGED <<descriptor, head>> /\ pc'[d] = "create_head"
    BY <1>3 DEF CreateSnapshot, Goto, IInv, TypeOK
  <2>4. QED
    BY <2>2, <2>3 DEF IInv, CreatingInv
<1>4. CASE pc'[d] = pc[d] /\ target'[d] = target[d]
  <2>1. ASSUME NEW c \in Clients,
               CreateDescriptor(c) \/ CreateSnapshot(c) \/ CreateHead(c)
        PROVE  FALSE
    <3>1. c = d
      BY <2>1, <1>4, OneInside DEF IInv, CreateDescriptor, CreateSnapshot, CreateHead,
         Goto, Creating
    <3>2. QED
      BY <3>1, <2>1, <1>4 DEF IInv, TypeOK, CreateDescriptor, CreateSnapshot, CreateHead, Goto
  <2>2. ASSUME NEW c \in Clients, UpdateHead(c) PROVE FALSE
    BY <2>2, <1>4 DEF IInv, UpdateHead, Goto, UpdatingInv, CreatingInv, Acceptable
  <2>3. ASSUME NEW c \in Clients, UpdateSnapshot(c) PROVE FALSE
    BY <2>3, <1>4 DEF IInv, UpdateSnapshot, Goto, UpdatingInv, CreatingInv, Acceptable
  <2>4. UNCHANGED <<descriptor, head, snapshots>>
    BY <2>1, <2>2, <2>3, StoreWriters DEF storeVars, PutObject, PutRecord
  <2>5. QED
    BY <2>4, <1>4 DEF IInv, CreatingInv
<1>5. QED
  BY <1>1, <1>2, <1>3, <1>4, EnterCreating DEF IInv

\* What an updater read under its lock is still so when it writes.
LEMMA UpdatingStep == IInv /\ [Next]_vars => UpdatingInv'
<1> SUFFICES ASSUME IInv, [Next]_vars, NEW d \in Clients,
                    pc'[d] \in {"update_snapshot", "update_head"}
             PROVE  /\ Acceptable(request[d])'
                    /\ base'[d] = head'
                    /\ proposed'[d] = Apply(request[d])'
                    /\ proposed'[d] # Members(head)'
                    /\ pc'[d] = "update_head" =>
                         /\ target'[d] \in DOMAIN snapshots'
                         /\ snapshots'[target'[d]].revision = snapshots'[head'].revision + 1
                         /\ snapshots'[target'[d]].previous = head'
                         /\ snapshots'[target'[d]].members = proposed'[d]
  BY DEF UpdatingInv
<1>1. CASE UpdateAccepted(d)
  BY <1>1 DEF UpdateAccepted, Goto, storeVars, IInv, TypeOK, Acceptable, Apply, Members
<1>2. CASE UpdateSnapshot(d)
  <2>1. PICK s \in Snapshot, n \in Nat \ {NoSnapshot} :
          /\ target' = [target EXCEPT ![d] = n]
          /\ n \in DOMAIN snapshots' /\ snapshots'[n] = s
          /\ \A k \in DOMAIN snapshots :
               k \in DOMAIN snapshots' /\ snapshots'[k] = snapshots[k]
          /\ head \in DOMAIN snapshots
          /\ s.revision = snapshots[head].revision + 1
          /\ s.previous = head
          /\ s.members = proposed[d]
    BY <1>2, SnapshotWritten
  <2>2. /\ pc[d] = "update_snapshot"
        /\ UNCHANGED <<records, descriptor, head, request, base, proposed>>
    BY <1>2 DEF UpdateSnapshot, Goto
  <2>3. snapshots'[head] = snapshots[head] /\ target'[d] = n
    BY <2>1 DEF IInv, TypeOK
  <2>4. /\ Acceptable(request[d]) /\ base[d] = head
        /\ proposed[d] = Apply(request[d]) /\ proposed[d] # Members(head)
    BY <2>2 DEF IInv, UpdatingInv
  <2>5. Members(head)' = Members(head) /\ Apply(request[d])' = Apply(request[d])
    BY <2>2, <2>3 DEF Members, Apply
  <2>6. Acceptable(request[d])'
    BY <2>2, <2>4, <2>5 DEF Acceptable
  <2>7. QED
    BY <2>1, <2>2, <2>3, <2>4, <2>5, <2>6
<1>3. CASE /\ pc'[d] = pc[d] /\ request'[d] = request[d] /\ base'[d] = base[d]
           /\ proposed'[d] = proposed[d] /\ target'[d] = target[d]
  <2>1. Acceptable(request[d]) /\ descriptor /\ head # NoSnapshot
    BY <1>3 DEF IInv, UpdatingInv, Acceptable
  <2>2. ASSUME NEW c \in Clients, UpdateSnapshot(c) \/ UpdateHead(c) PROVE FALSE
    <3>1. c = d
      BY <2>2, <1>3, OneInside DEF IInv, UpdateSnapshot, UpdateHead, Goto, Updating
    <3>2. QED
      BY <3>1, <2>2, <1>3 DEF IInv, TypeOK, UpdateSnapshot, UpdateHead, Goto
  <2>3. ASSUME NEW c \in Clients,
               CreateDescriptor(c) \/ CreateSnapshot(c) \/ CreateHead(c)
        PROVE  FALSE
    BY <2>1, <2>3 DEF IInv, CreatingInv, CreateDescriptor, CreateSnapshot, CreateHead, Goto
  <2>4. UNCHANGED <<descriptor, head, snapshots>> /\ records \subseteq records'
    BY <2>2, <2>3, StoreWriters DEF storeVars, PutObject, PutRecord
  <2>5. Members(head)' = Members(head) /\ Apply(request[d])' = Apply(request[d])
    BY <2>4, <1>3 DEF Members, Apply
  <2>6. Acceptable(request[d])'
    BY <2>1, <2>4, <2>5, <1>3 DEF Acceptable
  <2>7. QED
    BY <2>4, <2>5, <2>6, <1>3 DEF IInv, UpdatingInv
<1>4. QED
  BY <1>1, <1>2, <1>3, EnterUpdating DEF IInv

\* Every identity HEAD has named stays stored, with a revision no higher than
\* that of HEAD.
LEMMA PublishedStep == IInv /\ [Next]_vars => PublishedInv'
<1> SUFFICES ASSUME IInv, [Next]_vars PROVE PublishedInv'
  OBVIOUS
<1>1. ASSUME NEW c \in Clients, CreateSnapshot(c) \/ UpdateSnapshot(c)
      PROVE  PublishedInv'
  <2>1. \A k \in DOMAIN snapshots :
          k \in DOMAIN snapshots' /\ snapshots'[k] = snapshots[k]
    BY <1>1, SnapshotWritten
  <2>2. UNCHANGED <<head, published>>
    BY <1>1 DEF CreateSnapshot, UpdateSnapshot
  <2>3. head # NoSnapshot => head \in DOMAIN snapshots
    BY DEF IInv, HeadVerifies
  <2>4. QED
    BY <2>1, <2>2, <2>3 DEF IInv, PublishedInv
<1>2. ASSUME NEW c \in Clients, CreateHead(c) PROVE PublishedInv'
  <2>1. published = {} /\ target[c] \in DOMAIN snapshots
    BY <1>2 DEF IInv, CreateHead, Goto, CreatingInv, PublishedInv
  <2>2. target[c] # NoSnapshot /\ snapshots[target[c]].revision \in Nat
    BY <2>1, SnapshotFields DEF IInv, TypeOK, NoSnapshot
  <2>3. QED
    BY <1>2, <2>1, <2>2 DEF CreateHead, WriteHead, PublishedInv
<1>3. ASSUME NEW c \in Clients, UpdateHead(c) PROVE PublishedInv'
  <2>1. /\ target[c] \in DOMAIN snapshots /\ head \in DOMAIN snapshots
        /\ snapshots[target[c]].revision = snapshots[head].revision + 1
    BY <1>3 DEF IInv, UpdateHead, Goto, UpdatingInv, Acceptable, HeadVerifies
  <2>2. target[c] # NoSnapshot /\ snapshots[head].revision \in Nat
    BY <2>1, SnapshotFields DEF IInv, TypeOK, NoSnapshot
  <2>3. \A n \in published : snapshots[n].revision \in Nat
    BY SnapshotFields DEF IInv, PublishedInv
  <2>4. QED
    BY <1>3, <2>1, <2>2, <2>3 DEF IInv, UpdateHead, WriteHead, PublishedInv
<1>4. CASE UNCHANGED <<snapshots, head, published>>
  BY <1>4 DEF IInv, PublishedInv
<1>5. QED
  BY <1>1, <1>2, <1>3, <1>4, StoreWriters
     DEF storeVars, PutObject, PutRecord, CreateDescriptor

-----------------------------------------------------------------------------
(* Theorems                                                                *)

\* The strengthened invariant holds in every state of every behaviour: locks
\* and clients agree, and what a client inside a region read is still so.
THEOREM Invariance == Spec => []IInv
<1>1. IInv /\ [Next]_vars => IInv'
  BY TypeStep, HeadVerifiesStep, ExclusionStep, PuttingStep, CreatingStep,
     UpdatingStep, PublishedStep DEF IInv
<1>2. QED
  BY InitInv, <1>1, PTL DEF Spec

\* Every variable keeps its type, however the clients' calls interleave.
THEOREM TypeCorrect == Spec => []TypeOK
<1>1. IInv => TypeOK
  BY DEF IInv
<1>2. QED
  BY Invariance, <1>1, PTL

\* ControlStore.verify would accept every reachable state that has a HEAD: the
\* lineage below HEAD has no gap and all members are recorded and permitted.
THEOREM StoreVerifies == Spec => []HeadVerifies
<1>1. IInv => HeadVerifies
  BY DEF IInv
<1>2. QED
  BY Invariance, <1>1, PTL

\* HEAD.json never goes back: every move is to a snapshot that names the old
\* HEAD as its predecessor.
THEOREM HeadNeverRegresses == Spec => HeadAdvances
<1> DEFINE Advance == head' # head =>
             /\ head' \in DOMAIN snapshots'
             /\ snapshots'[head'].previous = head
             /\ (head = NoSnapshot) <=> (snapshots'[head'].revision = 0)
<1>1. IInv /\ [Next]_vars => Advance
  <2> SUFFICES ASSUME IInv, [Next]_vars, head' # head PROVE Advance
    OBVIOUS
  <2>1. PICK c \in Clients : CreateHead(c) \/ UpdateHead(c)
    BY StoreWriters DEF storeVars, PutObject, PutRecord, CreateDescriptor,
       CreateSnapshot, UpdateSnapshot
  <2>2. head' = target[c] /\ snapshots' = snapshots
    BY <2>1 DEF CreateHead, UpdateHead, WriteHead
  <2>3. CASE CreateHead(c)
    <3>1. head = NoSnapshot /\ target[c] \in DOMAIN snapshots
          /\ snapshots[target[c]] = FirstSnapshot
      BY <2>3 DEF CreateHead, Goto, IInv, CreatingInv
    <3>2. FirstSnapshot.revision = 0 /\ FirstSnapshot.previous = NoSnapshot
      BY DEF FirstSnapshot
    <3>3. QED
      BY <2>2, <3>1, <3>2
  <2>4. CASE UpdateHead(c)
    <3>1. /\ target[c] \in DOMAIN snapshots /\ head \in DOMAIN snapshots
          /\ snapshots[target[c]].revision = snapshots[head].revision + 1
          /\ snapshots[target[c]].previous = head /\ head # NoSnapshot
      BY <2>4 DEF UpdateHead, Goto, IInv, UpdatingInv, Acceptable, HeadVerifies
    <3>2. snapshots[head].revision \in Nat
      BY <3>1, SnapshotFields DEF IInv
    <3>3. QED
      BY <2>2, <3>1, <3>2
  <2>5. QED
    BY <2>1, <2>3, <2>4
<1>2. HeadAdvances <=> [][Advance]_vars
  BY DEF HeadAdvances
<1>3. QED
  BY Invariance, <1>1, <1>2, PTL DEF Spec

\* No call of the store repairs a Collection whose creation stopped halfway.
THEOREM AbandonedForever == Spec => AbandonedStaysUnusable
<1>1. IInv /\ [Next]_vars => (Abandoned => Abandoned')
  <2> SUFFICES ASSUME IInv, [Next]_vars, Abandoned PROVE Abandoned'
    OBVIOUS
  <2>1. \A c \in Clients : pc[c] # "create_descriptor"
    BY DEF IInv, Abandoned, CreatingInv
  <2>2. ASSUME NEW c \in Clients PROVE ~UpdateHead(c) /\ ~CreateHead(c)
    BY DEF IInv, Abandoned, UpdatingInv, Acceptable, UpdateHead, CreateHead, Goto
  <2>3. UNCHANGED <<descriptor, head>>
    BY <2>1, <2>2, StoreWriters DEF storeVars, PutObject, PutRecord,
       CreateDescriptor, CreateSnapshot, UpdateSnapshot, Goto
  <2>4. ASSUME NEW d \in Clients, pc'[d] \in {"create_snapshot", "create_head"}
        PROVE  FALSE
    BY <2>1, <2>4, EnterCreating DEF IInv, TypeOK, Abandoned, CreateMissing,
       CreateDescriptor, CreateSnapshot, Goto
  <2>5. QED
    BY <2>3, <2>4 DEF Abandoned
<1>2. QED
  BY Invariance, <1>1, PTL DEF Spec, AbandonedStaysUnusable

-----------------------------------------------------------------------------
(* Refinement                                                              *)

Requested(c) == pc[c] \in {"update_read", "update_snapshot", "update_head"}

Pending == [c \in Clients |-> IF Requested(c) THEN {request[c]} ELSE {}]

Held == IF head = NoSnapshot THEN {} ELSE Members(head)

\* A step that leaves HEAD and its members alone is, to the register, the
\* start or the end of one request, or nothing.
LEMMA QuietStep ==
  ASSUME IInv, [Next]_vars, UNCHANGED <<head, published, Held>>
  PROVE  [Register!Next]_(Register!vars)
<1> DEFINE Same(d) == Pending'[d] = Pending[d]
<1>1. CASE \A d \in Clients : Same(d)
  <2>1. Pending' = Pending
    BY <1>1 DEF Pending
  <2>2. QED
    BY <2>1 DEF Register!vars, Pending, Requested, Held
<1>2. ASSUME NEW d \in Clients, ~Same(d) PROVE [Register!Next]_(Register!vars)
  <2>0. ClientStep(d) /\ \A e \in Clients \ {d} : Kept(e)
    BY <1>2, Frame DEF IInv, Pending, Requested, Kept
  <2>1. ASSUME NEW e \in Clients, e # d PROVE Same(e)
    BY <2>0, <2>1 DEF Pending, Requested, Kept
  <2>2. Pending' = [Pending EXCEPT ![d] = Pending'[d]]
    BY <2>1 DEF Pending
  <2>3. CASE Requested(d)
    <3>1. ~Requested(d)'
      BY <2>0, <2>3, <1>2 DEF ClientStep, IInv, TypeOK, Pending, Requested, Create,
         Update, PutObject, PutRecord, BeginCreate, CreateExists, CreateMissing,
         CreateDescriptor, CreateSnapshot, CreateHead, CreateUnlock, BeginUpdate,
         UpdateRefused, UpdateUnchanged, UpdateAccepted, UpdateSnapshot, UpdateHead,
         UpdateUnlock, Fail, Kill, Creating, Updating, Goto, storeVars, localVars
    <3>2. Pending[d] # {} /\ Pending'[d] = {}
      BY <2>3, <3>1 DEF Pending
    <3>3. Register!Drop(d)
      BY <2>2, <3>2 DEF Register!Drop, Pending, Requested, Held
    <3>4. QED
      BY <3>3 DEF Register!Next
  <2>4. CASE ~Requested(d)
    <3>1. Requested(d)' /\ request'[d] \in Request
      BY <1>2, <2>4, TypeStep DEF Pending, TypeOK
    <3>2. Pending[d] = {} /\ Pending'[d] = {request'[d]}
      BY <2>4, <3>1 DEF Pending
    <3>3. request'[d] \in Register!Request
      BY <3>1 DEF Request, Register!Request, NoSnapshot
    <3>4. Register!Submit(d)
      BY <2>2, <3>2, <3>3 DEF Register!Submit, Pending, Requested, Held
    <3>5. QED
      BY <3>4 DEF Register!Next
  <2>5. QED
    BY <2>3, <2>4
<1>3. QED
  BY <1>1, <1>2

\* The first HEAD is the register's creation, with no members.
LEMMA CreateHeadCreates ==
  ASSUME IInv, NEW c \in Clients, CreateHead(c)
  PROVE  Register!Create
<1>1. /\ head = NoSnapshot /\ published = {}
      /\ target[c] \in DOMAIN snapshots /\ snapshots[target[c]] = FirstSnapshot
  BY DEF IInv, CreateHead, Goto, CreatingInv, PublishedInv
<1>2. target[c] \in Nat \ {0} /\ FirstSnapshot.members = {}
  BY <1>1 DEF IInv, TypeOK, FirstSnapshot
<1>3. head' = target[c] /\ published' = {target[c]} /\ snapshots' = snapshots
  BY <1>1 DEF CreateHead, WriteHead
<1>4. Members(head)' = {}
  BY <1>1, <1>2, <1>3 DEF Members
<1>5. \A d \in Clients : Requested(d)' <=> Requested(d)
  BY DEF IInv, TypeOK, CreateHead, Goto, Requested
<1>6. Pending' = Pending
  BY <1>5 DEF Pending, CreateHead, localVars
<1>7. QED
  BY <1>1, <1>2, <1>3, <1>4, <1>6
     DEF Register!Create, Register!NewVersion, Pending, Requested, NoSnapshot

\* Moving HEAD applies the mover's request to the members of that moment,
\* under a version never used before, and ends the request.
LEMMA UpdateHeadCommits ==
  ASSUME IInv, NEW c \in Clients, UpdateHead(c)
  PROVE  Register!Commit(c)
<1>1. /\ Acceptable(request[c]) /\ proposed[c] = Apply(request[c])
      /\ proposed[c] # Members(head)
      /\ target[c] \in DOMAIN snapshots
      /\ snapshots[target[c]].revision = snapshots[head].revision + 1
      /\ snapshots[target[c]].members = proposed[c]
      /\ pc[c] = "update_head"
  BY DEF IInv, UpdateHead, Goto, UpdatingInv
<1>2. head' = target[c] /\ published' = published \cup {target[c]}
      /\ snapshots' = snapshots /\ request' = request
  BY DEF UpdateHead, WriteHead, localVars
<1>3. target[c] \in Nat \ {0}
  BY <1>1 DEF IInv, TypeOK
<1>4. target[c] \notin published
  <2>1. head \in DOMAIN snapshots /\ snapshots[head].revision \in Nat
    BY <1>1, SnapshotFields DEF IInv, Acceptable, HeadVerifies
  <2>2. \A n \in published :
          snapshots[n].revision \in Nat /\ snapshots[n].revision <= snapshots[head].revision
    BY SnapshotFields DEF IInv, PublishedInv
  <2>3. QED
    BY <1>1, <2>1, <2>2
<1>5. Members(head)' = Apply(request[c]) /\ head # NoSnapshot /\ head' # NoSnapshot
  BY <1>1, <1>2, <1>3 DEF Members, Acceptable, NoSnapshot
<1>6. Pending' = [Pending EXCEPT ![c] = {}]
  <2>1. \A d \in Clients : Requested(d)' <=> (Requested(d) /\ d # c)
    BY DEF IInv, TypeOK, UpdateHead, Goto, Requested
  <2>2. QED
    BY <1>2, <2>1 DEF Pending
<1>7. Pending[c] = {request[c]}
  BY <1>1 DEF Pending, Requested
<1>8. Apply(request[c]) \subseteq Permitted
  BY <1>1 DEF Acceptable
<1>9. Register!NewVersion
  BY <1>2, <1>3, <1>4 DEF Register!NewVersion
<1>10. Held = Members(head) /\ Held' = Apply(request[c])
  BY <1>5 DEF Held
<1>11. /\ head # NoSnapshot
       /\ \E r \in Pending[c] :
            /\ r.expected \in {NoSnapshot, head}
            /\ r.add \cap r.remove = {}
            /\ r.remove \subseteq Held
            /\ Held' = (Held \cup r.add) \ r.remove
       /\ Held' # Held /\ Held' \subseteq Permitted
  BY <1>1, <1>5, <1>7, <1>8, <1>10 DEF Acceptable, Apply
<1>12. QED
  BY <1>6, <1>9, <1>11 DEF Register!Commit, Pending, Requested, Held

\* No step but those two changes what HEAD names or what it holds.
LEMMA HeldKept ==
  ASSUME IInv, [Next]_vars, \A c \in Clients : ~CreateHead(c) /\ ~UpdateHead(c)
  PROVE  UNCHANGED <<head, published, Held>>
<1>1. ASSUME NEW c \in Clients, CreateSnapshot(c) \/ UpdateSnapshot(c)
      PROVE  UNCHANGED <<head, published, Held>>
  <2>1. \A k \in DOMAIN snapshots : snapshots'[k] = snapshots[k]
    BY <1>1, SnapshotWritten
  <2>2. head # NoSnapshot => head \in DOMAIN snapshots
    BY DEF IInv, HeadVerifies
  <2>3. QED
    BY <1>1, <2>1, <2>2 DEF CreateSnapshot, UpdateSnapshot, Held, Members
<1>2. CASE UNCHANGED <<snapshots, head, published>>
  BY <1>2 DEF Held, Members
<1>3. QED
  BY <1>1, <1>2, StoreWriters DEF storeVars, PutObject, PutRecord, CreateDescriptor

\* The locks, the write order and the checks under the lock make concurrent,
\* failing and killed calls look like one atomic register: no update is lost,
\* none is applied twice, none is applied to a version its caller ruled out.
THEOREM StoreImplementsRegister == Spec => RegisterSpec
<1>1. Init => Register!Init
  BY DEF Init, Register!Init, NoSnapshot
<1>2. IInv /\ [Next]_vars => [Register!Next]_(Register!vars)
  <2> SUFFICES ASSUME IInv, [Next]_vars PROVE [Register!Next]_(Register!vars)
    OBVIOUS
  <2>1. CASE \E c \in Clients : CreateHead(c)
    BY <2>1, CreateHeadCreates DEF Register!Next
  <2>2. CASE \E c \in Clients : UpdateHead(c)
    BY <2>2, UpdateHeadCommits DEF Register!Next
  <2>3. CASE \A c \in Clients : ~CreateHead(c) /\ ~UpdateHead(c)
    BY <2>3, HeldKept, QuietStep
  <2>4. QED
    BY <2>1, <2>2, <2>3
<1>3. QED
  BY Invariance, <1>1, <1>2, PTL DEF Spec, RegisterSpec, Register!Spec
=============================================================================
