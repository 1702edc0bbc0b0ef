----------------------- MODULE InteractionStoreProofs -----------------------
(***************************************************************************)
(* Proofs about InteractionStore for every number of clients, payloads,    *)
(* record sets and events.                                                 *)
(***************************************************************************)
EXTENDS InteractionStore, SequenceTheorems, WellFoundedInduction, TLAPS

-----------------------------------------------------------------------------
(* Lemmas                                                                  *)

\* Writing an event leaves every stored one where it was and makes the written
\* one readable under the identity the writer was given.
LEMMA WriteEventKeeps ==
  ASSUME events \in Seq(Event), NEW e \in Event, NEW n \in Nat, WriteEvent(e, n)
  PROVE  /\ events' \in Seq(Event)
         /\ n \in DOMAIN events' /\ events'[n] = e
         /\ \A k \in DOMAIN events :
              k \in DOMAIN events' /\ events'[k] = events[k]
         /\ \A k \in DOMAIN events' : k \in DOMAIN events \/ events'[k] = e
<1>1. CASE n \in DOMAIN events /\ events[n] = e /\ UNCHANGED events
  BY <1>1
<1>2. CASE n = Len(events) + 1 /\ events' = Append(events, e)
  BY <1>2
<1>3. QED
  BY <1>1, <1>2 DEF WriteEvent

\* A stored event has the fields of one.
LEMMA EventFields ==
  ASSUME TypeOK, NEW n \in DOMAIN events
  PROVE  /\ events[n] \in Event
         /\ events[n].sequence \in Nat /\ events[n].previous \in Nat
         /\ events[n].parents \in SUBSET Nat
<1>1. events[n] \in Event
  BY DEF TypeOK
<1>2. QED
  BY <1>1 DEF Event

\* What one client does in a step of its own.
ClientStep(c) ==
  \/ Create(c) \/ (\E p \in Payloads : BeginAppend(c, p)) \/ Appending(c)
  \/ Import(c) \/ Verify(c) \/ Unlock(c) \/ Fail(c) \/ Kill(c)

Kept(d) ==
  /\ pc'[d] = pc[d] /\ request'[d] = request[d]
  /\ basis'[d] = basis[d] /\ written'[d] = written[d]

\* The steps that write a file of the store; every other step leaves the store
\* as it is.
Writes(c) ==
  \/ CreateRunRecord(c) \/ CreateRunHead(c) \/ AppendEvent(c) \/ AppendHead(c)
  \/ ImportRun(c) \/ ImportEvent(c) \/ ImportHead(c)

\* Those seven are all the writers.
LEMMA StoreWriters ==
  ASSUME [Next]_vars
  PROVE  UNCHANGED store \/ \E c \in Clients : Writes(c)
BY DEF Writes, Next, Create, Appending, Import, Verify, vars, BeginCreate,
   CreateRunMissing, CreateRunKept, CreateRunRepaired, BeginAppend, AppendRefused,
   AppendAccepted, BeginImport, ImportRefused, ImportKnownRun, ImportNewRun,
   ImportEventsDone, ImportUnlock, ImportUnverified, BeginVerify, EndVerify,
   Unlock, Fail, Kill, AcquireFails, OperatorUnlock

\* A client's control and local variables change only by its own steps.
LEMMA OthersKept ==
  ASSUME TypeOK, NEW c \in Clients, NEW d \in Clients, c # d, ClientStep(c)
  PROVE  Kept(d)
<1>1. CASE Create(c) \/ Verify(c) \/ Unlock(c) \/ Fail(c) \/ Kill(c)
  BY <1>1 DEF Kept, TypeOK, Create, Verify, Unlock, Fail, Kill, BeginCreate,
     CreateRunMissing, CreateRunKept, CreateRunRepaired, CreateRunRecord,
     CreateRunHead, BeginVerify, EndVerify, Goto, Forget, locals
<1>2. CASE (\E p \in Payloads : BeginAppend(c, p)) \/ Appending(c)
  <2>1. CASE AppendAccepted(c)
    BY <2>1 DEF Kept, TypeOK, AppendAccepted, Goto
  <2>2. CASE AppendEvent(c)
    BY <2>2 DEF Kept, TypeOK, AppendEvent, Goto
  <2>3. QED
    BY <1>2, <2>1, <2>2 DEF Kept, TypeOK, Appending, BeginAppend, AppendRefused,
       AppendHead, Goto, locals
<1>3. CASE Import(c)
  <2>1. CASE ImportEvent(c)
    BY <2>1 DEF Kept, TypeOK, ImportEvent
  <2>2. CASE \E s \in RecordSets : BeginImport(c, s)
    BY <2>2 DEF Kept, TypeOK, BeginImport, Goto
  <2>3. QED
    BY <1>3, <2>1, <2>2 DEF Kept, TypeOK, Import, ImportRefused, ImportKnownRun,
       ImportNewRun, ImportRun, ImportEventsDone, ImportHead, ImportUnlock,
       ImportUnverified, Goto, Forget, locals
<1>4. QED
  BY <1>1, <1>2, <1>3 DEF ClientStep

\* A client whose control or locals change has taken a step of its own.
LEMMA Frame ==
  ASSUME TypeOK, [Next]_vars, NEW d \in Clients, ~Kept(d)
  PROVE  ClientStep(d)
<1>1. ~OperatorUnlock /\ ~(\E c \in Clients : AcquireFails(c)) /\ ~UNCHANGED vars
  BY DEF Kept, OperatorUnlock, AcquireFails, locals, vars
<1>2. PICK c \in Clients : ClientStep(c)
  BY <1>1 DEF Next, ClientStep
<1>3. QED
  BY <1>2, OthersKept

\* A writer is inside the locked region, and its own state changes as it writes.
LEMMA WriterMoves ==
  ASSUME TypeOK, NEW c \in Clients, Writes(c)
  PROVE  pc[c] \in Locked /\ ~Kept(c)
<1>1. CASE ImportEvent(c)
  <2>1. PICK n \in 1 .. Len(events) + 1 :
          written' = [written EXCEPT ![c] = Append(written[c], n)]
    BY <1>1 DEF ImportEvent
  <2>2. written[c] \in Seq(Nat) /\ n \in Nat
    BY DEF TypeOK
  <2>3. written'[c] # written[c]
    <3>1. written'[c] = Append(written[c], n)
      BY <2>1 DEF TypeOK
    <3>2. Len(Append(written[c], n)) = Len(written[c]) + 1 /\ Len(written[c]) \in Nat
      BY <2>2
    <3>3. QED
      BY <3>1, <3>2
  <2>4. QED
    BY <1>1, <2>3 DEF ImportEvent, Kept, Locked
<1>2. CASE ~ImportEvent(c)
  BY <1>2 DEF Writes, CreateRunRecord, CreateRunHead, AppendEvent, AppendHead,
     ImportRun, ImportHead, Goto, Kept, Locked, TypeOK
<1>3. QED
  BY <1>1, <1>2

\* While a client stands still inside the locked region, nobody writes.
LEMMA Undisturbed ==
  ASSUME TypeOK, Exclusion, [Next]_vars, NEW d \in Clients, Kept(d), pc[d] \in Locked
  PROVE  UNCHANGED store
<1>1. ASSUME NEW c \in Clients, Writes(c) PROVE FALSE
  BY <1>1, WriterMoves DEF Exclusion
<1>2. QED
  BY <1>1, StoreWriters

-----------------------------------------------------------------------------
(* The inductive invariant                                                 *)

\* The invariant holds of the empty directory.
LEMMA InitInv == Init => IInv
<1> SUFFICES ASSUME Init PROVE IInv
  OBVIOUS
<1>1. TypeOK
  <2>1. events \in Seq(Event) /\ [c \in Clients |-> <<>>] \in [Clients -> Seq(Nat)]
    BY DEF Init
  <2>2. QED
    BY <2>1 DEF Init, TypeOK, NoEvent
<1>2. HistoryListable /\ RunFirst
  BY DEF Init, HistoryListable, RunFirst, NoEvent
<1>3. Exclusion
  BY RunAssumption DEF Init, Exclusion, Locked
<1>4. CreatingInv /\ AppendingInv /\ ImportingInv
  BY DEF Init, CreatingInv, AppendingInv, ImportingInv
<1>5. QED
  BY <1>1, <1>2, <1>3, <1>4 DEF IInv

\* The event an appender has computed, and the one an import computes from the
\* events it has stored, are events with stored predecessor and parents.
Continuation(e) ==
  /\ e \in Event
  /\ IF e.sequence = 0 THEN e.previous = NoEvent
     ELSE e.previous \in DOMAIN events /\ events[e.previous].sequence + 1 = e.sequence
  /\ \A p \in e.parents : p \in DOMAIN events /\ events[p].sequence < e.sequence

\* The event an appender has computed continues what is stored.
LEMMA AppendedContinues ==
  ASSUME IInv, NEW c \in Clients, pc[c] = "append_event"
  PROVE  Continuation(basis[c])
<1>1. /\ basis[c] \in Event /\ basis[c].sequence = NextSequence
      /\ basis[c].previous = head /\ AcceptableParents(basis[c].parents)
  BY DEF IInv, AppendingInv
<1>2. CASE head = NoEvent
  BY <1>1, <1>2 DEF NextSequence, AcceptableParents, Continuation
<1>3. CASE head \in DOMAIN events
  <2>1. events[head].sequence \in Nat
    BY <1>3, EventFields DEF IInv
  <2>2. CASE head = NoEvent
    BY <2>2, <1>2
  <2>3. CASE head # NoEvent
    BY <1>1, <1>3, <2>1, <2>3 DEF NextSequence, AcceptableParents, Continuation
  <2>4. QED
    BY <2>2, <2>3
<1>4. QED
  BY <1>2, <1>3 DEF IInv, HistoryListable

\* So does the event an import stores next.
LEMMA ImportedContinues ==
  ASSUME IInv, NEW c \in Clients, pc[c] = "import_events",
         Len(written[c]) + 1 <= Len(request[c].entries)
  PROVE  Continuation(Described(request[c].entries, Len(written[c]) + 1, written[c]))
<1> DEFINE s == request[c].entries
           i == Len(written[c]) + 1
           ids == written[c]
           e == Described(s, i, ids)
<1>1. s \in RecordSets
  BY DEF IInv, ImportingInv, ImportRequest
<1>2. s \in Seq(Entry)
  BY <1>1, RunAssumption
<1>3. ids \in Seq(Nat) /\ i \in Nat \ {0} /\ i \in DOMAIN s
  BY <1>2 DEF IInv, TypeOK
<1>4. s[i].payload \in Payloads /\ s[i].parents \subseteq 0 .. i - 2
  <2> HIDE DEF s, i
  <2>1. s[i] \in Entry
    BY <1>2, <1>3
  <2>2. \A j \in DOMAIN s : s[j].parents \subseteq 0 .. j - 2
    BY <1>1, RunAssumption
  <2>3. QED
    BY <1>3, <2>1, <2>2 DEF Entry
<1>5. \A k \in 1 .. i - 1 :
        ids[k] \in Nat /\ ids[k] \in DOMAIN events /\ events[ids[k]].sequence = k - 1
  BY <1>3 DEF IInv, ImportingInv
<1> HIDE DEF s, i, ids
<1>6. \A q \in s[i].parents : q + 1 \in 1 .. i - 1 /\ q \in Nat
  BY <1>3, <1>4
<1>7. /\ e.sequence = i - 1
      /\ e.previous = IF i = 1 THEN NoEvent ELSE ids[i - 1]
      /\ e.parents = {ids[q + 1] : q \in s[i].parents}
      /\ e.payload = s[i].payload
  BY DEF Described
<1>8. \A p \in e.parents : p \in Nat /\ p \in DOMAIN events /\ events[p].sequence < i - 1
  <2> SUFFICES ASSUME NEW q \in s[i].parents
               PROVE  /\ ids[q + 1] \in Nat /\ ids[q + 1] \in DOMAIN events
                      /\ events[ids[q + 1]].sequence < i - 1
    BY <1>7
  <2>1. q + 1 \in 1 .. i - 1 /\ q \in Nat
    BY <1>6
  <2>2. events[ids[q + 1]].sequence = q
    BY <2>1, <1>5
  <2>3. QED
    BY <2>1, <2>2, <1>3, <1>5
<1>9. e.previous \in Nat
  BY <1>3, <1>5, <1>7 DEF NoEvent
<1>10. e \in Event
  BY <1>3, <1>4, <1>7, <1>8, <1>9 DEF Described, Event
<1>11. IF e.sequence = 0 THEN e.previous = NoEvent
       ELSE e.previous \in DOMAIN events /\ events[e.previous].sequence + 1 = e.sequence
  BY <1>3, <1>5, <1>7
<1>12. Continuation(e)
  BY <1>7, <1>8, <1>10, <1>11 DEF Continuation
<1>13. QED
  BY <1>12 DEF s, i, ids

\* What the two event writers do, with the identity bound: everything stored
\* stays, one continuation of it is added or found.
LEMMA EventWritten ==
  ASSUME IInv, NEW c \in Clients, AppendEvent(c) \/ ImportEvent(c)
  PROVE  \E e \in Event, n \in Nat :
           /\ Continuation(e)
           /\ events' \in Seq(Event)
           /\ n \in DOMAIN events' /\ events'[n] = e
           /\ \A k \in DOMAIN events : k \in DOMAIN events' /\ events'[k] = events[k]
           /\ \A k \in DOMAIN events' : k \in DOMAIN events \/ events'[k] = e
           /\ AppendEvent(c) => written' = [written EXCEPT ![c] = <<n>>]
           /\ ImportEvent(c) =>
                /\ e.sequence = Len(written[c])
                /\ written' = [written EXCEPT ![c] = Append(written[c], n)]
<1>1. CASE AppendEvent(c)
  <2>1. PICK n \in 1 .. Len(events) + 1 :
          WriteEvent(basis[c], n) /\ written' = [written EXCEPT ![c] = <<n>>]
    BY <1>1 DEF AppendEvent
  <2>2. Continuation(basis[c]) /\ basis[c] \in Event
    BY <1>1, AppendedContinues DEF AppendEvent, Goto, Continuation
  <2>3. ~ImportEvent(c) /\ n \in Nat
    BY <1>1 DEF AppendEvent, ImportEvent, Goto, IInv, TypeOK
  <2>4. /\ events' \in Seq(Event)
        /\ n \in DOMAIN events' /\ events'[n] = basis[c]
        /\ \A k \in DOMAIN events : k \in DOMAIN events' /\ events'[k] = events[k]
        /\ \A k \in DOMAIN events' : k \in DOMAIN events \/ events'[k] = basis[c]
    BY <2>1, <2>2, <2>3, WriteEventKeeps DEF IInv, TypeOK
  <2>5. QED
    BY <2>1, <2>2, <2>3, <2>4
<1>2. CASE ImportEvent(c)
  <2> DEFINE e == Described(request[c].entries, Len(written[c]) + 1, written[c])
  <2>1. PICK n \in 1 .. Len(events) + 1 :
          /\ WriteEvent(e, n)
          /\ written' = [written EXCEPT ![c] = Append(written[c], n)]
    BY <1>2 DEF ImportEvent
  <2>2. Continuation(e)
    BY <1>2, ImportedContinues DEF ImportEvent
  <2>3. e \in Event
    BY <2>2 DEF Continuation
  <2>4. e.sequence = Len(written[c])
    <3>1. Len(written[c]) \in Nat
      BY DEF IInv, TypeOK
    <3>2. e.sequence = (Len(written[c]) + 1) - 1
      BY DEF Described
    <3>3. QED
      BY <3>1, <3>2
  <2>5. ~AppendEvent(c) /\ n \in Nat
    BY <1>2 DEF AppendEvent, ImportEvent, Goto, IInv, TypeOK
  <2> HIDE DEF e
  <2>6. /\ events' \in Seq(Event)
        /\ n \in DOMAIN events' /\ events'[n] = e
        /\ \A k \in DOMAIN events : k \in DOMAIN events' /\ events'[k] = events[k]
        /\ \A k \in DOMAIN events' : k \in DOMAIN events \/ events'[k] = e
    BY <2>1, <2>3, <2>5, WriteEventKeeps DEF IInv, TypeOK
  <2>7. QED
    BY <2>1, <2>2, <2>3, <2>4, <2>5, <2>6
<1>3. QED
  BY <1>1, <1>2

\* Every variable keeps its type in a step.
LEMMA TypeStep == IInv /\ [Next]_vars => TypeOK'
<1> SUFFICES ASSUME IInv, [Next]_vars PROVE TypeOK'
  OBVIOUS
<1>f. ASSUME NEW c \in Clients, Forget(c)
      PROVE  /\ request' \in [Clients -> AppendRequest \cup ImportRequest \cup {NoRequest}]
             /\ basis' \in [Clients -> Event \cup {NoRequest}]
             /\ written' \in [Clients -> Seq(Nat)]
  <2>1. <<>> \in Seq(Nat)
    OBVIOUS
  <2>2. QED
    BY <1>f, <2>1 DEF IInv, TypeOK, Forget
<1>g. ASSUME NEW c \in Clients, NEW from, NEW to \in Locked \cup {"idle", "import_verify"},
             Goto(c, from, to)
      PROVE  pc' \in [Clients -> Locked \cup {"idle", "import_verify"}]
  BY <1>g DEF IInv, TypeOK, Goto
<1> USE DEF IInv
<1>1. ASSUME NEW c \in Clients, Create(c) PROVE TypeOK'
  <2>1. CASE BeginCreate(c)
    BY <2>1, <1>g DEF TypeOK, BeginCreate, Acquire, Locked, locals, store
  <2>2. CASE CreateRunMissing(c) \/ CreateRunKept(c) \/ CreateRunRepaired(c)
    BY <2>2, <1>g DEF TypeOK, CreateRunMissing, CreateRunKept, CreateRunRepaired,
       Locked, locals, store
  <2>3. CASE CreateRunRecord(c)
    BY <2>3, <1>g DEF TypeOK, CreateRunRecord, Locked, locals
  <2>4. CASE CreateRunHead(c)
    BY <2>4, <1>g DEF TypeOK, CreateRunHead, EmptyHead, NoEvent, Locked, locals
  <2>5. QED
    BY <1>1, <2>1, <2>2, <2>3, <2>4 DEF Create
<1>2. ASSUME NEW c \in Clients, NEW p \in Payloads, BeginAppend(c, p) PROVE TypeOK'
  <2>1. [kind |-> "append", payload |-> p] \in AppendRequest
    BY DEF AppendRequest
  <2>2. "append_read" \in Locked
    BY DEF Locked
  <2>3. QED
    BY <1>2, <1>g, <2>1, <2>2 DEF TypeOK, BeginAppend, Acquire, store
<1>3. ASSUME NEW c \in Clients, AppendRefused(c) PROVE TypeOK'
  BY <1>3, <1>g DEF TypeOK, AppendRefused, Locked, store, locals
<1>4. ASSUME NEW c \in Clients, AppendAccepted(c) PROVE TypeOK'
  <2>1. PICK parents \in {DefaultParents, {}} \cup {{p} : p \in DOMAIN events} :
          basis' = [basis EXCEPT ![c] =
            [sequence |-> NextSequence, previous |-> head,
             parents |-> parents, payload |-> request[c].payload]]
    BY <1>4 DEF AppendAccepted
  <2>2. parents \in SUBSET Nat
    BY DEF TypeOK, DefaultParents
  <2>3. NextSequence \in Nat
    BY EventFields DEF HistoryListable, NextSequence, NoEvent
  <2>4. request[c].payload \in Payloads
    BY <1>4 DEF AppendAccepted, Goto, AppendingInv, AppendRequest
  <2>5. basis' \in [Clients -> Event \cup {NoRequest}]
    BY <2>1, <2>2, <2>3, <2>4 DEF TypeOK, Event
  <2>6. QED
    BY <1>4, <1>g, <2>5 DEF TypeOK, AppendAccepted, Locked, store
<1>5. ASSUME NEW c \in Clients, AppendEvent(c) \/ ImportEvent(c) PROVE TypeOK'
  <2>1. PICK n \in Nat :
          /\ events' \in Seq(Event)
          /\ AppendEvent(c) => written' = [written EXCEPT ![c] = <<n>>]
          /\ ImportEvent(c) => written' = [written EXCEPT ![c] = Append(written[c], n)]
    BY <1>5, EventWritten
  <2>2. <<n>> \in Seq(Nat) /\ Append(written[c], n) \in Seq(Nat)
    BY DEF TypeOK
  <2>3. written' \in [Clients -> Seq(Nat)]
    BY <1>5, <2>1, <2>2 DEF TypeOK
  <2>4. QED
    BY <1>5, <1>g, <2>1, <2>3 DEF TypeOK, AppendEvent, ImportEvent, Locked
<1>6. ASSUME NEW c \in Clients, AppendHead(c) \/ ImportHead(c) PROVE TypeOK'
  <2>1. head' \in Nat
    <3>1. CASE AppendHead(c)
      BY <3>1 DEF AppendHead, WriteHead, Goto, AppendingInv, TypeOK
    <3>2. CASE ImportHead(c) /\ written[c] = <<>>
      BY <3>2 DEF ImportHead, EmptyHead, NoEvent
    <3>3. CASE ImportHead(c) /\ written[c] # <<>>
      <4>1. written[c] \in Seq(Nat) /\ head' = written[c][Len(written[c])]
        BY <3>3 DEF ImportHead, WriteHead, TypeOK
      <4>2. QED
        BY <3>3, <4>1
    <3>4. QED
      BY <1>6, <3>1, <3>2, <3>3
  <2>2. QED
    BY <1>6, <1>g, <2>1 DEF TypeOK, AppendHead, ImportHead, EmptyHead, WriteHead,
       Locked, locals
<1>7. ASSUME NEW c \in Clients, NEW s \in RecordSets, BeginImport(c, s) PROVE TypeOK'
  <2>1. [kind |-> "import", entries |-> s] \in ImportRequest
    BY DEF ImportRequest
  <2>2. "import_check" \in Locked
    BY DEF Locked
  <2>3. QED
    BY <1>7, <1>g, <2>1, <2>2 DEF TypeOK, BeginImport, Acquire, store
<1>8. ASSUME NEW c \in Clients,
             ImportRefused(c) \/ ImportKnownRun(c) \/ ImportNewRun(c) \/ ImportRun(c)
             \/ ImportEventsDone(c) \/ ImportUnverified(c)
      PROVE  TypeOK'
  BY <1>8, <1>g DEF TypeOK, ImportRefused, ImportKnownRun, ImportNewRun, ImportRun,
     ImportEventsDone, ImportUnverified, Locked, store, locals
<1>9. ASSUME NEW c \in Clients, ImportUnlock(c) \/ Unlock(c) PROVE TypeOK'
  BY <1>9, <1>f, <1>g DEF TypeOK, ImportUnlock, Unlock, store
<1>10. ASSUME NEW c \in Clients, Verify(c) PROVE TypeOK'
  BY <1>10, <1>g DEF TypeOK, Verify, BeginVerify, EndVerify, Acquire, Locked, store, locals
<1>11. ASSUME NEW c \in Clients, Fail(c) \/ Kill(c) PROVE TypeOK'
  BY <1>11, <1>f DEF TypeOK, Fail, Kill, Locked, store
<1>12. ASSUME OperatorUnlock \/ (\E c \in Clients : AcquireFails(c)) PROVE TypeOK'
  BY <1>12 DEF TypeOK, OperatorUnlock, AcquireFails, store, locals
<1>13. CASE UNCHANGED vars
  BY <1>13 DEF TypeOK, vars, store, locals
<1>14. QED
  BY <1>1, <1>2, <1>3, <1>4, <1>5, <1>6, <1>7, <1>8, <1>9, <1>10, <1>11, <1>12, <1>13
     DEF Next, Appending, Import

\* The lock file and the client inside the locked region agree.
LEMMA ExclusionStep == IInv /\ [Next]_vars => Exclusion'
<1> SUFFICES ASSUME IInv, [Next]_vars PROVE Exclusion'
  OBVIOUS
<1> USE DEF IInv, TypeOK, Exclusion
<1>a. Free \notin Clients /\ Dead \notin Clients /\ Free # Dead
  BY RunAssumption
<1>1. ASSUME NEW c \in Clients, UNCHANGED lock, pc' = [pc EXCEPT ![c] = pc'[c]],
             pc[c] \in Locked <=> pc'[c] \in Locked
      PROVE  Exclusion'
  BY <1>1
<1>2. ASSUME NEW c \in Clients,
             CreateRunMissing(c) \/ CreateRunKept(c) \/ CreateRunRepaired(c)
             \/ CreateRunRecord(c) \/ CreateRunHead(c) \/ Appending(c)
             \/ ImportRefused(c) \/ ImportKnownRun(c) \/ ImportNewRun(c)
             \/ ImportRun(c) \/ ImportEvent(c) \/ ImportEventsDone(c)
             \/ ImportHead(c) \/ ImportUnverified(c) \/ EndVerify(c) \/ Fail(c)
      PROVE  Exclusion'
  <2>1. UNCHANGED lock
    BY <1>2 DEF CreateRunMissing, CreateRunKept, CreateRunRepaired, CreateRunRecord,
       CreateRunHead, Appending, AppendRefused, AppendAccepted, AppendEvent, AppendHead,
       ImportRefused, ImportKnownRun, ImportNewRun, ImportRun, ImportEvent,
       ImportEventsDone, ImportHead, ImportUnverified, EndVerify, Fail
  <2>2. pc' = [pc EXCEPT ![c] = pc'[c]] /\ (pc[c] \in Locked <=> pc'[c] \in Locked)
    BY <1>2 DEF Goto, Locked, CreateRunMissing, CreateRunKept, CreateRunRepaired,
       CreateRunRecord, CreateRunHead, Appending, AppendRefused, AppendAccepted,
       AppendEvent, AppendHead, ImportRefused, ImportKnownRun, ImportNewRun, ImportRun,
       ImportEvent, ImportEventsDone, ImportHead, ImportUnverified, EndVerify, Fail
  <2>3. QED
    BY <2>1, <2>2, <1>1
<1>3. ASSUME NEW c \in Clients,
             BeginCreate(c) \/ (\E p \in Payloads : BeginAppend(c, p))
             \/ (\E s \in RecordSets : BeginImport(c, s)) \/ BeginVerify(c)
      PROVE  Exclusion'
  <2>1. lock = Free /\ lock' = c
    BY <1>3 DEF BeginCreate, BeginAppend, BeginImport, BeginVerify, Acquire
  <2>2. pc' = [pc EXCEPT ![c] = pc'[c]] /\ pc'[c] \in Locked
    BY <1>3 DEF BeginCreate, BeginAppend, BeginImport, BeginVerify, Goto, Locked
  <2>3. QED
    BY <2>1, <2>2, <1>a
<1>4. ASSUME NEW c \in Clients, Unlock(c) \/ ImportUnlock(c) PROVE Exclusion'
  <2>1. pc[c] \in Locked /\ lock' = Free
    BY <1>4 DEF Unlock, ImportUnlock, Goto, Locked
  <2>2. pc' = [pc EXCEPT ![c] = pc'[c]] /\ pc'[c] \notin Locked
    BY <1>4 DEF Unlock, ImportUnlock, Goto, Locked
  <2>3. QED
    BY <2>1, <2>2, <1>a
<1>5. ASSUME NEW c \in Clients, Kill(c) PROVE Exclusion'
  BY <1>5, <1>a DEF Kill, Locked
<1>6. ASSUME OperatorUnlock \/ (\E c \in Clients : AcquireFails(c)) PROVE Exclusion'
  BY <1>6, <1>a DEF OperatorUnlock, AcquireFails
<1>7. CASE UNCHANGED vars
  BY <1>7 DEF vars
<1>8. QED
  BY <1>2, <1>3, <1>4, <1>5, <1>6, <1>7 DEF Next, Create, Import, Verify

\* The writers of HEAD name a stored event, or none.
LEMMA HeadWritten ==
  ASSUME IInv, NEW c \in Clients, CreateRunHead(c) \/ AppendHead(c) \/ ImportHead(c)
  PROVE  /\ run /\ headed' = TRUE /\ UNCHANGED <<run, events>>
         /\ head' \in DOMAIN events \cup {NoEvent}
<1>1. CASE CreateRunHead(c)
  BY <1>1 DEF CreateRunHead, EmptyHead, Goto, IInv, CreatingInv
<1>2. CASE AppendHead(c)
  BY <1>2 DEF AppendHead, WriteHead, Goto, IInv, AppendingInv
<1>3. CASE ImportHead(c) /\ written[c] = <<>>
  BY <1>3 DEF ImportHead, EmptyHead, Goto, IInv, ImportingInv
<1>4. CASE ImportHead(c) /\ written[c] # <<>>
  <2>1. written[c] \in Seq(Nat) /\ Len(written[c]) \in DOMAIN written[c]
    BY <1>4 DEF IInv, TypeOK
  <2>2. written[c][Len(written[c])] \in DOMAIN events /\ run
    BY <1>4, <2>1 DEF ImportHead, Goto, IInv, ImportingInv
  <2>3. QED
    BY <1>4, <2>2 DEF ImportHead, WriteHead
<1>5. QED
  BY <1>1, <1>2, <1>3, <1>4

\* Whatever is stored can be followed from HEAD down to sequence 0.
LEMMA HistoryListableStep == IInv /\ [Next]_vars => HistoryListable'
<1> SUFFICES ASSUME IInv, [Next]_vars PROVE HistoryListable'
  OBVIOUS
<1>0. HistoryListable
  BY DEF IInv
<1>1. CASE UNCHANGED store
  BY <1>0, <1>1 DEF store, HistoryListable
<1>2. ASSUME NEW c \in Clients, CreateRunRecord(c) \/ ImportRun(c) PROVE HistoryListable'
  BY <1>0, <1>2 DEF CreateRunRecord, ImportRun, HistoryListable
<1>3. ASSUME NEW c \in Clients, CreateRunHead(c) \/ AppendHead(c) \/ ImportHead(c)
      PROVE  HistoryListable'
  BY <1>0, <1>3, HeadWritten DEF HistoryListable
<1>4. ASSUME NEW c \in Clients, AppendEvent(c) \/ ImportEvent(c) PROVE HistoryListable'
  <2>1. PICK e \in Event :
          /\ Continuation(e)
          /\ \A k \in DOMAIN events : k \in DOMAIN events' /\ events'[k] = events[k]
          /\ \A k \in DOMAIN events' : k \in DOMAIN events \/ events'[k] = e
    BY <1>4, EventWritten
  <2>2. UNCHANGED <<run, headed, head>>
    BY <1>4 DEF AppendEvent, ImportEvent
  <2>3. ASSUME NEW k \in DOMAIN events'
        PROVE  /\ IF events'[k].sequence = 0 THEN events'[k].previous = NoEvent
                  ELSE /\ events'[k].previous \in DOMAIN events'
                       /\ events'[events'[k].previous].sequence + 1 = events'[k].sequence
               /\ \A p \in events'[k].parents :
                    p \in DOMAIN events' /\ events'[p].sequence < events'[k].sequence
    <3>1. CASE k \in DOMAIN events
      BY <1>0, <2>1, <3>1 DEF HistoryListable
    <3>2. CASE events'[k] = e
      BY <2>1, <3>2 DEF Continuation
    <3>3. QED
      BY <2>1, <3>1, <3>2
  <2>4. QED
    BY <1>0, <2>1, <2>2, <2>3 DEF HistoryListable
<1>5. QED
  BY <1>1, <1>2, <1>3, <1>4, StoreWriters DEF Writes

\* No event or HEAD is written before the run record.
LEMMA RunFirstStep == IInv /\ [Next]_vars => RunFirst'
<1> SUFFICES ASSUME IInv, [Next]_vars PROVE RunFirst'
  OBVIOUS
<1>1. CASE UNCHANGED store
  BY <1>1 DEF IInv, store, RunFirst
<1>2. ASSUME NEW c \in Clients, CreateRunRecord(c) \/ ImportRun(c) PROVE RunFirst'
  BY <1>2 DEF IInv, CreateRunRecord, ImportRun, RunFirst
<1>3. ASSUME NEW c \in Clients, CreateRunHead(c) \/ AppendHead(c) \/ ImportHead(c)
      PROVE  RunFirst'
  <2>1. run' = run /\ run /\ headed' = TRUE
    BY <1>3, HeadWritten
  <2>2. QED
    BY <2>1 DEF RunFirst
<1>4. ASSUME NEW c \in Clients, AppendEvent(c) \/ ImportEvent(c) PROVE RunFirst'
  <2>1. run /\ UNCHANGED <<run, headed, head>>
    BY <1>4 DEF AppendEvent, ImportEvent, Goto, IInv, AppendingInv, ImportingInv
  <2>2. QED
    BY <2>1 DEF IInv, RunFirst
<1>5. QED
  BY <1>1, <1>2, <1>3, <1>4, StoreWriters DEF Writes

\* A creator past its check still finds no record, or no HEAD and no events.
LEMMA CreatingStep == IInv /\ [Next]_vars => CreatingInv'
<1> SUFFICES ASSUME IInv, [Next]_vars, NEW d \in Clients,
                    pc'[d] \in {"create_run", "create_head"}
             PROVE  /\ pc'[d] = "create_run" => ~run'
                    /\ pc'[d] = "create_head" => run' /\ ~headed' /\ events' = <<>>
  BY DEF CreatingInv
<1>1. CASE Kept(d)
  <2>1. UNCHANGED store
    BY <1>1, Undisturbed DEF IInv, Kept, Locked
  <2>2. QED
    BY <1>1, <2>1 DEF IInv, CreatingInv, Kept, store
<1>2. CASE ~Kept(d)
  <2>1. CreateRunMissing(d) \/ CreateRunRepaired(d) \/ CreateRunRecord(d)
    BY <1>2, Frame DEF IInv, ClientStep, TypeOK, Create, Appending, Import, Verify,
       BeginCreate, CreateRunKept, CreateRunHead, BeginAppend, AppendRefused,
       AppendAccepted, AppendEvent, AppendHead, BeginImport, ImportRefused,
       ImportKnownRun, ImportNewRun, ImportRun, ImportEvent, ImportEventsDone,
       ImportHead, ImportUnlock, ImportUnverified, BeginVerify, EndVerify, Unlock,
       Fail, Kill, Goto
  <2>2. QED
    BY <2>1 DEF IInv, TypeOK, CreatingInv, RunFirst, CreateRunMissing,
       CreateRunRepaired, CreateRunRecord, Goto, store
<1>3. QED
  BY <1>1, <1>2

\* How a client comes to stand, after a step, inside append_event.
LEMMA EnterAppending ==
  ASSUME IInv, [Next]_vars, NEW d \in Clients, ~Kept(d),
         pc'[d] \in {"append_read", "append_event", "append_head"}
  PROVE  \/ \E p \in Payloads : BeginAppend(d, p)
         \/ AppendAccepted(d) \/ AppendEvent(d)
BY Frame DEF IInv, ClientStep, TypeOK, Create, Appending, Import, Verify,
   BeginCreate, CreateRunMissing, CreateRunKept, CreateRunRepaired, CreateRunRecord,
   CreateRunHead, AppendRefused, AppendHead, BeginImport, ImportRefused,
   ImportKnownRun, ImportNewRun, ImportRun, ImportEvent, ImportEventsDone,
   ImportHead, ImportUnlock, ImportUnverified, BeginVerify, EndVerify, Unlock,
   Fail, Kill, Goto

\* How a client comes to stand, after a step, inside import_record_set.
LEMMA EnterImporting ==
  ASSUME IInv, [Next]_vars, NEW d \in Clients, ~Kept(d),
         pc'[d] \in {"import_check", "import_run", "import_events", "import_head"}
  PROVE  \/ \E s \in RecordSets : BeginImport(d, s)
         \/ ImportKnownRun(d) \/ ImportNewRun(d) \/ ImportRun(d) \/ ImportEvent(d)
         \/ ImportEventsDone(d)
BY Frame DEF IInv, ClientStep, TypeOK, Create, Appending, Import, Verify,
   BeginCreate, CreateRunMissing, CreateRunKept, CreateRunRepaired, CreateRunRecord,
   CreateRunHead, BeginAppend, AppendRefused, AppendAccepted, AppendEvent, AppendHead,
   ImportRefused, ImportHead, ImportUnlock, ImportUnverified, BeginVerify, EndVerify,
   Unlock, Fail, Kill, Goto

\* What an appender computed is still so when it writes.
LEMMA AppendingStep == IInv /\ [Next]_vars => AppendingInv'
<1> SUFFICES ASSUME IInv, [Next]_vars, NEW d \in Clients,
                    pc'[d] \in {"append_read", "append_event", "append_head"}
             PROVE  /\ request'[d] \in AppendRequest
                    /\ pc'[d] \in {"append_event", "append_head"} => run' /\ headed'
                    /\ pc'[d] = "append_event" =>
                         /\ basis'[d] \in Event
                         /\ basis'[d].sequence = NextSequence'
                         /\ basis'[d].previous = head'
                         /\ AcceptableParents(basis[d].parents)'
                    /\ pc'[d] = "append_head" =>
                         Len(written'[d]) = 1 /\ written'[d][1] \in DOMAIN events'
  BY DEF AppendingInv
<1>1. CASE Kept(d)
  <2>1. UNCHANGED store
    BY <1>1, Undisturbed DEF IInv, Kept, Locked
  <2>2. /\ NextSequence' = NextSequence
        /\ AcceptableParents(basis[d].parents)' <=> AcceptableParents(basis[d].parents)
    BY <1>1, <2>1 DEF store, Kept, NextSequence, AcceptableParents
  <2>3. QED
    BY <1>1, <2>1, <2>2 DEF IInv, AppendingInv, Kept, store
<1>2. ASSUME NEW p \in Payloads, BeginAppend(d, p)
      PROVE  pc'[d] = "append_read" /\ request'[d] \in AppendRequest
  BY <1>2 DEF BeginAppend, Goto, IInv, TypeOK, AppendRequest
<1>3. CASE AppendAccepted(d)
  <2>1. PICK parents \in {DefaultParents, {}} \cup {{p} : p \in DOMAIN events} :
          /\ AcceptableParents(parents)
          /\ basis' = [basis EXCEPT ![d] =
               [sequence |-> NextSequence, previous |-> head,
                parents |-> parents, payload |-> request[d].payload]]
    BY <1>3 DEF AppendAccepted
  <2>2. basis'[d] = [sequence |-> NextSequence, previous |-> head,
                     parents |-> parents, payload |-> request[d].payload]
    BY <2>1 DEF IInv, TypeOK
  <2>3. request[d] \in AppendRequest /\ head \in Nat /\ parents \in SUBSET Nat
    BY <1>3 DEF AppendAccepted, Goto, IInv, AppendingInv, TypeOK, DefaultParents
  <2>4. NextSequence \in Nat
    BY EventFields DEF IInv, HistoryListable, NextSequence, NoEvent
  <2>5. basis'[d] \in Event
    BY <2>2, <2>3, <2>4 DEF Event, AppendRequest
  <2>6. UNCHANGED <<run, events, headed, head, request>> /\ headed
        /\ pc'[d] = "append_event"
    BY <1>3 DEF AppendAccepted, Goto, store, IInv, TypeOK
  <2>7. run
    BY <2>6 DEF IInv, RunFirst
  <2>8. basis'[d].parents = parents /\ basis'[d].sequence = NextSequence
        /\ basis'[d].previous = head
    BY <2>2
  <2>9. NextSequence' = NextSequence /\ AcceptableParents(basis[d].parents)'
    BY <2>1, <2>6, <2>8 DEF NextSequence, AcceptableParents
  <2>10. QED
    BY <2>3, <2>5, <2>6, <2>7, <2>8, <2>9
<1>4. CASE AppendEvent(d)
  <2>1. PICK n \in Nat : written' = [written EXCEPT ![d] = <<n>>] /\ n \in DOMAIN events'
    BY <1>4, EventWritten
  <2>2. written'[d] = <<n>>
    BY <2>1 DEF IInv, TypeOK
  <2>3. pc[d] = "append_event" /\ pc'[d] = "append_head"
        /\ UNCHANGED <<run, headed, request>>
    BY <1>4 DEF AppendEvent, Goto, IInv, TypeOK
  <2>4. run /\ headed /\ request[d] \in AppendRequest
    BY <2>3 DEF IInv, AppendingInv
  <2>5. QED
    BY <2>1, <2>2, <2>3, <2>4
<1>5. QED
  BY <1>1, <1>2, <1>3, <1>4, EnterAppending

\* Between calls a client has stored nothing.
LEMMA NothingWritten ==
  ASSUME IInv, [Next]_vars, NEW d \in Clients, ~Kept(d),
         pc'[d] \in {"idle", "import_verify"}
  PROVE  written'[d] = <<>>
<1>1. Unlock(d) \/ Kill(d) \/ ImportUnlock(d) \/ ImportUnverified(d)
  BY Frame DEF IInv, ClientStep, TypeOK, Create, Appending, Import, Verify,
     BeginCreate, CreateRunMissing, CreateRunKept, CreateRunRepaired, CreateRunRecord,
     CreateRunHead, BeginAppend, AppendRefused, AppendAccepted, AppendEvent, AppendHead,
     BeginImport, ImportRefused, ImportKnownRun, ImportNewRun, ImportRun, ImportEvent,
     ImportEventsDone, ImportHead, BeginVerify, EndVerify, Fail, Goto
<1>2. CASE Unlock(d) \/ Kill(d) \/ ImportUnlock(d)
  BY <1>2 DEF Unlock, Kill, ImportUnlock, Forget, IInv, TypeOK
<1>3. CASE ImportUnverified(d)
  BY <1>3 DEF ImportUnverified, Goto, locals, IInv, ImportingInv
<1>4. QED
  BY <1>1, <1>2, <1>3

\* What an import has stored so far stays the beginning of a chain.
LEMMA ImportingStep == IInv /\ [Next]_vars => ImportingInv'
<1> SUFFICES ASSUME IInv, [Next]_vars, NEW d \in Clients
             PROVE  /\ pc'[d] \in {"import_check", "import_run", "import_events", "import_head"} =>
                         request'[d] \in ImportRequest
                    /\ pc'[d] \in {"idle", "import_verify", "import_check", "import_run"} =>
                         written'[d] = <<>>
                    /\ pc'[d] = "import_run" => ~run'
                    /\ pc'[d] \in {"import_events", "import_head"} =>
                         /\ run' /\ Len(written'[d]) <= Len(request'[d].entries)
                         /\ \A i \in DOMAIN written'[d] :
                              /\ written'[d][i] \in DOMAIN events'
                              /\ events'[written'[d][i]].sequence = i - 1
  BY DEF ImportingInv
<1>1. CASE Kept(d) /\ pc[d] \in Locked
  <2>1. UNCHANGED store
    BY <1>1, Undisturbed DEF IInv
  <2>2. QED
    BY <1>1, <2>1 DEF IInv, ImportingInv, Kept, store
<1>2. CASE Kept(d) /\ pc[d] \notin Locked
  BY <1>2 DEF IInv, ImportingInv, Kept, Locked
<1>3. CASE ~Kept(d) /\ pc'[d] \in {"idle", "import_verify"}
  BY <1>3, NothingWritten
<1>4. ASSUME NEW s \in RecordSets, BeginImport(d, s)
      PROVE  /\ pc'[d] = "import_check" /\ request'[d] \in ImportRequest
             /\ written'[d] = <<>>
  BY <1>4 DEF BeginImport, Goto, IInv, TypeOK, ImportRequest, ImportingInv
<1>5. CASE ImportKnownRun(d) \/ ImportNewRun(d) \/ ImportRun(d)
  <2>1. /\ request[d] \in ImportRequest /\ written[d] = <<>>
        /\ UNCHANGED <<request, written>>
        /\ pc'[d] \in {"import_run", "import_events"}
        /\ pc'[d] = "import_run" => ~run'
        /\ pc'[d] = "import_events" => run'
    BY <1>5 DEF ImportKnownRun, ImportNewRun, ImportRun, Goto, IInv, TypeOK,
       ImportingInv, store, locals
  <2>2. request[d].entries \in Seq(Entry)
    BY <2>1, RunAssumption DEF ImportRequest
  <2>3. Len(written'[d]) <= Len(request'[d].entries) /\ DOMAIN written'[d] = {}
    BY <2>1, <2>2
  <2>4. QED
    BY <2>1, <2>3
<1>6. CASE ImportEvent(d)
  <2>1. PICK e \in Event, n \in Nat :
          /\ n \in DOMAIN events' /\ events'[n] = e
          /\ \A k \in DOMAIN events : k \in DOMAIN events' /\ events'[k] = events[k]
          /\ e.sequence = Len(written[d])
          /\ written' = [written EXCEPT ![d] = Append(written[d], n)]
    BY <1>6, EventWritten
  <2>2. pc[d] = "import_events" /\ UNCHANGED <<pc, run, request>>
        /\ Len(written[d]) + 1 <= Len(request[d].entries)
    BY <1>6 DEF ImportEvent
  <2>3. written'[d] = Append(written[d], n) /\ written[d] \in Seq(Nat)
    BY <2>1 DEF IInv, TypeOK
  <2>4. Len(written'[d]) = Len(written[d]) + 1
    BY <2>3
  <2>5. ASSUME NEW i \in DOMAIN written'[d]
        PROVE  /\ written'[d][i] \in DOMAIN events'
               /\ events'[written'[d][i]].sequence = i - 1
    <3>1. CASE i \in DOMAIN written[d]
      <4>1. written'[d][i] = written[d][i]
        BY <2>3, <3>1
      <4>2. written[d][i] \in DOMAIN events /\ events[written[d][i]].sequence = i - 1
        BY <2>2, <3>1 DEF IInv, ImportingInv
      <4>3. QED
        BY <2>1, <4>1, <4>2
    <3>2. CASE i \notin DOMAIN written[d]
      <4>1. i = Len(written[d]) + 1 /\ written'[d][i] = n
        BY <2>3, <3>2
      <4>2. i - 1 = Len(written[d])
        BY <2>3, <4>1
      <4>3. QED
        BY <2>1, <4>1, <4>2
    <3>3. QED
      BY <3>1, <3>2
  <2>6. request[d] \in ImportRequest /\ run
    BY <2>2 DEF IInv, ImportingInv
  <2>7. QED
    BY <2>2, <2>4, <2>5, <2>6
<1>7. CASE ImportEventsDone(d)
  <2>1. /\ pc[d] = "import_events" /\ pc'[d] = "import_head"
        /\ UNCHANGED <<run, events, request, written>>
    BY <1>7 DEF ImportEventsDone, Goto, IInv, TypeOK, store, locals
  <2>2. QED
    BY <2>1 DEF IInv, ImportingInv
<1>8. QED
  BY <1>1, <1>2, <1>3, <1>4, <1>5, <1>6, <1>7, EnterImporting

-----------------------------------------------------------------------------
(* The walk from HEAD                                                      *)

\* A nonempty set of numbers has a least one.
LEMMA Least ==
  ASSUME NEW S, S \subseteq Nat, S # {}
  PROVE  \E m \in S : \A k \in S : m <= k
<1>1. PICK m \in S : \A k \in S : <<k, m>> \notin OpToRel(<, Nat)
  BY NatLessThanWellFounded, WFMin
<1>2. \A k \in S : ~(k < m)
  BY <1>1 DEF OpToRel
<1>3. QED
  BY <1>2

\* Records whose predecessors are stored, with the sequence number before.
Chained(records) ==
  /\ records \in Seq(Event)
  /\ \A n \in DOMAIN records :
       IF records[n].sequence = 0 THEN records[n].previous = NoEvent
       ELSE /\ records[n].previous \in DOMAIN records
            /\ records[records[n].previous].sequence + 1 = records[n].sequence

\* The definition of a walk, over the records that are at most that deep.
Depth(records, n) == IF n = NoEvent THEN 0 ELSE records[n].sequence + 1
Within(records, k) == {n \in 0 .. Len(records) : Depth(records, n) <= k}
IsWalk(g, records, S) ==
  g = [n \in S |-> IF n = NoEvent THEN <<>> ELSE Append(g[records[n].previous], n)]

\* What a chained record holds: its event before, and a depth one above that one's.
LEMMA RecordFields ==
  ASSUME NEW records, Chained(records), NEW n \in DOMAIN records
  PROVE  /\ n \in Nat \ {0} /\ n \in 1 .. Len(records) /\ Len(records) \in Nat
         /\ records[n].sequence \in Nat /\ records[n].previous \in 0 .. Len(records)
         /\ Depth(records, n) = records[n].sequence + 1
         /\ Depth(records, records[n].previous) = records[n].sequence
<1>1. records \in Seq(Event) /\ n \in 1 .. Len(records) /\ Len(records) \in Nat
  BY DEF Chained
<1>2. records[n].sequence \in Nat /\ records[n].previous \in Nat
  <2>1. records[n] \in Event
    BY <1>1
  <2>2. QED
    BY <2>1 DEF Event
<1>3. CASE records[n].sequence = 0
  BY <1>1, <1>2, <1>3 DEF Chained, Depth, NoEvent
<1>4. CASE records[n].sequence # 0
  <2>1. /\ records[n].previous \in DOMAIN records
        /\ records[records[n].previous].sequence + 1 = records[n].sequence
    BY <1>4 DEF Chained
  <2>2. QED
    BY <1>1, <1>2, <2>1 DEF Depth, NoEvent
<1>5. QED
  BY <1>3, <1>4

\* Some depth bounds those of all the records.
LEMMA DepthBounded ==
  ASSUME NEW records, Chained(records)
  PROVE  \E k \in Nat : Within(records, k) = 0 .. Len(records)
<1> DEFINE Bound(m, k) == \A n \in 0 .. m : Depth(records, n) <= k
           Bad == {m \in 0 .. Len(records) : ~\E k \in Nat : Bound(m, k)}
<1>1. Len(records) \in Nat /\ DOMAIN records = 1 .. Len(records)
  BY DEF Chained
<1>2. \A n \in 0 .. Len(records) : Depth(records, n) \in Nat
  <2> SUFFICES ASSUME NEW n \in 0 .. Len(records) PROVE Depth(records, n) \in Nat
    OBVIOUS
  <2>1. CASE n = 0
    BY <2>1 DEF Depth, NoEvent
  <2>2. CASE n # 0
    <3>1. Depth(records, n) = records[n].sequence + 1 /\ records[n].sequence \in Nat
      BY <1>1, <2>2, RecordFields
    <3>2. QED
      BY <3>1
  <2>3. QED
    BY <2>1, <2>2
<1>3. Bad = {}
  <2> SUFFICES ASSUME Bad # {} PROVE FALSE
    OBVIOUS
  <2>1. Bad \subseteq 0 .. Len(records) /\ Bad \subseteq Nat
    <3>1. Bad \subseteq 0 .. Len(records)
      OBVIOUS
    <3> HIDE DEF Bad
    <3>2. QED
      BY <1>1, <3>1
  <2>2. \A m \in 0 .. Len(records) : m \notin Bad <=> \E k \in Nat : Bound(m, k)
    OBVIOUS
  <2>3. Bound(0, 0)
    BY DEF Depth, NoEvent
  <2>4. ASSUME NEW m \in 1 .. Len(records), NEW k \in Nat, Bound(m - 1, k)
        PROVE  \E j \in Nat : Bound(m, j)
    <3>1. PICK d \in Nat : d = Depth(records, m)
      BY <1>1, <1>2
    <3>2. \A n \in 0 .. m : Depth(records, n) <= k + d
      <4> SUFFICES ASSUME NEW n \in 0 .. m PROVE Depth(records, n) <= k + d
        OBVIOUS
      <4>1. CASE n = m
        BY <3>1, <4>1
      <4>2. CASE n # m
        <5>1. n \in 0 .. m - 1 /\ n \in 0 .. Len(records)
          BY <1>1, <4>2
        <5>2. QED
          BY <1>2, <2>4, <5>1
      <4>3. QED
        BY <4>1, <4>2
    <3>3. k + d \in Nat /\ Bound(m, k + d)
      BY <3>2
    <3>4. QED
      BY <3>3
  <2> HIDE DEF Bad, Bound
  <2>5. PICK m \in Bad : \A k \in Bad : m <= k
    BY <2>1, Least
  <2>6. m \in 1 .. Len(records) /\ m - 1 \in 0 .. Len(records) /\ m - 1 \notin Bad
    BY <1>1, <2>1, <2>2, <2>3, <2>5
  <2>7. QED
    BY <2>1, <2>2, <2>4, <2>5, <2>6
<1>4. PICK k \in Nat : Bound(Len(records), k)
  <2> HIDE DEF Bad
  <2>1. Len(records) \notin Bad /\ Len(records) \in 0 .. Len(records)
    BY <1>1, <1>3
  <2> USE DEF Bad
  <2>2. QED
    BY <2>1
<1>5. QED
  BY <1>4 DEF Within

\* There is a function that walks from every event, by least counterexample on the depth.
LEMMA WalkExists ==
  ASSUME NEW records, Chained(records)
  PROVE  \E g : IsWalk(g, records, 0 .. Len(records))
<1> DEFINE Bad == {k \in Nat : ~\E g : IsWalk(g, records, Within(records, k))}
<1>1. Bad = {}
  <2> SUFFICES ASSUME Bad # {} PROVE FALSE
    OBVIOUS
  <2>1. PICK k \in Bad : \A j \in Bad : k <= j
    <3> Bad \subseteq Nat
      OBVIOUS
    <3> HIDE DEF Bad
    <3> QED
      BY Least
  <2>2. \A n \in 1 .. Len(records) : n \in DOMAIN records
    BY DEF Chained
  <2>3. CASE k = 0
    <3>1. \A n \in Within(records, 0) : n = 0
      BY <2>2, RecordFields DEF Within, NoEvent
    <3> DEFINE g == [n \in Within(records, 0) |-> <<>>]
    <3>2. IsWalk(g, records, Within(records, 0))
      BY <3>1 DEF IsWalk, NoEvent
    <3>3. QED
      BY <2>3, <3>2
  <2>4. CASE k # 0
    <3>1. k - 1 \in Nat /\ k - 1 \notin Bad
      BY <2>1, <2>4
    <3>2. PICK g : IsWalk(g, records, Within(records, k - 1))
      BY <3>1
    <3> DEFINE h == [n \in Within(records, k) |->
                       IF n = NoEvent THEN <<>> ELSE Append(g[records[n].previous], n)]
    <3>3. ASSUME NEW n \in Within(records, k), n # NoEvent
          PROVE  h[records[n].previous] = g[records[n].previous]
      <4>1. n \in DOMAIN records
        BY <2>2, <3>3 DEF Within, NoEvent
      <4> DEFINE p == records[n].previous
      <4>2. p \in Within(records, k - 1) /\ p \in Within(records, k)
        BY <3>1, <4>1, <3>3, RecordFields DEF Within
      <4>3. h[p] = IF p = NoEvent THEN <<>> ELSE Append(g[records[p].previous], p)
        BY <4>2
      <4>4. g[p] = IF p = NoEvent THEN <<>> ELSE Append(g[records[p].previous], p)
        BY <3>2, <4>2 DEF IsWalk
      <4>5. QED
        BY <4>3, <4>4
    <3>4. IsWalk(h, records, Within(records, k))
      BY <3>3 DEF IsWalk
    <3>5. QED
      BY <3>4
  <2>5. QED
    BY <2>3, <2>4
<1>2. PICK k \in Nat : Within(records, k) = 0 .. Len(records)
  BY DepthBounded
<1>3. QED
  BY <1>1, <1>2

\* Walk is such a function.
LEMMA WalkIs ==
  ASSUME NEW records, Chained(records)
  PROVE  IsWalk(Walk(records), records, 0 .. Len(records))
<1>1. Walk(records) = CHOOSE g : IsWalk(g, records, 0 .. Len(records))
  BY DEF Walk, IsWalk
<1>2. QED
  BY <1>1, WalkExists

\* A walk is empty, or goes on from the walk to the event before.
LEMMA WalkStep ==
  ASSUME NEW records, Chained(records)
  PROVE  /\ Walk(records)[NoEvent] = <<>>
         /\ \A n \in DOMAIN records :
              Walk(records)[n] = Append(Walk(records)[records[n].previous], n)
<1>1. Len(records) \in Nat /\ DOMAIN records = 1 .. Len(records)
  BY DEF Chained
<1>2. Walk(records) = [n \in 0 .. Len(records) |->
        IF n = NoEvent THEN <<>> ELSE Append(Walk(records)[records[n].previous], n)]
  BY WalkIs DEF IsWalk
<1>3. Walk(records)[NoEvent] = <<>>
  <2>1. NoEvent \in 0 .. Len(records)
    BY <1>1 DEF NoEvent
  <2>2. QED
    BY <1>2, <2>1
<1>4. ASSUME NEW n \in DOMAIN records
      PROVE  Walk(records)[n] = Append(Walk(records)[records[n].previous], n)
  <2>1. n \in 0 .. Len(records) /\ n # NoEvent
    BY <1>1 DEF NoEvent
  <2>2. QED
    BY <1>2, <2>1
<1>5. QED
  BY <1>3, <1>4

\* The walk to an event shows events 0, 1, ... up to it, each naming the last.
IsPath(records, n, ids) ==
  /\ ids \in Seq(DOMAIN records) /\ Len(ids) = Depth(records, n)
  /\ n # NoEvent => ids[Len(ids)] = n
  /\ \A i \in DOMAIN ids :
       /\ records[ids[i]].sequence = i - 1
       /\ records[ids[i]].previous = IF i = 1 THEN NoEvent ELSE ids[i - 1]

\* The walk from an event is the path from the first event to it, by sequence.
LEMMA WalkPath ==
  ASSUME NEW records, Chained(records), NEW n \in 0 .. Len(records)
  PROVE  IsPath(records, n, Walk(records)[n])
<1> DEFINE Deep(k) == {m \in 0 .. Len(records) : Depth(records, m) = k}
           Bad == {k \in Nat : \E m \in Deep(k) : ~IsPath(records, m, Walk(records)[m])}
<1>1. Len(records) \in Nat /\ DOMAIN records = 1 .. Len(records)
  BY DEF Chained
<1>2. IsPath(records, 0, Walk(records)[0])
  <2>1. Walk(records)[0] = <<>>
    BY WalkStep DEF NoEvent
  <2>2. IsPath(records, 0, <<>>)
    BY DEF IsPath, Depth, NoEvent
  <2>3. QED
    BY <2>1, <2>2
<1>3. ASSUME NEW m \in DOMAIN records,
             IsPath(records, records[m].previous, Walk(records)[records[m].previous])
      PROVE  IsPath(records, m, Walk(records)[m])
  <2> DEFINE p == records[m].previous
             ids == Walk(records)[p]
  <2>1. Walk(records)[m] = Append(ids, m)
    BY WalkStep
  <2>2. /\ records[m].sequence \in Nat /\ Depth(records, m) = records[m].sequence + 1
        /\ Depth(records, p) = records[m].sequence
    BY RecordFields
  <2>3. ids \in Seq(DOMAIN records) /\ Len(ids) = records[m].sequence
    BY <1>3, <2>2 DEF IsPath
  <2>4. m # NoEvent
    BY <1>1 DEF NoEvent
  <2>5. p = IF Len(ids) + 1 = 1 THEN NoEvent ELSE ids[Len(ids)]
    <3>1. CASE records[m].sequence = 0
      BY <2>3, <3>1 DEF Chained
    <3>2. CASE records[m].sequence # 0
      <4>1. p \in DOMAIN records
        BY <3>2 DEF Chained
      <4>2. p # NoEvent
        BY <1>1, <4>1 DEF NoEvent
      <4>3. QED
        BY <1>3, <2>2, <2>3, <3>2, <4>2 DEF IsPath
    <3>3. QED
      BY <3>1, <3>2
  <2>6. \A i \in DOMAIN ids :
          /\ records[ids[i]].sequence = i - 1
          /\ records[ids[i]].previous = IF i = 1 THEN NoEvent ELSE ids[i - 1]
    BY <1>3 DEF IsPath
  <2> HIDE DEF p, ids
  <2>7. ASSUME NEW path, path = Append(ids, m)
        PROVE  IsPath(records, m, path)
    <3>1. /\ path \in Seq(DOMAIN records) /\ Len(path) = Len(ids) + 1 /\ Len(ids) \in Nat
          /\ path[Len(ids) + 1] = m /\ DOMAIN path = 1 .. Len(ids) + 1
          /\ DOMAIN ids = 1 .. Len(ids)
          /\ \A i \in DOMAIN ids : path[i] = ids[i]
      BY <2>3, <2>7
    <3>2. ASSUME NEW i \in DOMAIN path
          PROVE  /\ records[path[i]].sequence = i - 1
                 /\ records[path[i]].previous = IF i = 1 THEN NoEvent ELSE path[i - 1]
      <4>1. CASE i = Len(ids) + 1
        <5>1. records[path[i]] = records[m] /\ records[m].previous = p
          BY <3>1, <4>1 DEF p
        <5>2. Len(ids) + 1 # 1 => path[i - 1] = ids[Len(ids)]
          BY <3>1, <4>1
        <5>3. QED
          BY <2>3, <2>5, <3>1, <4>1, <5>1, <5>2
      <4>2. CASE i # Len(ids) + 1
        <5>1. i \in DOMAIN ids /\ path[i] = ids[i] /\ (i # 1 => path[i - 1] = ids[i - 1])
          BY <3>1, <4>2
        <5>2. QED
          BY <2>6, <5>1
      <4>3. QED
        BY <4>1, <4>2
    <3>3. QED
      BY <2>2, <2>3, <3>1, <3>2 DEF IsPath
  <2>8. QED
    BY <2>1, <2>7
<1>4. Bad = {}
  <2> SUFFICES ASSUME Bad # {} PROVE FALSE
    OBVIOUS
  <2>1. PICK k \in Bad : \A j \in Bad : k <= j
    <3>1. Bad \subseteq Nat
      OBVIOUS
    <3> HIDE DEF Bad
    <3>2. QED
      BY <3>1, Least
  <2>2. PICK m \in Deep(k) : ~IsPath(records, m, Walk(records)[m])
    OBVIOUS
  <2>3. m \in DOMAIN records /\ k \in Nat /\ k = Depth(records, m)
    BY <1>1, <1>2, <2>2
  <2>4. /\ records[m].previous \in 0 .. Len(records)
        /\ records[m].sequence \in Nat
        /\ k = records[m].sequence + 1
        /\ Depth(records, records[m].previous) = records[m].sequence
    BY <2>3, RecordFields
  <2>5. records[m].sequence \notin Bad
    <3> HIDE DEF Bad
    <3> QED
      BY <2>1, <2>4
  <2>6. records[m].previous \in Deep(records[m].sequence)
    BY <2>4
  <2>7. IsPath(records, records[m].previous, Walk(records)[records[m].previous])
    BY <2>4, <2>5, <2>6
  <2>8. QED
    BY <1>3, <2>2, <2>3, <2>7
<1>5. Depth(records, n) \in Nat
  <2>1. CASE n = 0
    BY <2>1 DEF Depth, NoEvent
  <2>2. CASE n # 0
    <3>1. Depth(records, n) = records[n].sequence + 1 /\ records[n].sequence \in Nat
      BY <1>1, <2>2, RecordFields
    <3>2. QED
      BY <3>1
  <2>3. QED
    BY <2>1, <2>2
<1>6. QED
  BY <1>4, <1>5

\* A path is the walk to its last event.
LEMMA PathIsWalk ==
  ASSUME NEW records, Chained(records), NEW ids \in Seq(DOMAIN records),
         \A i \in DOMAIN ids :
           records[ids[i]].previous = IF i = 1 THEN NoEvent ELSE ids[i - 1]
  PROVE  ids # <<>> => Walk(records)[ids[Len(ids)]] = ids
<1> DEFINE Bad == {i \in 1 .. Len(ids) : Walk(records)[ids[i]] # SubSeq(ids, 1, i)}
<1>1. Len(ids) \in Nat /\ DOMAIN ids = 1 .. Len(ids)
  OBVIOUS
<1>2. \A i \in 1 .. Len(ids) :
        Walk(records)[ids[i]] = Append(Walk(records)[records[ids[i]].previous], ids[i])
  BY <1>1, WalkStep
<1>3. Bad = {}
  <2> SUFFICES ASSUME Bad # {} PROVE FALSE
    OBVIOUS
  <2>1. PICK i \in Bad : \A j \in Bad : i <= j
    <3>1. Bad \subseteq Nat
      BY <1>1
    <3> HIDE DEF Bad
    <3>2. QED
      BY <3>1, Least
  <2>2. i \in 1 .. Len(ids)
    OBVIOUS
  <2>3. CASE i = 1
    <3>1. Walk(records)[ids[1]] = Append(<<>>, ids[1])
      <4>1. records[ids[1]].previous = NoEvent
        BY <1>1, <2>2, <2>3
      <4>2. Walk(records)[NoEvent] = <<>>
        BY WalkStep
      <4>3. QED
        BY <1>2, <2>2, <2>3, <4>1, <4>2
    <3>2. SubSeq(ids, 1, 1) = Append(<<>>, ids[1])
      <4>1. Append(<<>>, ids[1]) = <<ids[1]>>
        OBVIOUS
      <4>2. SubSeq(ids, 1, 1) = <<ids[1]>>
        <5>1. /\ SubSeq(ids, 1, 1) \in Seq(DOMAIN records) /\ Len(SubSeq(ids, 1, 1)) = 1
              /\ SubSeq(ids, 1, 1)[1] = ids[1] /\ ids[1] \in DOMAIN records
          BY <1>1, <2>2, <2>3
        <5>2. /\ <<ids[1]>> \in Seq(DOMAIN records) /\ Len(<<ids[1]>>) = 1
              /\ <<ids[1]>>[1] = ids[1]
          BY <5>1
        <5>3. \A j \in 1 .. 1 : SubSeq(ids, 1, 1)[j] = <<ids[1]>>[j]
          BY <5>1, <5>2
        <5>4. QED
          BY <5>1, <5>2, <5>3, SeqEqual
      <4>3. QED
        BY <4>1, <4>2
    <3>3. QED
      BY <2>3, <3>1, <3>2
  <2>4. CASE i # 1
    <3>1. i - 1 \in 1 .. Len(ids) /\ i - 1 \notin Bad
      <4> HIDE DEF Bad
      <4> QED
        BY <1>1, <2>1, <2>2, <2>4
    <3>2. Walk(records)[ids[i - 1]] = SubSeq(ids, 1, i - 1)
      BY <3>1
    <3>3. Walk(records)[ids[i]] = Append(SubSeq(ids, 1, i - 1), ids[i])
      BY <1>1, <1>2, <2>2, <2>4, <3>2
    <3>4. SubSeq(ids, 1, i) = Append(SubSeq(ids, 1, i - 1), ids[i])
      BY <1>1, <2>2, <2>4
    <3>5. QED
      BY <3>3, <3>4
  <2>5. QED
    BY <2>3, <2>4
<1>4. QED
  <2> SUFFICES ASSUME ids # <<>> PROVE Walk(records)[ids[Len(ids)]] = ids
    OBVIOUS
  <2>1. Len(ids) \in 1 .. Len(ids) /\ SubSeq(ids, 1, Len(ids)) = ids
    BY <1>1
  <2>2. QED
    BY <1>3, <2>1

\* What is stored later changes no walk.
LEMMA WalkStays ==
  ASSUME NEW old, NEW new, Chained(old), Chained(new),
         \A k \in DOMAIN old : k \in DOMAIN new /\ new[k] = old[k],
         NEW n \in 0 .. Len(old)
  PROVE  Walk(new)[n] = Walk(old)[n]
<1> DEFINE ids == Walk(old)[n]
<1>1. IsPath(old, n, ids)
  BY WalkPath
<1>2. CASE n = NoEvent
  BY <1>2, WalkStep
<1>3. CASE n # NoEvent
  <2>1. n \in DOMAIN old
    BY <1>3 DEF Chained, NoEvent
  <2>2. ids \in Seq(DOMAIN old) /\ Len(ids) = old[n].sequence + 1 /\ ids[Len(ids)] = n
    BY <1>1, <1>3, <2>1, RecordFields DEF IsPath
  <2>3. ids \in Seq(DOMAIN new)
    BY <2>2
  <2>4. \A i \in DOMAIN ids : new[ids[i]].previous = IF i = 1 THEN NoEvent ELSE ids[i - 1]
    BY <1>1, <2>2 DEF IsPath
  <2>5. ids # <<>>
    <3>1. old[n].sequence \in Nat
      BY <2>1, RecordFields
    <3>2. QED
      BY <2>2, <3>1
  <2> HIDE DEF ids
  <2>6. Walk(new)[ids[Len(ids)]] = ids
    BY <2>3, <2>4, <2>5, PathIsWalk
  <2>7. QED
    BY <2>2, <2>6 DEF ids
<1>4. QED
  BY <1>2, <1>3

\* Equal content is stored once.
Distinct(records) ==
  \A j \in DOMAIN records : \A k \in DOMAIN records : records[j] = records[k] => j = k

\* The entries of s, as far as ids goes, are what these records tell.
Tells(records, s, ids) ==
  /\ ids \in Seq(DOMAIN records) /\ Len(ids) <= Len(s)
  /\ \A i \in DOMAIN ids : records[ids[i]] = Described(s, i, ids)

\* The same entries have the same identities.
LEMMA SameIdentities ==
  ASSUME NEW records \in Seq(Event), Distinct(records), NEW s \in RecordSets,
         NEW a, NEW b, Tells(records, s, a), Tells(records, s, b), Len(a) <= Len(b)
  PROVE  \A i \in DOMAIN a : a[i] = b[i]
<1> DEFINE Bad == {i \in DOMAIN a : a[i] # b[i]}
<1>1. /\ a \in Seq(DOMAIN records) /\ b \in Seq(DOMAIN records)
      /\ Len(a) \in Nat /\ Len(b) \in Nat /\ DOMAIN a = 1 .. Len(a) /\ DOMAIN b = 1 .. Len(b)
  BY DEF Tells
<1>2. s \in Seq(Entry) /\ Len(s) \in Nat /\ DOMAIN s = 1 .. Len(s)
  BY RunAssumption
<1> SUFFICES ASSUME Bad # {} PROVE FALSE
  OBVIOUS
<1>3. PICK i \in Bad : \A j \in Bad : i <= j
  <2>1. Bad \subseteq Nat
    BY <1>1
  <2> HIDE DEF Bad
  <2>2. QED
    BY <2>1, Least
<1>4. i \in 1 .. Len(a) /\ i \in DOMAIN a /\ i \in DOMAIN b /\ i \in DOMAIN s /\ a[i] # b[i]
  BY <1>1, <1>2 DEF Tells
<1>5. \A j \in 1 .. i - 1 : a[j] = b[j]
  <2> SUFFICES ASSUME NEW j \in 1 .. i - 1 PROVE a[j] = b[j]
    OBVIOUS
  <2>1. j \in DOMAIN a /\ j < i
    <3> HIDE DEF Bad
    <3>1. i \in Nat /\ j \in Nat /\ j <= i - 1 /\ i <= Len(a)
      BY <1>1, <1>4
    <3>2. QED
      BY <1>1, <3>1
  <2>2. j \notin Bad
    <3> HIDE DEF Bad
    <3> QED
      BY <1>3, <1>4, <2>1
  <2>3. QED
    BY <2>1, <2>2
<1>6. s[i].parents \subseteq 0 .. i - 2
  BY <1>4, RunAssumption
<1>7. {a[q + 1] : q \in s[i].parents} = {b[q + 1] : q \in s[i].parents}
  <2>1. \A q \in s[i].parents : q + 1 \in 1 .. i - 1
    BY <1>4, <1>6
  <2>2. \A q \in s[i].parents : a[q + 1] = b[q + 1]
    BY <1>5, <2>1
  <2>3. QED
    BY <2>2
<1>8. i # 1 => a[i - 1] = b[i - 1]
  BY <1>4, <1>5
<1>9. Described(s, i, a) = Described(s, i, b)
  BY <1>7, <1>8 DEF Described
<1>10. records[a[i]] = records[b[i]] /\ a[i] \in DOMAIN records /\ b[i] \in DOMAIN records
  BY <1>1, <1>4, <1>9 DEF Tells
<1>11. QED
  BY <1>4, <1>10 DEF Distinct

\* What each client writes is what it was asked to, and what it read when it was.
WritingInv ==
  /\ Distinct(events)
  /\ \A c \in Clients :
       /\ pc[c] = "append_event" => basis[c].payload = request[c].payload
       /\ pc[c] = "append_head" =>
            /\ events[written[c][1]].previous = head
            /\ events[written[c][1]].sequence = NextSequence
            /\ events[written[c][1]].payload = request[c].payload
       /\ pc[c] \in {"import_events", "import_head"} =>
            /\ ExtendsHistory(request[c].entries)
            /\ Tells(events, request[c].entries, written[c])
       /\ pc[c] = "import_head" => Len(written[c]) = Len(request[c].entries)

\* The stored events are chained, and the lineage of HEAD is the path the walk finds.
LEMMA EventsChained ==
  ASSUME TypeOK, HistoryListable
  PROVE  /\ Chained(events) /\ head \in 0 .. Len(events)
         /\ History = Walk(events)[head]
         /\ IsPath(events, head, History)
         /\ NextSequence = Depth(events, head)
<1>1. Chained(events)
  BY DEF TypeOK, HistoryListable, Chained
<1>2. head \in 0 .. Len(events)
  <2>1. Len(events) \in Nat /\ DOMAIN events = 1 .. Len(events)
    BY DEF TypeOK
  <2>2. QED
    BY <2>1 DEF HistoryListable, NoEvent
<1>3. QED
  BY <1>1, <1>2, WalkPath DEF History, Lineage, NextSequence, Depth

\* History when HEAD stays, or names an event that goes on from where it was.
LEMMA HistoryStays ==
  ASSUME IInv, IInv', head' = head,
         \A k \in DOMAIN events : k \in DOMAIN events' /\ events'[k] = events[k]
  PROVE  History' = History
<1>1. Chained(events) /\ head \in 0 .. Len(events)
  BY EventsChained DEF IInv
<1>2. Chained(events')
  <2>1. TypeOK' /\ HistoryListable'
    BY DEF IInv
  <2>2. QED
    BY <2>1 DEF TypeOK, HistoryListable, Chained
<1>3. Walk(events')[head] = Walk(events)[head]
  BY <1>1, <1>2, WalkStays
<1>4. QED
  BY <1>3 DEF History, Lineage

\* Publishing an appended event adds exactly that event to the history.
LEMMA AppendedHistory ==
  ASSUME IInv, WritingInv, NEW c \in Clients, AppendHead(c)
  PROVE  History' = Append(History, written[c][1])
<1>1. Chained(events)
  BY EventsChained DEF IInv
<1>2. written[c][1] \in DOMAIN events /\ events[written[c][1]].previous = head
  BY DEF AppendHead, Goto, IInv, AppendingInv, WritingInv
<1>3. Walk(events)[written[c][1]] = Append(Walk(events)[head], written[c][1])
  BY <1>1, <1>2, WalkStep
<1>4. head' = written[c][1] /\ events' = events
  BY DEF AppendHead, WriteHead
<1>5. QED
  BY <1>3, <1>4 DEF History, Lineage

\* The history of a run whose import is complete is the record set's.
LEMMA ImportedHistory ==
  ASSUME IInv, WritingInv, NEW c \in Clients, ImportHead(c)
  PROVE  /\ History' = written[c]
         /\ Tells(events, request[c].entries, written[c])
         /\ Len(written[c]) = Len(request[c].entries)
<1>1. Chained(events)
  BY EventsChained DEF IInv
<1>2. /\ Tells(events, request[c].entries, written[c])
      /\ Len(written[c]) = Len(request[c].entries)
  BY DEF ImportHead, Goto, WritingInv
<1>3. written[c] \in Seq(DOMAIN events) /\ Len(written[c]) \in Nat
  BY <1>2 DEF Tells
<1>4. \A i \in DOMAIN written[c] :
        events[written[c][i]].previous = IF i = 1 THEN NoEvent ELSE written[c][i - 1]
  <2> SUFFICES ASSUME NEW i \in DOMAIN written[c]
               PROVE  events[written[c][i]].previous
                        = IF i = 1 THEN NoEvent ELSE written[c][i - 1]
    OBVIOUS
  <2>1. events[written[c][i]] = Described(request[c].entries, i, written[c])
    BY <1>2 DEF Tells
  <2>2. QED
    BY <2>1 DEF Described
<1>5. events' = events
  BY DEF ImportHead
<1>6. CASE written[c] = <<>>
  <2>1. head' = NoEvent
    BY <1>6 DEF ImportHead, EmptyHead
  <2>2. QED
    BY <1>1, <1>2, <1>5, <1>6, <2>1, WalkStep DEF History, Lineage
<1>7. CASE written[c] # <<>>
  <2>1. head' = written[c][Len(written[c])]
    BY <1>7 DEF ImportHead, WriteHead
  <2>2. Walk(events)[written[c][Len(written[c])]] = written[c]
    BY <1>1, <1>3, <1>4, <1>7, PathIsWalk
  <2>3. QED
    BY <1>2, <1>5, <2>1, <2>2 DEF History, Lineage
<1>8. QED
  BY <1>6, <1>7

\* An entry is described by the identities before it alone.
LEMMA DescribedStays ==
  ASSUME NEW s \in RecordSets, NEW i \in DOMAIN s, NEW ids, NEW more,
         \A j \in 1 .. i - 1 : more[j] = ids[j]
  PROVE  Described(s, i, more) = Described(s, i, ids)
<1>1. i \in Nat \ {0}
  <2>1. s \in Seq(Entry)
    BY RunAssumption
  <2>2. QED
    BY <2>1
<1>2. \A q \in s[i].parents : q + 1 \in 1 .. i - 1
  <2>1. s[i].parents \subseteq 0 .. i - 2
    BY RunAssumption
  <2>2. QED
    BY <1>1, <2>1
<1>3. {more[q + 1] : q \in s[i].parents} = {ids[q + 1] : q \in s[i].parents}
  BY <1>2
<1>4. i # 1 => more[i - 1] = ids[i - 1]
  BY <1>1
<1>5. QED
  BY <1>3, <1>4 DEF Described

\* Every step keeps the store's invariant.
LEMMA StepInv == IInv /\ [Next]_vars => IInv'
BY TypeStep, HistoryListableStep, ExclusionStep, RunFirstStep, CreatingStep,
   AppendingStep, ImportingStep DEF IInv

\* Nothing stored is ever lost or changed, and nothing is stored twice.
LEMMA EventsGrow ==
  ASSUME IInv, Distinct(events), [Next]_vars
  PROVE  /\ \A k \in DOMAIN events : k \in DOMAIN events' /\ events'[k] = events[k]
         /\ Distinct(events')
<1>1. CASE UNCHANGED events
  BY <1>1
<1>2. ASSUME NEW e, NEW n, WriteEvent(e, n)
      PROVE  /\ \A k \in DOMAIN events : k \in DOMAIN events' /\ events'[k] = events[k]
             /\ Distinct(events')
  <2>1. CASE UNCHANGED events
    BY <2>1
  <2>2. CASE events' = Append(events, e) /\ \A k \in DOMAIN events : events[k] # e
    <3>1. events \in Seq(Event) /\ DOMAIN events = 1 .. Len(events) /\ Len(events) \in Nat
      BY DEF IInv, TypeOK
    <3>2. /\ DOMAIN events' = 1 .. Len(events) + 1 /\ events'[Len(events) + 1] = e
          /\ \A k \in DOMAIN events : k \in DOMAIN events' /\ events'[k] = events[k]
      BY <2>2, <3>1
    <3>3. Distinct(events')
      BY <2>2, <3>1, <3>2 DEF Distinct
    <3>4. QED
      BY <3>2, <3>3
  <2>3. QED
    BY <1>2, <2>1, <2>2 DEF WriteEvent
<1>3. ASSUME NEW c \in Clients, Writes(c), ~UNCHANGED events
      PROVE  \E e, n : WriteEvent(e, n)
  BY <1>3 DEF Writes, CreateRunRecord, CreateRunHead, AppendEvent, AppendHead, ImportRun,
     ImportEvent, ImportHead
<1>4. QED
  BY <1>1, <1>2, <1>3, StoreWriters DEF store

\* A set that extends the history still does while HEAD stays.
LEMMA ExtensionStays ==
  ASSUME IInv, IInv', head' = head,
         \A k \in DOMAIN events : k \in DOMAIN events' /\ events'[k] = events[k],
         NEW s, ExtendsHistory(s)
  PROVE  /\ Len(History') <= Len(s)
         /\ \A i \in DOMAIN History' : events'[History'[i]] = Described(s, i, History')
<1>1. History' = History
  BY HistoryStays
<1>2. History \in Seq(DOMAIN events)
  BY EventsChained DEF IInv, IsPath
<1>3. ASSUME NEW i \in DOMAIN History
      PROVE  events'[History[i]] = Described(s, i, History)
  <2>1. History[i] \in DOMAIN events
    BY <1>2
  <2>2. QED
    BY <2>1 DEF ExtendsHistory
<1>4. QED
  BY <1>1, <1>3 DEF ExtendsHistory

\* What an import has stored is told by the records that are there then.
LEMMA TellsMore ==
  ASSUME IInv, WritingInv, [Next]_vars, NEW c \in Clients, ImportEvent(c)
  PROVE  Tells(events', request[c].entries, written'[c])
<1> DEFINE s == request[c].entries
           ids == written[c]
           i == Len(ids) + 1
<1>1. s \in RecordSets /\ s \in Seq(Entry)
  BY RunAssumption DEF ImportEvent, IInv, ImportingInv, ImportRequest
<1>2. Tells(events, s, ids) /\ i <= Len(s)
  BY DEF ImportEvent, WritingInv
<1>3. PICK n \in 1 .. Len(events) + 1 :
        /\ WriteEvent(Described(s, i, ids), n)
        /\ written' = [written EXCEPT ![c] = Append(ids, n)]
  BY DEF ImportEvent
<1>4. Described(s, i, ids) \in Event
  BY <1>2, ImportedContinues DEF ImportEvent, Continuation
<1> HIDE DEF s, ids, i
<1>5. /\ n \in Nat /\ events' \in Seq(Event) /\ n \in DOMAIN events'
      /\ events'[n] = Described(s, i, ids)
      /\ \A k \in DOMAIN events : k \in DOMAIN events' /\ events'[k] = events[k]
  BY <1>3, <1>4, WriteEventKeeps DEF IInv, TypeOK
<1>6. /\ ids \in Seq(DOMAIN events) /\ Len(ids) \in Nat /\ DOMAIN ids = 1 .. Len(ids)
      /\ \A k \in DOMAIN ids : ids[k] \in DOMAIN events
  BY <1>2 DEF Tells
<1>7. ids \in Seq(DOMAIN events')
  <2>1. DOMAIN events \subseteq DOMAIN events'
    BY <1>5
  <2>2. QED
    BY <1>6, <2>1, SeqMonotonic
<1>8. PICK more : more = Append(ids, n)
  OBVIOUS
<1>9. /\ more \in Seq(DOMAIN events') /\ Len(more) = i /\ DOMAIN more = 1 .. i /\ more[i] = n
      /\ \A k \in DOMAIN ids : more[k] = ids[k]
  BY <1>5, <1>6, <1>7, <1>8 DEF i
<1>10. ASSUME NEW k \in DOMAIN more
       PROVE  events'[more[k]] = Described(s, k, more)
  <2>1. k \in DOMAIN s /\ k \in 1 .. i
    BY <1>1, <1>2, <1>6, <1>9 DEF i
  <2>2. Described(s, k, more) = Described(s, k, ids)
    <3>1. \A j \in 1 .. k - 1 : more[j] = ids[j]
      BY <1>6, <1>9, <2>1 DEF i
    <3>2. QED
      BY <1>1, <2>1, <3>1, DescribedStays
  <2>3. CASE k = i
    BY <1>5, <1>9, <2>2, <2>3
  <2>4. CASE k # i
    <3>1. k \in DOMAIN ids
      BY <1>6, <2>1, <2>4 DEF i
    <3>2. events'[more[k]] = events[ids[k]]
      BY <1>5, <1>6, <1>9, <3>1
    <3>3. events[ids[k]] = Described(s, k, ids)
      BY <1>2, <3>1 DEF Tells
    <3>4. QED
      BY <2>2, <3>2, <3>3
  <2>5. QED
    BY <2>3, <2>4
<1>11. written'[c] = more
  BY <1>3, <1>8 DEF IInv, TypeOK
<1>12. QED
  BY <1>2, <1>9, <1>10, <1>11 DEF Tells, s

\* What is written stays what was asked for, and what was read when it was.
LEMMA WritingStep == IInv /\ WritingInv /\ [Next]_vars => WritingInv'
<1> SUFFICES ASSUME IInv, WritingInv, [Next]_vars PROVE WritingInv'
  OBVIOUS
<1>1. /\ \A k \in DOMAIN events : k \in DOMAIN events' /\ events'[k] = events[k]
      /\ Distinct(events')
  BY EventsGrow DEF WritingInv
<1>2. IInv'
  BY StepInv
<1>3. ASSUME NEW d \in Clients, pc'[d] = "append_event"
      PROVE  basis'[d].payload = request'[d].payload
  <2>1. CASE Kept(d)
    BY <1>3, <2>1 DEF Kept, WritingInv
  <2>2. CASE AppendAccepted(d)
    BY <2>2 DEF AppendAccepted, IInv, TypeOK
  <2>3. CASE AppendEvent(d) \/ \E p \in Payloads : BeginAppend(d, p)
    BY <1>3, <2>3 DEF AppendEvent, BeginAppend, Goto, IInv, TypeOK
  <2>4. QED
    BY <1>3, <2>1, <2>2, <2>3, EnterAppending
<1>4. ASSUME NEW d \in Clients, pc'[d] = "append_head"
      PROVE  /\ events'[written'[d][1]].previous = head'
             /\ events'[written'[d][1]].sequence = NextSequence'
             /\ events'[written'[d][1]].payload = request'[d].payload
  <2>1. CASE Kept(d)
    <3>1. UNCHANGED store
      BY <1>4, <2>1, Undisturbed DEF IInv, Kept, Locked
    <3>2. NextSequence' = NextSequence
      BY <3>1 DEF NextSequence, store
    <3>3. QED
      BY <1>4, <2>1, <3>1, <3>2 DEF Kept, WritingInv, store
  <2>2. CASE AppendEvent(d)
    <3>1. PICK n \in 1 .. Len(events) + 1 :
            WriteEvent(basis[d], n) /\ written' = [written EXCEPT ![d] = <<n>>]
      BY <2>2 DEF AppendEvent
    <3>2. /\ basis[d] \in Event /\ basis[d].sequence = NextSequence
          /\ basis[d].previous = head /\ basis[d].payload = request[d].payload
      BY <2>2 DEF AppendEvent, Goto, IInv, AppendingInv, WritingInv
    <3>3. n \in Nat /\ events'[n] = basis[d]
      BY <3>1, <3>2, WriteEventKeeps DEF IInv, TypeOK
    <3>4. written'[d][1] = n
      BY <3>1 DEF IInv, TypeOK
    <3>5. head' = head /\ request' = request
      BY <2>2 DEF AppendEvent
    <3>6. NextSequence' = NextSequence
      BY <1>1, <3>5 DEF NextSequence, IInv, HistoryListable
    <3>7. QED
      BY <3>2, <3>3, <3>4, <3>5, <3>6
  <2>3. CASE AppendAccepted(d) \/ \E p \in Payloads : BeginAppend(d, p)
    BY <1>4, <2>3 DEF AppendAccepted, BeginAppend, Goto, IInv, TypeOK
  <2>4. QED
    BY <1>4, <2>1, <2>2, <2>3, EnterAppending
<1>5. ASSUME NEW d \in Clients, pc'[d] \in {"import_events", "import_head"}
      PROVE  /\ Len(History') <= Len(request'[d].entries)
             /\ \A i \in DOMAIN History' :
                  events'[History'[i]] = Described(request'[d].entries, i, History')
             /\ Tells(events', request'[d].entries, written'[d])
             /\ pc'[d] = "import_head" => Len(written'[d]) = Len(request'[d].entries)
  <2>1. ASSUME head' = head, request'[d] = request[d], ExtendsHistory(request[d].entries)
        PROVE  /\ Len(History') <= Len(request'[d].entries)
               /\ \A i \in DOMAIN History' :
                    events'[History'[i]] = Described(request'[d].entries, i, History')
    BY <1>1, <1>2, <2>1, ExtensionStays
  <2>2. CASE Kept(d)
    <3>1. UNCHANGED store
      BY <1>5, <2>2, Undisturbed DEF IInv, Kept, Locked
    <3>2. QED
      BY <1>5, <2>1, <2>2, <3>1 DEF Kept, WritingInv, store
  <2>3. CASE ImportKnownRun(d) \/ ImportRun(d)
    <3>1. /\ UNCHANGED <<events, head, locals>> /\ pc'[d] = "import_events"
          /\ pc[d] \in {"import_check", "import_run"}
      BY <2>3 DEF ImportKnownRun, ImportRun, Goto, store, IInv, TypeOK
    <3>2. written[d] = <<>> /\ request[d].entries \in RecordSets
      BY <3>1 DEF IInv, ImportingInv, ImportRequest
    <3>3. request[d].entries \in Seq(Entry)
      BY <3>2, RunAssumption
    <3>4. Tells(events, request[d].entries, written[d])
      BY <3>2, <3>3 DEF Tells
    <3>5. ExtendsHistory(request[d].entries)
      <4>1. CASE ImportKnownRun(d)
        BY <4>1 DEF ImportKnownRun
      <4>2. CASE ImportRun(d)
        <5>1. ~headed /\ head = NoEvent
          BY <4>2 DEF ImportRun, Goto, IInv, ImportingInv, RunFirst
        <5>2. History = <<>>
          BY <5>1, EventsChained, WalkStep DEF IInv
        <5>3. QED
          BY <3>3, <5>2 DEF ExtendsHistory
      <4>3. QED
        BY <2>3, <4>1, <4>2
    <3>6. QED
      BY <2>1, <3>1, <3>4, <3>5 DEF locals
  <2>4. CASE ImportEvent(d)
    <3>1. UNCHANGED <<head, pc, request>> /\ pc[d] = "import_events"
      BY <2>4 DEF ImportEvent
    <3>2. QED
      BY <2>1, <2>4, <3>1, TellsMore DEF WritingInv
  <2>5. CASE ImportEventsDone(d)
    <3>1. /\ UNCHANGED <<store, request, written>> /\ pc[d] = "import_events"
          /\ Len(written[d]) = Len(request[d].entries)
      BY <2>5 DEF ImportEventsDone, locals
    <3>2. QED
      BY <2>1, <3>1 DEF WritingInv, store
  <2>6. CASE ImportNewRun(d) \/ \E t \in RecordSets : BeginImport(d, t)
    BY <1>5, <2>6 DEF ImportNewRun, BeginImport, Goto, IInv, TypeOK
  <2>7. QED
    BY <1>5, <2>2, <2>3, <2>4, <2>5, <2>6, EnterImporting
<1>6. QED
  BY <1>1, <1>3, <1>4, <1>5 DEF WritingInv, ExtendsHistory

\* HEAD moves by one event, or to the end of an imported set.
LEMMA HistoryMoves ==
  ASSUME IInv, WritingInv, [Next]_vars
  PROVE  \/ History' = History /\ head' = head
         \/ \E c \in Clients : AppendHead(c)
         \/ \E c \in Clients : ImportHead(c)
<1>1. CASE head' = head
  <2>1. IInv'
    BY StepInv
  <2>2. QED
    BY <1>1, <2>1, EventsGrow, HistoryStays DEF WritingInv
<1>2. ASSUME NEW c \in Clients, Writes(c), ~AppendHead(c), ~ImportHead(c)
      PROVE  head' = head
  <2>1. CASE CreateRunHead(c)
    BY <2>1 DEF CreateRunHead, EmptyHead, Goto, IInv, CreatingInv, RunFirst
  <2>2. QED
    BY <1>2, <2>1 DEF Writes, CreateRunRecord, AppendEvent, ImportRun, ImportEvent
<1>3. QED
  BY <1>1, <1>2, StoreWriters DEF store

\* So the history only grows at its end.
LEMMA HistoryGrows ==
  ASSUME IInv, WritingInv, [Next]_vars
  PROVE  /\ Len(History) <= Len(History')
         /\ \A i \in DOMAIN History : i \in DOMAIN History' /\ History'[i] = History[i]
<1>1. History \in Seq(DOMAIN events) /\ Len(History) \in Nat /\ DOMAIN History = 1 .. Len(History)
  BY EventsChained DEF IInv, IsPath
<1>2. CASE History' = History
  BY <1>1, <1>2
<1>3. ASSUME NEW c \in Clients, AppendHead(c)
      PROVE  /\ Len(History) <= Len(History')
             /\ \A i \in DOMAIN History : i \in DOMAIN History' /\ History'[i] = History[i]
  <2>1. History' = Append(History, written[c][1])
    BY <1>3, AppendedHistory
  <2>2. written[c][1] \in DOMAIN events
    BY <1>3 DEF AppendHead, Goto, IInv, AppendingInv
  <2> DEFINE old == History
             new == written[c][1]
  <2>3. old \in Seq(DOMAIN events) /\ new \in DOMAIN events
    BY <1>1, <2>2
  <2> HIDE DEF old, new
  <2>4. /\ Len(old) <= Len(Append(old, new)) /\ Len(Append(old, new)) = Len(old) + 1
        /\ \A i \in DOMAIN old : i \in DOMAIN Append(old, new) /\ Append(old, new)[i] = old[i]
    BY <2>3
  <2>5. QED
    BY <2>1, <2>4 DEF old, new
<1>4. ASSUME NEW c \in Clients, ImportHead(c)
      PROVE  /\ Len(History) <= Len(History')
             /\ \A i \in DOMAIN History : i \in DOMAIN History' /\ History'[i] = History[i]
  <2> DEFINE s == request[c].entries
  <2>1. History' = written[c] /\ Tells(events, s, written[c]) /\ Len(written[c]) = Len(s)
    BY <1>4, ImportedHistory
  <2>2. s \in RecordSets /\ ExtendsHistory(s)
    BY <1>4 DEF ImportHead, Goto, IInv, ImportingInv, ImportRequest, WritingInv
  <2>3. Tells(events, s, History)
    BY <1>1, <2>2 DEF Tells, ExtendsHistory
  <2>4. /\ Len(History) <= Len(written[c]) /\ DOMAIN written[c] = 1 .. Len(written[c])
        /\ Len(written[c]) \in Nat
    BY <2>1, <2>2 DEF ExtendsHistory, Tells
  <2>5. \A i \in DOMAIN History : History[i] = written[c][i]
    BY <2>1, <2>2, <2>3, <2>4, SameIdentities DEF IInv, TypeOK, WritingInv
  <2>6. QED
    BY <1>1, <2>1, <2>4, <2>5
<1>5. QED
  BY <1>2, <1>3, <1>4, HistoryMoves

\* A parent that HEAD did not lead to is never led to later: its place is taken.
LEMMA UnverifiableStep ==
  ASSUME IInv, WritingInv, [Next]_vars, Unverifiable
  PROVE  Unverifiable'
<1>1. IInv' /\ \A k \in DOMAIN events : k \in DOMAIN events' /\ events'[k] = events[k]
  BY StepInv, EventsGrow DEF WritingInv
<1>2. PICK i \in DOMAIN History :
        ~(events[History[i]].parents \subseteq {History[k] : k \in DOMAIN History})
  BY DEF Unverifiable
<1>3. PICK p \in events[History[i]].parents : \A k \in DOMAIN History : History[k] # p
  BY <1>2
<1>4. /\ Chained(events) /\ History \in Seq(DOMAIN events)
      /\ \A k \in DOMAIN History : events[History[k]].sequence = k - 1
      /\ Len(History) \in Nat /\ DOMAIN History = 1 .. Len(History)
  BY EventsChained DEF IInv, IsPath
<1>5. /\ History' \in Seq(DOMAIN events')
      /\ \A k \in DOMAIN History' : events'[History'[k]].sequence = k - 1
      /\ Len(History') \in Nat /\ DOMAIN History' = 1 .. Len(History')
  <2>1. TypeOK' /\ HistoryListable'
    BY <1>1 DEF IInv
  <2>2. Chained(events') /\ head' \in 0 .. Len(events')
    <3>1. Len(events') \in Nat /\ DOMAIN events' = 1 .. Len(events')
      BY <2>1 DEF TypeOK
    <3>2. QED
      BY <2>1, <3>1 DEF TypeOK, HistoryListable, Chained, NoEvent
  <2>3. IsPath(events', head', Walk(events')[head'])
    BY <2>2, WalkPath
  <2>4. History' = Walk(events')[head']
    BY DEF History, Lineage
  <2>5. QED
    BY <2>3, <2>4 DEF IsPath
<1>6. /\ i \in DOMAIN History' /\ History'[i] = History[i]
      /\ \A k \in DOMAIN History : History'[k] = History[k]
  BY HistoryGrows
<1>7. /\ History[i] \in DOMAIN events /\ p \in DOMAIN events
      /\ events[p].sequence < i - 1 /\ events[p].sequence \in Nat
  <2>1. History[i] \in DOMAIN events /\ events[History[i]].sequence = i - 1
    BY <1>4
  <2>2. p \in DOMAIN events /\ events[p].sequence < events[History[i]].sequence
    BY <2>1, <1>3 DEF IInv, HistoryListable
  <2>3. events[p].sequence \in Nat
    BY <1>4, <2>2, RecordFields
  <2>4. QED
    BY <2>1, <2>2, <2>3
<1>8. ASSUME NEW k \in DOMAIN History', History'[k] = p PROVE FALSE
  <2>1. events'[p] = events[p] /\ events'[p].sequence = k - 1
    BY <1>1, <1>5, <1>7, <1>8
  <2>2. k \in DOMAIN History
    BY <1>4, <1>5, <1>7, <2>1
  <2>3. QED
    BY <1>3, <1>6, <1>8, <2>2
<1>9. events'[History'[i]] = events[History[i]]
  BY <1>1, <1>6, <1>7
<1>10. QED
  BY <1>3, <1>6, <1>8, <1>9 DEF Unverifiable

\* In the empty directory nobody writes.
LEMMA WritingInitially == Init => WritingInv
BY DEF Init, WritingInv, Distinct

-----------------------------------------------------------------------------
(* The log                                                                 *)

\* What is shown of identities that tell a record set is the set itself.
LEMMA ToldIsShown ==
  ASSUME NEW s \in RecordSets, NEW ids, Tells(events, s, ids)
  PROVE  [i \in DOMAIN ids |-> [payload |-> events[ids[i]].payload,
                                parents |-> Places(events[ids[i]].parents)]]
           = SubSeq(s, 1, Len(ids))
<1>1. /\ s \in Seq(Entry) /\ Len(s) \in Nat /\ DOMAIN s = 1 .. Len(s)
      /\ ids \in Seq(DOMAIN events) /\ Len(ids) \in Nat /\ DOMAIN ids = 1 .. Len(ids)
      /\ Len(ids) <= Len(s)
  BY RunAssumption DEF Tells
<1>2. ASSUME NEW i \in DOMAIN ids
      PROVE  [payload |-> events[ids[i]].payload, parents |-> Places(events[ids[i]].parents)]
               = s[i]
  <2>1. i \in DOMAIN s /\ s[i] \in Entry /\ i \in 1 .. Len(ids)
    BY <1>1
  <2>2. /\ events[ids[i]].payload = s[i].payload
        /\ events[ids[i]].parents = {ids[q + 1] : q \in s[i].parents}
    <3>1. events[ids[i]] = Described(s, i, ids)
      BY DEF Tells
    <3>2. QED
      BY <3>1 DEF Described
  <2>3. \A q \in s[i].parents : q \in Nat /\ q + 1 \in DOMAIN ids
    <3>1. s[i].parents \subseteq 0 .. i - 2
      BY <2>1, RunAssumption
    <3>2. QED
      BY <1>1, <2>1, <3>1
  <2>4. \A q \in s[i].parents : events[ids[q + 1]].sequence = q
    <3>1. ASSUME NEW k \in DOMAIN ids PROVE events[ids[k]].sequence = k - 1
      <4>1. events[ids[k]] = Described(s, k, ids)
        BY DEF Tells
      <4>2. QED
        BY <4>1 DEF Described
    <3>2. QED
      BY <2>3, <3>1
  <2>5. Places(events[ids[i]].parents) = s[i].parents
    BY <2>2, <2>4 DEF Places
  <2>6. QED
    BY <2>1, <2>2, <2>5 DEF Entry
<1>3. SubSeq(s, 1, Len(ids)) = [i \in 1 .. Len(ids) |-> s[i]]
  BY <1>1
<1>4. QED
  BY <1>1, <1>2, <1>3

\* What is shown is a sequence of entries, as long as HEAD's event is deep.
LEMMA ShownType ==
  ASSUME TypeOK, HistoryListable
  PROVE  /\ Shown \in Seq(Entry) /\ Len(Shown) = NextSequence /\ Len(Shown) \in Nat
         /\ Len(History) = Len(Shown) /\ DOMAIN History = 1 .. Len(Shown)
         /\ DOMAIN Shown = 1 .. Len(Shown)
<1>1. /\ History \in Seq(DOMAIN events) /\ Len(History) = NextSequence
      /\ Len(History) \in Nat /\ DOMAIN History = 1 .. Len(History)
  BY EventsChained DEF IsPath
<1>2. ASSUME NEW i \in DOMAIN History
      PROVE  [payload |-> events[History[i]].payload,
              parents |-> Places(events[History[i]].parents)] \in Entry
  <2>1. History[i] \in DOMAIN events
    BY <1>1
  <2>2. events[History[i]] \in Event
    BY <2>1, EventFields
  <2>3. \A p \in events[History[i]].parents : events[p].sequence \in Nat
    BY <2>1, EventFields DEF HistoryListable
  <2>4. QED
    BY <2>2, <2>3 DEF Event, Entry, Places
<1>3. Shown \in [1 .. Len(History) -> Entry]
  BY <1>1, <1>2 DEF Shown
<1>4. Shown \in Seq(Entry) /\ Len(Shown) = Len(History)
  BY <1>1, <1>3
<1>5. QED
  BY <1>1, <1>3, <1>4

\* A reader is shown the same until HEAD moves.
LEMMA ShownStays ==
  ASSUME IInv, History' = History,
         \A k \in DOMAIN events : k \in DOMAIN events' /\ events'[k] = events[k]
  PROVE  Shown' = Shown
<1>1. ASSUME NEW i \in DOMAIN History
      PROVE  /\ events'[History[i]] = events[History[i]]
             /\ {events'[n].sequence : n \in events[History[i]].parents}
                  = {events[n].sequence : n \in events[History[i]].parents}
  <2>1. History[i] \in DOMAIN events
    BY EventsChained DEF IInv, IsPath
  <2>2. \A p \in events[History[i]].parents : p \in DOMAIN events
    BY <2>1 DEF IInv, HistoryListable
  <2>3. QED
    BY <2>1, <2>2
<1>2. QED
  BY <1>1 DEF Shown, Places

\* Only its own client's steps touch a request, and those begin, keep or end it.
LEMMA PendingMoves ==
  ASSUME IInv, [Next]_vars
  PROVE  \/ Pending' = Pending
         \/ \E c \in Clients :
              /\ pc[c] \notin Requested /\ pc'[c] \in Requested
              /\ Pending' = [Pending EXCEPT ![c] = {request'[c]}]
              /\ (\E p \in Payloads : BeginAppend(c, p)) \/ \E s \in RecordSets : BeginImport(c, s)
         \/ \E c \in Clients :
              /\ pc[c] \in Requested /\ pc'[c] \notin Requested
              /\ Pending' = [Pending EXCEPT ![c] = {}]
              /\ AppendRefused(c) \/ AppendHead(c) \/ ImportRefused(c) \/ ImportHead(c)
                 \/ Fail(c) \/ Kill(c)
<1>1. ASSUME NEW c \in Clients, ClientStep(c)
      PROVE  \/ Pending' = Pending
             \/ /\ pc[c] \notin Requested /\ pc'[c] \in Requested
                /\ Pending' = [Pending EXCEPT ![c] = {request'[c]}]
                /\ (\E p \in Payloads : BeginAppend(c, p)) \/ \E s \in RecordSets : BeginImport(c, s)
             \/ /\ pc[c] \in Requested /\ pc'[c] \notin Requested
                /\ Pending' = [Pending EXCEPT ![c] = {}]
                /\ AppendRefused(c) \/ AppendHead(c) \/ ImportRefused(c) \/ ImportHead(c)
                   \/ Fail(c) \/ Kill(c)
  <2>1. \A d \in Clients \ {c} : pc'[d] = pc[d] /\ request'[d] = request[d]
    BY <1>1, OthersKept DEF IInv, Kept
  <2>2. CASE (pc[c] \in Requested <=> pc'[c] \in Requested)
             /\ (pc[c] \in Requested => request'[c] = request[c])
    <3>1. Pending' = Pending
      BY <2>1, <2>2 DEF Pending
    <3>2. QED
      BY <3>1
  <2>3. CASE pc[c] \notin Requested /\ pc'[c] \in Requested
    <3>1. Pending' = [Pending EXCEPT ![c] = {request'[c]}]
      BY <2>1, <2>3 DEF Pending
    <3>2. (\E p \in Payloads : BeginAppend(c, p)) \/ \E s \in RecordSets : BeginImport(c, s)
      BY <1>1, <2>3 DEF ClientStep, IInv, TypeOK, Requested, Create, Appending, Import, Verify,
         BeginCreate, CreateRunMissing, CreateRunKept, CreateRunRepaired, CreateRunRecord,
         CreateRunHead, AppendRefused, AppendAccepted, AppendEvent, AppendHead, ImportRefused,
         ImportKnownRun, ImportNewRun, ImportRun, ImportEvent, ImportEventsDone, ImportHead,
         ImportUnlock, ImportUnverified, BeginVerify, EndVerify, Unlock, Fail, Kill, Goto
    <3>3. QED
      BY <2>3, <3>1, <3>2
  <2>4. CASE pc[c] \in Requested /\ pc'[c] \notin Requested
    <3>1. Pending' = [Pending EXCEPT ![c] = {}]
      BY <2>1, <2>4 DEF Pending
    <3>2. AppendRefused(c) \/ AppendHead(c) \/ ImportRefused(c) \/ ImportHead(c)
          \/ Fail(c) \/ Kill(c)
      BY <1>1, <2>4 DEF ClientStep, IInv, TypeOK, Requested, Create, Appending, Import, Verify,
         BeginCreate, CreateRunMissing, CreateRunKept, CreateRunRepaired, CreateRunRecord,
         CreateRunHead, BeginAppend, AppendAccepted, AppendEvent, BeginImport,
         ImportKnownRun, ImportNewRun, ImportRun, ImportEvent, ImportEventsDone,
         ImportUnlock, ImportUnverified, BeginVerify, EndVerify, Unlock, Goto
    <3>3. QED
      BY <2>4, <3>1, <3>2
  <2>5. CASE pc[c] \in Requested /\ pc'[c] \in Requested
    <3>1. request'[c] = request[c]
      BY <1>1, <2>5 DEF ClientStep, IInv, TypeOK, Requested, Create, Appending, Import, Verify,
         BeginCreate, CreateRunMissing, CreateRunKept, CreateRunRepaired, CreateRunRecord,
         CreateRunHead, BeginAppend, AppendRefused, AppendAccepted, AppendEvent, AppendHead,
         BeginImport, ImportRefused, ImportKnownRun, ImportNewRun, ImportRun, ImportEvent,
         ImportEventsDone, ImportHead, ImportUnlock, ImportUnverified, BeginVerify, EndVerify,
         Unlock, Fail, Kill, Goto, locals
    <3>2. QED
      BY <2>2, <2>5, <3>1
  <2>6. QED
    BY <2>2, <2>3, <2>4, <2>5
<1>2. CASE UNCHANGED <<pc, request>>
  BY <1>2 DEF Pending
<1>3. QED
  BY <1>1, <1>2 DEF Next, ClientStep, vars, locals, AcquireFails, OperatorUnlock

\* A client whose step ends its request asks for nothing more; the others ask as before.
LEMMA RequestEnds ==
  ASSUME IInv, NEW c \in Clients, ClientStep(c), pc'[c] \notin Requested
  PROVE  Pending' = [Pending EXCEPT ![c] = {}]
<1>1. \A d \in Clients \ {c} : pc'[d] = pc[d] /\ request'[d] = request[d]
  BY OthersKept DEF IInv, Kept
<1>2. QED
  BY <1>1 DEF Pending

\* The appended event is the next entry of the log.
LEMMA AppendIsLogged ==
  ASSUME IInv, WritingInv, [Next]_vars, NEW c \in Clients, AppendHead(c)
  PROVE  Log!Append1(c)
<1> DEFINE n == written[c][1]
           entry == [payload |-> request[c].payload, parents |-> Places(events[n].parents)]
<1>1. /\ headed /\ n \in DOMAIN events /\ request[c] \in AppendRequest
      /\ events[n].sequence = NextSequence /\ events[n].payload = request[c].payload
  BY DEF AppendHead, Goto, IInv, AppendingInv, WritingInv
<1>2. request[c].kind = "append" /\ request[c] \in Pending[c]
  BY <1>1 DEF AppendRequest, AppendHead, Goto, Pending, Requested
<1>3. /\ Shown \in Seq(Entry) /\ Len(Shown) = NextSequence /\ Len(Shown) \in Nat
      /\ Len(History) = Len(Shown) /\ DOMAIN History = 1 .. Len(Shown)
      /\ DOMAIN Shown = 1 .. Len(Shown)
  BY ShownType DEF IInv
<1>4. Places(events[n].parents) \in SUBSET (0 .. Len(Shown) - 1)
  <2> SUFFICES ASSUME NEW p \in events[n].parents
               PROVE  events[p].sequence \in 0 .. Len(Shown) - 1
    BY DEF Places
  <2>1. p \in DOMAIN events /\ events[p].sequence < events[n].sequence
    BY <1>1 DEF IInv, HistoryListable
  <2>2. events[p].sequence \in Nat
    BY <2>1, EventFields DEF IInv
  <2>3. QED
    BY <1>1, <1>3, <2>1, <2>2
<1>5. Shown' = Append(Shown, entry)
  <2>1. History' = Append(History, n) /\ events' = events
    BY AppendedHistory DEF AppendHead
  <2>2. History \in Seq(DOMAIN events)
    BY EventsChained DEF IInv, IsPath
  <2> HIDE DEF n
  <2>3. /\ DOMAIN History' = 1 .. Len(Shown) + 1 /\ History'[Len(Shown) + 1] = n
        /\ \A i \in 1 .. Len(Shown) : History'[i] = History[i]
    BY <1>1, <1>3, <2>1, <2>2
  <2>4. Shown' = [i \in 1 .. Len(Shown) + 1 |->
                    [payload |-> events[History'[i]].payload,
                     parents |-> Places(events[History'[i]].parents)]]
    BY <2>1, <2>3 DEF Shown, Places
  <2>5. \A i \in 1 .. Len(Shown) + 1 :
          [payload |-> events[History'[i]].payload,
           parents |-> Places(events[History'[i]].parents)]
             = IF i = Len(Shown) + 1 THEN entry ELSE Shown[i]
    BY <1>1, <1>3, <2>3 DEF Shown
  <2>6. entry \in Entry
    BY <1>1, <1>3, <1>4 DEF AppendRequest, Entry
  <2> HIDE DEF entry
  <2>7. Append(Shown, entry)
          = [i \in 1 .. Len(Shown) + 1 |-> IF i = Len(Shown) + 1 THEN entry ELSE Shown[i]]
    <3>1. PICK more : more = Append(Shown, entry)
      OBVIOUS
    <3>2. /\ more \in Seq(Entry) /\ Len(more) = Len(Shown) + 1
          /\ \A i \in 1 .. Len(Shown) : more[i] = Shown[i]
          /\ more[Len(Shown) + 1] = entry
      BY <1>3, <2>6, <3>1
    <3>3. more = [i \in 1 .. Len(Shown) + 1 |-> more[i]]
      BY <1>3, <3>2
    <3>4. QED
      BY <1>3, <3>1, <3>2, <3>3
  <2>8. QED
    BY <2>4, <2>5, <2>7
<1>6. headed' = headed /\ Pending' = [Pending EXCEPT ![c] = {}]
  <2>1. pc'[c] \notin Requested
    BY DEF AppendHead, Goto, IInv, TypeOK, Requested
  <2>2. headed' = headed
    BY <1>1 DEF AppendHead, WriteHead
  <2>3. QED
    BY <2>1, <2>2, RequestEnds DEF ClientStep, Appending
<1>7. QED
  BY <1>1, <1>2, <1>4, <1>5, <1>6 DEF Log!Append1

\* An import's HEAD brings the whole set, which extends the log.
LEMMA ImportIsLogged ==
  ASSUME IInv, WritingInv, [Next]_vars, NEW c \in Clients, ImportHead(c)
  PROVE  Log!Import(c)
<1> DEFINE s == request[c].entries
<1>1. /\ request[c] \in ImportRequest /\ s \in RecordSets /\ ExtendsHistory(s)
  BY DEF ImportHead, Goto, IInv, ImportingInv, ImportRequest, WritingInv
<1>2. request[c].kind = "import" /\ request[c] \in Pending[c]
  BY <1>1 DEF ImportRequest, ImportHead, Goto, Pending, Requested
<1>3. /\ Len(Shown) \in Nat /\ Len(History) = Len(Shown) /\ History \in Seq(DOMAIN events)
  BY ShownType, EventsChained DEF IInv, IsPath
<1>4. Tells(events, s, History)
  BY <1>1, <1>3 DEF Tells, ExtendsHistory
<1>5. Shown = SubSeq(s, 1, Len(Shown)) /\ Len(Shown) <= Len(s)
  BY <1>1, <1>3, <1>4, ToldIsShown DEF Shown, ExtendsHistory
<1>6. Shown' = s
  <2>1. History' = written[c] /\ Tells(events, s, written[c]) /\ Len(written[c]) = Len(s)
    BY ImportedHistory
  <2>2. events' = events
    BY DEF ImportHead
  <2>3. Shown' = [i \in DOMAIN written[c] |->
                    [payload |-> events[written[c][i]].payload,
                     parents |-> Places(events[written[c][i]].parents)]]
    BY <2>1, <2>2 DEF Shown, Places
  <2>4. s \in Seq(Entry)
    BY <1>1, RunAssumption
  <2>5. SubSeq(s, 1, Len(s)) = s
    BY <2>4, SubSeqFull
  <2>6. QED
    BY <1>1, <2>1, <2>3, <2>5, ToldIsShown
<1>7. headed' /\ Pending' = [Pending EXCEPT ![c] = {}]
  <2>1. pc'[c] \notin Requested
    BY DEF ImportHead, Goto, IInv, TypeOK, Requested
  <2>2. headed'
    BY DEF ImportHead, WriteHead, EmptyHead
  <2>3. QED
    BY <2>1, <2>2, RequestEnds DEF ClientStep, Import
<1>8. headed' = TRUE
  BY <1>7, StepInv DEF IInv, TypeOK
<1>9. QED
  BY <1>2, <1>5, <1>6, <1>7, <1>8 DEF Log!Import

\* The empty directory shows the empty log.
LEMMA LogInit == Init => Log!Init
<1> SUFFICES ASSUME Init PROVE Log!Init
  OBVIOUS
<1>1. IInv /\ head = NoEvent /\ ~headed /\ headed = FALSE
  BY InitInv DEF Init
<1>2. History = <<>>
  BY <1>1, EventsChained, WalkStep DEF IInv
<1>3. Shown = <<>>
  BY <1>2 DEF Shown
<1>4. Pending = [c \in Clients |-> {}]
  BY DEF Init, Pending, Requested
<1>5. QED
  BY <1>1, <1>3, <1>4 DEF Log!Init

\* A step of the store is an append or an import of the log, a change of what is asked, or a stutter.
LEMMA LogStep ==
  ASSUME IInv, WritingInv, [Next]_vars
  PROVE  [Log!Next]_(Log!vars)
<1>1. CASE \E c \in Clients : AppendHead(c)
  BY <1>1, AppendIsLogged DEF Log!Next
<1>2. CASE \E c \in Clients : ImportHead(c)
  BY <1>2, ImportIsLogged DEF Log!Next
<1>3. CASE \A c \in Clients : ~AppendHead(c) /\ ~ImportHead(c)
  <2>1. Shown' = Shown
    BY <1>3, HistoryMoves, EventsGrow, ShownStays DEF WritingInv
  <2>2. ASSUME NEW c \in Clients, CreateRunHead(c)
        PROVE  Log!Create
    <3>1. headed = FALSE /\ headed' = TRUE
      BY <2>2 DEF CreateRunHead, EmptyHead, Goto, IInv, CreatingInv, TypeOK
    <3>2. Pending' = Pending
      BY <2>2 DEF CreateRunHead, Goto, locals, Pending, Requested, IInv, TypeOK
    <3>3. QED
      BY <2>1, <3>1, <3>2 DEF Log!Create
  <2>3. CASE \A c \in Clients : ~CreateRunHead(c)
    <3>1. headed' = headed
      BY <1>3, <2>3, StoreWriters
      DEF store, Writes, CreateRunRecord, AppendEvent, ImportRun, ImportEvent
    <3>2. CASE Pending' = Pending
      BY <2>1, <3>1, <3>2 DEF Log!vars
    <3>3. ASSUME NEW c \in Clients, pc[c] \notin Requested, pc'[c] \in Requested,
                 Pending' = [Pending EXCEPT ![c] = {request'[c]}],
                 (\E p \in Payloads : BeginAppend(c, p)) \/ \E t \in RecordSets : BeginImport(c, t)
          PROVE  Log!Submit(c)
      <4>1. Pending[c] = {} /\ Pending'[c] = {request'[c]}
        BY <3>3 DEF Pending
      <4>2. \/ request'[c].kind = "append" /\ request'[c].payload \in Payloads
            \/ request'[c].kind = "import" /\ request'[c].entries \in RecordSets
        BY <3>3 DEF BeginAppend, BeginImport, IInv, TypeOK
      <4>3. QED
        BY <2>1, <3>1, <3>3, <4>1, <4>2 DEF Log!Submit
    <3>4. ASSUME NEW c \in Clients, pc[c] \in Requested,
                 Pending' = [Pending EXCEPT ![c] = {}]
          PROVE  Log!Drop(c)
      BY <2>1, <3>1, <3>4 DEF Log!Drop, Pending
    <3>5. QED
      BY <3>2, <3>3, <3>4, PendingMoves DEF Log!Next
  <2>4. QED
    BY <2>2, <2>3 DEF Log!Next
<1>4. QED
  BY <1>1, <1>2, <1>3

-----------------------------------------------------------------------------
(* Theorems                                                                *)

\* The strengthened invariant holds in every state of every behaviour.
THEOREM RunInvariance == Spec => []IInv
<1>1. IInv /\ [Next]_vars => IInv'
  BY TypeStep, HistoryListableStep, ExclusionStep, RunFirstStep, CreatingStep,
     AppendingStep, ImportingStep DEF IInv
<1>2. QED
  BY InitInv, <1>1, PTL DEF Spec

\* Every variable keeps its type, however the clients' calls interleave.
THEOREM RunTypeCorrect == Spec => []TypeOK
<1>1. IInv => TypeOK
  BY DEF IInv
<1>2. QED
  BY RunInvariance, <1>1, PTL

\* list_events can follow whatever HEAD names down to sequence 0, and lineage
\* parents never form a cycle, also after failed and killed calls.
THEOREM RunAlwaysListable == Spec => []HistoryListable
<1>1. IInv => HistoryListable
  BY DEF IInv
<1>2. QED
  BY RunInvariance, <1>1, PTL

\* No call of the store repairs a run whose first import stopped half way.
THEOREM WedgedForever == Spec => WedgedStaysHeadless
<1>1. IInv /\ [Next]_vars => (Wedged => Wedged')
  <2> SUFFICES ASSUME IInv, [Next]_vars, Wedged PROVE Wedged'
    OBVIOUS
  <2>1. ASSUME NEW c \in Clients
        PROVE  /\ ~CreateRunRecord(c) /\ ~CreateRunHead(c) /\ ~AppendEvent(c)
               /\ ~AppendHead(c) /\ ~ImportRun(c) /\ ~ImportEvent(c) /\ ~ImportHead(c)
    BY DEF IInv, Wedged, CreatingInv, AppendingInv, ImportingInv, CreateRunRecord,
       CreateRunHead, AppendEvent, AppendHead, ImportRun, ImportEvent, ImportHead, Goto
  <2>2. UNCHANGED store
    BY <2>1, StoreWriters DEF Writes
  <2>3. ASSUME NEW d \in Clients, pc'[d] \in {"import_events", "import_head"}
        PROVE  FALSE
    <3>1. pc[d] \notin {"import_events", "import_head"} /\ ~headed /\ run
      BY DEF Wedged
    <3>2. ~Kept(d)
      BY <2>3, <3>1 DEF Kept
    <3>3. ImportKnownRun(d) \/ ImportRun(d) \/ ImportEvent(d) \/ ImportEventsDone(d)
      BY <2>3, <3>2, EnterImporting DEF IInv, TypeOK, BeginImport, ImportNewRun, Goto
    <3>4. QED
      BY <3>1, <3>3, <2>1 DEF ImportKnownRun, ImportEventsDone
  <2>4. QED
    BY <2>2, <2>3 DEF Wedged, store
<1>2. QED
  BY RunInvariance, <1>1, PTL DEF Spec, WedgedStaysHeadless

\* What is written is what was asked for and read, in every state: the part of the
\* invariant that makes the history append-only.
THEOREM WritingInvariance == Spec => [](IInv /\ WritingInv)
<1>1. IInv /\ WritingInv /\ [Next]_vars => (IInv /\ WritingInv)'
  BY StepInv, WritingStep
<1>2. QED
  BY InitInv, WritingInitially, <1>1, PTL DEF Spec

\* A run with an event whose lineage parent HEAD does not lead to never verifies
\* again, whatever is appended or imported (_verify_snapshot).
THEOREM UnverifiableStays == Spec => UnverifiableForever
<1>1. IInv /\ WritingInv /\ [Next]_vars => (Unverifiable => Unverifiable')
  BY UnverifiableStep
<1>2. QED
  BY WritingInvariance, <1>1, PTL DEF Spec, UnverifiableForever

\* The store implements RunLog: what a reader of HEAD is shown is one log that only
\* append_event and import_record_set extend, each at once or not at all.
THEOREM StoreImplementsLog == Spec => LogSpec
<1>1. IInv /\ WritingInv /\ [Next]_vars => [Log!Next]_(Log!vars)
  BY LogStep
<1>2. QED
  BY LogInit, <1>1, WritingInvariance, PTL DEF Spec, LogSpec, Log!Spec
=============================================================================
