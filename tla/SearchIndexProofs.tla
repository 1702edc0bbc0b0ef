------------------------- MODULE SearchIndexProofs -------------------------
(***************************************************************************)
(* Proofs about SearchIndex for every number of clients, embeddings and    *)
(* snapshots.                                                              *)
(***************************************************************************)
EXTENDS SearchIndex, TLAPS

\* A step of the client c.
Step(c) == Search(c) \/ Write(c) \/ Fail(c) \/ Kill(c)

\* Where a client has an index in its hands, and where that index is stored.
Holding == {"index_lock", "index_record", "index_head", "index_unlock", "answer"}
Stored == {"index_head", "index_unlock", "answer"}

\* TypeOK says what the two functions hold; this says that they are functions.
IndexFunctions ==
  /\ index \in [Clients -> Index \cup {NoIndex}]
  /\ indexHead \in [Kinds -> Index \cup {NoIndex}]

\* What a call has read lies between HEAD as it began and HEAD as it is.
Reading(c) ==
  /\ pc[c] \in {"idle", "locked_read", "search_read", "semantic_read"} => seen[c] = NoSnapshot
  /\ pc[c] \in {"search_head", "semantic_head"} => seen[c] # NoSnapshot
  /\ pc[c] # "idle" => began[c] <= head
  /\ seen[c] # NoSnapshot => began[c] <= seen[c] /\ seen[c] <= head

\* So does the snapshot of the index in its hands, which is stored before an
\* index head or an answer names it.
HoldingInv(c) ==
  /\ pc[c] \in Holding =>
       index[c] \in Index /\ began[c] <= index[c].snapshot /\ index[c].snapshot <= head
  /\ pc[c] \in Stored => index[c] \in indexes

\* A locked search has the Collection's lock file, so that HEAD stays what the
\* search has read.
LockedInv(c) ==
  /\ pc[c] \in {"idle", "locked_read"} => outer[c] = NoSnapshot
  /\ pc[c] = "locked_read" \/ outer[c] # NoSnapshot => lock["collection"] = c
  /\ outer[c] # NoSnapshot =>
       /\ outer[c] = head
       /\ seen[c] # NoSnapshot => seen[c] = head
       /\ pc[c] \in Holding => index[c].snapshot = head

ClientInv(c) == Reading(c) /\ HoldingInv(c) /\ LockedInv(c)

IInv ==
  /\ TypeOK
  /\ IndexFunctions
  /\ IndexHeadsResolve
  /\ \A c \in Clients : ClientInv(c)

-----------------------------------------------------------------------------
(* Lemmas                                                                  *)

\* An index's kind is one of the two, and the Collection's lock is of neither.
LEMMA IndexKinds ==
  /\ \A i \in Index : i.kind \in Kinds /\ i.snapshot \in 1 .. MaxHead
  /\ NoIndex \notin Index
  /\ "collection" \notin Kinds /\ Kinds \subseteq LockNames /\ "collection" \in LockNames
<1>1. \A i \in Index : i.kind \in Kinds /\ i.snapshot \in 1 .. MaxHead
  BY DEF Index
<1>2. NoIndex.kind \notin Kinds
  BY DEF NoIndex, Kinds
<1>3. QED
  BY <1>1, <1>2 DEF Kinds, LockNames

\* A client's step moves no HEAD, deletes no index, and leaves alone what
\* another client has read or locked.
LEMMA OthersKept ==
  ASSUME IInv, NEW c \in Clients, Step(c), NEW d \in Clients, d # c
  PROVE  /\ head' = head /\ indexes \subseteq indexes'
         /\ pc'[d] = pc[d] /\ outer'[d] = outer[d] /\ seen'[d] = seen[d]
         /\ index'[d] = index[d] /\ began'[d] = began[d]
         /\ lock["collection"] = d => lock'["collection"] = d
<1> USE IndexAssumption, IndexKinds DEF IInv, TypeOK, IndexFunctions, locals, Forget
<1>1. CASE BeginLockedSearch(c) \/ LockedRead(c) \/ BeginSearch(c) \/ SearchRead(c)
  BY <1>1 DEF BeginLockedSearch, LockedRead, BeginSearch, Begin, SearchRead, Goto, Acquire
<1>2. CASE SearchIndexed(c) \/ SearchStale(c) \/ BeginSemantic(c) \/ SemanticIndexed(c)
  BY <1>2 DEF SearchIndexed, SearchStale, BeginSemantic, SemanticIndexed, AnswerFrom,
              Begin, Goto
<1>3. CASE SemanticStale(c) \/ Answer(c) \/ IndexUnlock(c) \/ Fail(c)
  BY <1>3 DEF SemanticStale, Answer, IndexUnlock, Fail, End
<1>4. CASE BeginBuild(c) \/ Build(c) \/ BeginRegister(c) \/ Register(c)
  BY <1>4 DEF BeginBuild, Build, BeginRegister, Register, Begin, Goto
<1>5. CASE IndexLock(c)
  BY <1>5 DEF IndexLock, Goto, Acquire
<1>6. CASE IndexRecord(c) \/ IndexHead(c)
  BY <1>6 DEF IndexRecord, IndexHead, Goto
<1>7. CASE IndexUnlockInSearch(c)
  <2>1. index[c] \in Index
    BY <1>7 DEF IndexUnlockInSearch, Goto, ClientInv, HoldingInv, Holding
  <2>2. QED
    BY <1>7, <2>1 DEF IndexUnlockInSearch, Goto
<1>8. CASE Kill(c)
  BY <1>8 DEF Kill
<1>9. QED
  BY <1>1, <1>2, <1>3, <1>4, <1>5, <1>6, <1>7, <1>8 DEF Step, Search, Write

-----------------------------------------------------------------------------
(* The invariant                                                           *)

LEMMA InitIInv == Init => IInv
<1> SUFFICES ASSUME Init PROVE IInv
  OBVIOUS
<1> USE IndexAssumption, IndexKinds DEF Init
<1>1. TypeOK
  BY DEF TypeOK, Steps, NoSnapshot
<1>2. IndexFunctions
  BY DEF IndexFunctions
<1>3. IndexHeadsResolve
  BY DEF IndexHeadsResolve, HasHead
<1>4. \A c \in Clients : ClientInv(c)
  BY DEF ClientInv, Reading, HoldingInv, LockedInv, Holding, Stored
<1>5. QED
  BY <1>1, <1>2, <1>3, <1>4 DEF IInv

\* A step's effect on the types and on the index heads.
LEMMA TypeStep ==
  ASSUME IInv, [Next]_vars
  PROVE  TypeOK' /\ IndexFunctions'
<1> USE IndexAssumption, IndexKinds DEF IInv, TypeOK, IndexFunctions, locals, Forget, NoSnapshot
<1>1. CASE UNCHANGED vars
  BY <1>1 DEF vars
<1>2. CASE MoveHead
  BY <1>2 DEF MoveHead
<1>3. CASE \E l \in LockNames : OperatorUnlock(l)
  BY <1>3 DEF OperatorUnlock
<1>4. ASSUME NEW c \in Clients, Step(c) PROVE TypeOK' /\ IndexFunctions'
  <2>0. pc[c] \in Holding => index[c] \in Index
    BY DEF ClientInv, HoldingInv
  <2> USE <2>0 DEF Holding, Steps
  <2>1. CASE BeginLockedSearch(c)
    BY <2>1 DEF BeginLockedSearch, Goto, Acquire
  <2>2. CASE LockedRead(c)
    BY <2>2 DEF LockedRead, Goto
  <2>3. ASSUME NEW to \in Steps, Begin(c, to) PROVE TypeOK' /\ IndexFunctions'
    BY <2>3 DEF Begin, Goto
  <2>4. CASE SearchRead(c)
    BY <2>4 DEF SearchRead, Goto
  <2>5. ASSUME NEW k \in Kinds, AnswerFrom(c, k), pc' = [pc EXCEPT ![c] = "answer"]
        PROVE  TypeOK' /\ IndexFunctions'
    BY <2>5 DEF AnswerFrom, Fresh, HasHead
  <2>6. CASE SearchStale(c)
    BY <2>6 DEF SearchStale, Goto
  <2>7. ASSUME End(c), UNCHANGED <<head, indexes, indexHead>>,
               registered' \subseteq 1 .. MaxHead
        PROVE  TypeOK' /\ IndexFunctions'
    BY <2>7 DEF End
  <2>8. CASE SemanticStale(c) \/ Answer(c) \/ Fail(c)
    BY <2>7, <2>8 DEF SemanticStale, Answer, Fail
  <2>9. CASE IndexUnlock(c)
    BY <2>7, <2>9 DEF IndexUnlock
  <2>10. CASE Build(c)
    <3>1. [kind |-> "lexical", snapshot |-> head, content |-> Terms] \in Index
      BY DEF Index, Kinds
    <3>2. QED
      BY <2>10, <3>1 DEF Build, Goto
  <2>11. CASE Register(c)
    <3>1. \A e \in Embeddings : [kind |-> "semantic", snapshot |-> head, content |-> e] \in Index
      BY DEF Index, Kinds
    <3>2. QED
      BY <2>11, <3>1 DEF Register, Goto
  <2>12. CASE IndexLock(c)
    BY <2>12 DEF IndexLock, Goto, Acquire
  <2>13. CASE IndexRecord(c)
    BY <2>13 DEF IndexRecord, Goto
  <2>14. CASE IndexHead(c)
    BY <2>14 DEF IndexHead, Goto
  <2>15. CASE IndexUnlockInSearch(c)
    BY <2>15 DEF IndexUnlockInSearch, Goto
  <2>16. CASE Kill(c)
    BY <2>16 DEF Kill
  <2>17. CASE SearchIndexed(c) \/ SemanticIndexed(c)
    BY <2>5, <2>17 DEF SearchIndexed, SemanticIndexed, Goto, Kinds
  <2>18. CASE BeginSearch(c) \/ BeginSemantic(c) \/ BeginBuild(c) \/ BeginRegister(c)
    BY <2>3, <2>18 DEF BeginSearch, BeginSemantic, BeginBuild, BeginRegister
  <2>19. QED
    BY <1>4, <2>1, <2>2, <2>4, <2>6, <2>8, <2>9, <2>10, <2>11, <2>12, <2>13, <2>14,
       <2>15, <2>16, <2>17, <2>18
    DEF Step, Search, Write
<1>5. QED
  BY <1>1, <1>2, <1>3, <1>4 DEF Next, Step

\* An index head changes only to an index that has been stored, and its kind.
LEMMA HeadsStep ==
  ASSUME IInv, [Next]_vars
  PROVE  IndexHeadsResolve'
<1> USE IndexKinds DEF IInv, IndexHeadsResolve, HasHead
<1>1. CASE UNCHANGED <<indexHead, indexes>>
  BY <1>1
<1>2. ASSUME NEW c \in Clients, IndexRecord(c) PROVE IndexHeadsResolve'
  BY <1>2 DEF IndexRecord
<1>3. ASSUME NEW c \in Clients, IndexHead(c) PROVE IndexHeadsResolve'
  <2>1. index[c] \in Index /\ index[c] \in indexes
    BY <1>3 DEF IndexHead, Goto, ClientInv, HoldingInv, Holding, Stored
  <2>2. indexes' = indexes /\ indexHead' = [indexHead EXCEPT ![index[c].kind] = index[c]]
    BY <1>3 DEF IndexHead
  <2>3. QED
    BY <2>1, <2>2 DEF IndexFunctions
<1>4. CASE MoveHead \/ \E l \in LockNames : OperatorUnlock(l)
  BY <1>1, <1>4 DEF MoveHead, OperatorUnlock
<1>5. ASSUME NEW c \in Clients, Step(c), ~IndexRecord(c), ~IndexHead(c)
      PROVE  UNCHANGED <<indexHead, indexes>>
  <2>1. CASE Search(c)
    BY <2>1 DEF Search, BeginLockedSearch, LockedRead, BeginSearch, SearchRead, SearchIndexed,
                SearchStale, Answer, BeginSemantic, SemanticIndexed, SemanticStale, Begin,
                AnswerFrom
  <2>2. CASE Write(c)
    BY <1>5, <2>2 DEF Write, BeginBuild, Build, BeginRegister, Register, IndexLock,
                      IndexUnlockInSearch, IndexUnlock, Begin
  <2>3. CASE Fail(c) \/ Kill(c)
    BY <2>3 DEF Fail, Kill
  <2>4. QED
    BY <1>5, <2>1, <2>2, <2>3 DEF Step
<1>6. QED
  BY <1>1, <1>2, <1>3, <1>4, <1>5 DEF Next, Step, vars

\* A call that ends keeps nothing.
LEMMA EndedInv ==
  ASSUME TypeOK, IndexFunctions, NEW c \in Clients, Forget(c), pc' = [pc EXCEPT ![c] = "idle"]
  PROVE  ClientInv(c)'
BY DEF TypeOK, IndexFunctions, Forget, ClientInv, Reading, HoldingInv, LockedInv, Holding, Stored,
       NoSnapshot

\* A client's own step keeps what is known of its call.
LEMMA OwnStep ==
  ASSUME IInv, NEW c \in Clients, Step(c)
  PROVE  ClientInv(c)'
<1> USE IndexAssumption, IndexKinds
    DEF IInv, TypeOK, IndexFunctions, ClientInv, Reading, HoldingInv, LockedInv, Holding,
        Stored, NoSnapshot, locals
<1>1. CASE BeginLockedSearch(c)
  BY <1>1 DEF BeginLockedSearch, Goto, Acquire
<1>2. CASE LockedRead(c)
  BY <1>2 DEF LockedRead, Goto
<1>3. ASSUME NEW to \in {"search_read", "semantic_read", "build", "register"}, Begin(c, to)
      PROVE  ClientInv(c)'
  BY <1>3 DEF Begin, Goto
<1>4. CASE SearchRead(c)
  BY <1>4 DEF SearchRead, Goto
<1>5. ASSUME NEW k \in Kinds, AnswerFrom(c, k), pc[c] \in {"search_head", "semantic_head"},
             pc' = [pc EXCEPT ![c] = "answer"]
      PROVE  ClientInv(c)'
  <2>1. indexHead[k] \in Index /\ indexHead[k] \in indexes /\ indexHead[k].snapshot = seen[c]
    BY <1>5 DEF AnswerFrom, Fresh, HasHead, IndexHeadsResolve
  <2>2. QED
    BY <1>5, <2>1 DEF AnswerFrom
<1>6. CASE SearchStale(c)
  BY <1>6 DEF SearchStale, Goto
<1>7. CASE SemanticStale(c) \/ Answer(c) \/ Fail(c) \/ IndexUnlock(c) \/ Kill(c)
  BY <1>7, EndedInv DEF SemanticStale, Answer, Fail, IndexUnlock, Kill, End
<1>8. CASE Build(c)
  <2>1. [kind |-> "lexical", snapshot |-> head, content |-> Terms] \in Index
    BY DEF Index, Kinds
  <2>2. QED
    BY <1>8, <2>1 DEF Build, Goto
<1>9. CASE Register(c)
  <2>1. \A e \in Embeddings : [kind |-> "semantic", snapshot |-> head, content |-> e] \in Index
    BY DEF Index, Kinds
  <2>2. QED
    BY <1>9, <2>1 DEF Register, Goto
<1>10. CASE IndexLock(c)
  BY <1>10 DEF IndexLock, Goto, Acquire
<1>11. CASE IndexRecord(c)
  BY <1>11 DEF IndexRecord, Goto
<1>12. CASE IndexHead(c)
  BY <1>12 DEF IndexHead, Goto
<1>13. CASE IndexUnlockInSearch(c)
  BY <1>13 DEF IndexUnlockInSearch, Goto
<1>14. CASE SearchIndexed(c) \/ SemanticIndexed(c)
  BY <1>5, <1>14 DEF SearchIndexed, SemanticIndexed, Goto, Kinds
<1>15. CASE BeginSearch(c) \/ BeginSemantic(c) \/ BeginBuild(c) \/ BeginRegister(c)
  BY <1>3, <1>15 DEF BeginSearch, BeginSemantic, BeginBuild, BeginRegister
<1>16. QED
  BY <1>1, <1>2, <1>4, <1>6, <1>7, <1>8, <1>9, <1>10, <1>11, <1>12, <1>13, <1>14, <1>15
  DEF Step, Search, Write

\* HEAD moves only while the Collection's lock file is absent, and so under no
\* locked search.
LEMMA HeadMoves ==
  ASSUME IInv, MoveHead, NEW d \in Clients
  PROVE  ClientInv(d)'
<1> USE IndexAssumption DEF IInv, TypeOK, NoSnapshot, locals
<1>1. ClientInv(d)
  OBVIOUS
<1>2. outer[d] = 0 /\ pc[d] # "locked_read"
  BY DEF ClientInv, LockedInv, MoveHead
<1>3. index[d] \in Index => index[d].snapshot \in 1 .. MaxHead
  BY IndexKinds
<1>4. QED
  BY <1>1, <1>2, <1>3
  DEF MoveHead, ClientInv, Reading, HoldingInv, LockedInv, Holding, Stored

LEMMA ClientsStep ==
  ASSUME IInv, [Next]_vars, NEW d \in Clients
  PROVE  ClientInv(d)'
<1> USE DEF IInv
<1>1. CASE UNCHANGED vars
  BY <1>1 DEF vars, locals, ClientInv, Reading, HoldingInv, LockedInv
<1>2. CASE MoveHead
  BY <1>2, HeadMoves
<1>3. ASSUME NEW l \in LockNames, OperatorUnlock(l) PROVE ClientInv(d)'
  BY <1>3, IndexAssumption
  DEF OperatorUnlock, TypeOK, locals, ClientInv, Reading, HoldingInv, LockedInv
<1>4. ASSUME NEW c \in Clients, Step(c), c # d PROVE ClientInv(d)'
  BY <1>4, OthersKept DEF ClientInv, Reading, HoldingInv, LockedInv
<1>5. CASE Step(d)
  BY <1>5, OwnStep
<1>6. QED
  BY <1>1, <1>2, <1>3, <1>4, <1>5 DEF Next, Step

-----------------------------------------------------------------------------
(* The theorems                                                            *)

\* IInv holds always: what calls have read and hold, and what the files name.
THEOREM IndexInvariance == Spec => []IInv
<1>1. IInv /\ [Next]_vars => IInv'
  BY TypeStep, HeadsStep, ClientsStep DEF IInv
<1>2. QED
  BY InitIInv, <1>1, PTL DEF Spec

\* Every variable keeps its type.
THEOREM IndexTypeCorrect == Spec => []TypeOK
BY IndexInvariance, PTL DEF IInv

\* An index head always names a stored record of its own kind (_write_index writes
\* the record first).
THEOREM IndexHeadsAlwaysResolve == Spec => []IndexHeadsResolve
BY IndexInvariance, PTL DEF IInv

\* Every answer is of a snapshot that was HEAD during the call (search_lexical and
\* search_semantic, which lock nothing).
THEOREM AnswersAlwaysLive == Spec => []AnswersAreLive
<1>1. IInv => AnswersAreLive
  BY DEF IInv, ClientInv, HoldingInv, Holding, Stored, AnswersAreLive
<1>2. QED
  BY IndexInvariance, <1>1, PTL

\* A locked search answers for HEAD (search_collection).
THEOREM LockedAnswersAlwaysCurrent == Spec => []LockedAnswersAreCurrent
<1>1. IInv => LockedAnswersAreCurrent
  BY DEF IInv, ClientInv, LockedInv, Holding, LockedAnswersAreCurrent
<1>2. QED
  BY IndexInvariance, <1>1, PTL
=============================================================================
