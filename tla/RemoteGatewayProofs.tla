------------------------ MODULE RemoteGatewayProofs ------------------------
(***************************************************************************)
(* Proofs about RemoteGateway for every number of connections, principals, *)
(* records and audit files, and every quota.                               *)
(***************************************************************************)
EXTENDS RemoteGateway, TLAPS

\* A step of the connection t.
Step(t) == (\E q \in Request : Begin(t, q)) \/ Handle(t) \/ Fail(t)

-----------------------------------------------------------------------------
(* Lemmas                                                                  *)

\* A request's fields; an idle connection's record has another kind.
LEMMA RequestFields ==
  /\ \A q \in Request : /\ q.principal \in Principals /\ q.record \in Records
                        /\ q.kind \in {"create", "read"}
  /\ NoRequest.kind = "none"
BY DEF Request, Kinds, NoRequest

\* What was loaded from the audit directory is ownership.
LEMMA LoadedType == Loaded \in [Principals -> SUBSET Records]
BY DEF Loaded

\* A connection's step leaves the other connections' handlers alone.
LEMMA OthersKept ==
  ASSUME TypeOK, NEW t \in Threads, Step(t), NEW u \in Threads, u # t
  PROVE  pc'[u] = pc[u] /\ request'[u] = request[u]
<1> USE DEF TypeOK
<1>1. ASSUME NEW q \in Request, Begin(t, q) PROVE pc'[u] = pc[u] /\ request'[u] = request[u]
  BY <1>1 DEF Begin, Goto
<1>2. CASE Deny(t) \/ AnswerError(t) \/ Answer(t) \/ Fail(t)
  BY <1>2 DEF Deny, AnswerError, Answer, Fail, Leave
<1>3. CASE Permit(t) \/ TakeLock(t) \/ Renew(t) \/ ChargeRefused(t) \/ ChargeChecked(t)
  BY <1>3 DEF Permit, TakeLock, Renew, ChargeRefused, ChargeChecked, Goto
<1>4. CASE Charge(t) \/ Execute(t) \/ ExecuteFails(t) \/ Complete(t) \/ Own(t)
  BY <1>4 DEF Charge, Execute, ExecuteFails, Complete, Own, Goto
<1>5. QED
  BY <1>1, <1>2, <1>3, <1>4 DEF Step, Handle

\* The store, the audit directory and, while the gateway runs, ownership only
\* grow: nothing that was recorded is taken back.
LEMMA RecordsKept ==
  ASSUME TypeOK, [Next]_vars
  PROVE  /\ stored \subseteq stored' /\ begun \subseteq begun'
         /\ granted \subseteq granted' /\ answered \subseteq answered'
<1> USE DEF TypeOK, disk, memory
<1>1. CASE UNCHANGED vars
  BY <1>1 DEF vars
<1>2. ASSUME NEW t \in Threads, Step(t)
      PROVE  /\ stored \subseteq stored' /\ begun \subseteq begun'
             /\ granted \subseteq granted' /\ answered \subseteq answered'
  <2>1. CASE \E q \in Request : Begin(t, q)
    BY <2>1 DEF Begin
  <2>2. CASE Deny(t) \/ AnswerError(t) \/ Answer(t) \/ Fail(t)
    BY <2>2 DEF Deny, AnswerError, Answer, Fail
  <2>3. CASE Permit(t) \/ TakeLock(t) \/ Renew(t) \/ ChargeRefused(t) \/ ChargeChecked(t)
    BY <2>3 DEF Permit, TakeLock, Renew, ChargeRefused, ChargeChecked
  <2>4. CASE Charge(t) \/ Execute(t) \/ ExecuteFails(t) \/ Complete(t) \/ Own(t)
    BY <2>4 DEF Charge, Execute, ExecuteFails, Complete, Own, StoredBy
  <2>5. QED
    BY <1>2, <2>1, <2>2, <2>3, <2>4 DEF Step, Handle
<1>3. CASE WindowPasses \/ Kill \/ Start
  BY <1>3 DEF WindowPasses, Kill, Start
<1>4. QED
  BY <1>1, <1>2, <1>3 DEF Next, Step

\* A gateway that has not served anybody satisfies the invariant.
LEMMA InitInv == Init => IInv
<1> SUFFICES ASSUME Init PROVE IInv
  OBVIOUS
<1> USE DEF Init
<1>1. TypeOK
  BY LoadedType DEF TypeOK, Steps
<1>2. owned = [p \in Principals |-> {}]
  BY DEF Loaded
<1>3. EffectsAreAudited /\ AnsweredIsOwned /\ OwnershipIsDurable /\ GrantedInv
  BY <1>2 DEF EffectsAreAudited, AnsweredIsOwned, OwnershipIsDurable, GrantedInv
<1>4. ReadsStayEntitled /\ BegunInv /\ ChargeInv /\ MakingInv
  BY RequestFields DEF ReadsStayEntitled, BegunInv, ChargeInv, MakingInv, Creates
<1>5. QuotasHold /\ Exclusion
  BY GatewayAssumption DEF QuotasHold, Exclusion, Dispatching
<1>6. QED
  BY <1>1, <1>3, <1>4, <1>5 DEF IInv

\* A step keeps every variable's type.
LEMMA TypeStep == IInv /\ [Next]_vars => TypeOK'
<1> SUFFICES ASSUME IInv, [Next]_vars PROVE TypeOK'
  OBVIOUS
<1>0. TypeOK /\ BegunInv
  BY DEF IInv
<1> USE <1>0 DEF TypeOK, disk, memory, quota
<1>1. CASE UNCHANGED vars
  BY <1>1 DEF vars
<1>2. ASSUME NEW t \in Threads, Step(t) PROVE TypeOK'
  <2>1. CASE \E q \in Request : Begin(t, q)
    BY <2>1 DEF Begin, Goto, Steps
  <2>2. CASE Deny(t) \/ AnswerError(t) \/ Fail(t)
    BY <2>2 DEF Deny, AnswerError, Fail, Leave, Steps
  <2>3. CASE Answer(t)
    <3>1. request[t] \in Request
      BY <2>3 DEF Answer, BegunInv
    <3>2. Made(t) \in Principals \X Records
      BY <3>1, RequestFields DEF Made
    <3>3. QED
      BY <2>3, <3>2 DEF Answer, Leave, Steps
  <2>4. CASE Permit(t) \/ TakeLock(t) \/ ChargeRefused(t) \/ ChargeChecked(t)
    BY <2>4 DEF Permit, TakeLock, ChargeRefused, ChargeChecked, Goto, Steps, Dispatching
  <2>5. CASE Renew(t) \/ Charge(t)
    <3>1. CASE Renew(t)
      BY <3>1 DEF Renew, Goto, Steps, Dispatching
    <3>2. CASE Charge(t)
      BY <3>2 DEF Charge, Goto, Steps, Dispatching
    <3>3. QED
      BY <2>5, <3>1, <3>2
  <2>6. CASE Execute(t) \/ ExecuteFails(t)
    <3>1. request[t] \in Request
      BY <2>6 DEF Execute, ExecuteFails, Goto, BegunInv
    <3>2. StoredBy(request[t]) \subseteq Records
      BY <3>1, RequestFields DEF StoredBy
    <3>3. QED
      BY <2>6, <3>2 DEF Execute, ExecuteFails, Goto, Steps, Dispatching
  <2>7. CASE Complete(t)
    <3>1. request[t] \in Request
      BY <2>7 DEF Complete, Goto, BegunInv
    <3>2. Made(t) \in Principals \X Records
      BY <3>1, RequestFields DEF Made
    <3>3. QED
      BY <2>7, <3>2 DEF Complete, Goto, Steps
  <2>8. CASE Own(t)
    <3>1. request[t] \in Request
      BY <2>8 DEF Own, Goto, BegunInv
    <3>2. owned' \in [Principals -> SUBSET Records]
      BY <2>8, <3>1, RequestFields DEF Own
    <3>3. QED
      BY <2>8, <3>2 DEF Own, Goto, Steps
  <2>9. QED
    BY <1>2, <2>1, <2>2, <2>3, <2>4, <2>5, <2>6, <2>7, <2>8 DEF Step, Handle
<1>3. CASE WindowPasses \/ Kill
  BY <1>3 DEF WindowPasses, Kill, Steps
<1>4. CASE Start
  BY <1>4, LoadedType DEF Start
<1>5. QED
  BY <1>1, <1>2, <1>3, <1>4 DEF Next, Step

\* Only an operation under the dispatch lock writes the store.
LEMMA StoreWriters ==
  ASSUME [Next]_vars, stored' # stored
  PROVE  \E t \in Threads : Execute(t) \/ ExecuteFails(t)
BY DEF Next, Handle, vars, disk, memory, Begin, Deny, Permit, TakeLock, Renew,
       ChargeRefused, ChargeChecked, Charge, Complete, Own, Answer, AnswerError,
       Fail, WindowPasses, Kill, Start

\* Only these steps write the ownership.
LEMMA OwnershipWriters ==
  ASSUME [Next]_vars, owned' # owned
  PROVE  Kill \/ Start \/ \E t \in Threads : Own(t)
BY DEF Next, Handle, vars, disk, memory, Begin, Deny, Permit, TakeLock, Renew,
       ChargeRefused, ChargeChecked, Charge, Execute, ExecuteFails, Complete,
       Answer, AnswerError, Fail, WindowPasses, Kill, Start

\* Only these steps write the counters of the quotas.
LEMMA QuotaWriters ==
  ASSUME [Next]_vars, <<requests, mutations>>' # <<requests, mutations>>
  PROVE  Start \/ \E t \in Threads : Renew(t) \/ Charge(t)
BY DEF Next, Handle, vars, disk, memory, quota, Begin, Deny, Permit, TakeLock,
       ChargeRefused, ChargeChecked, Execute, ExecuteFails, Complete, Own,
       Answer, AnswerError, Fail, WindowPasses, Kill, Start

\* Only these steps acknowledge anything, start or stop the gateway.
LEMMA AnswerWriters ==
  ASSUME [Next]_vars, <<answered, up>>' # <<answered, up>>
  PROVE  Kill \/ Start \/ \E t \in Threads : Answer(t)
BY DEF Next, Handle, vars, disk, memory, Begin, Deny, Permit, TakeLock, Renew,
       ChargeRefused, ChargeChecked, Charge, Execute, ExecuteFails, Complete,
       Own, AnswerError, Fail, WindowPasses, Kill, Start

\* A step stores only what a request of the audit directory asked for.
LEMMA AuditedStep == IInv /\ [Next]_vars => EffectsAreAudited'
<1> SUFFICES ASSUME IInv, [Next]_vars, NEW r \in stored'
             PROVE  \E q \in begun' : q.kind = "create" /\ q.record = r
  BY DEF EffectsAreAudited
<1>1. begun \subseteq begun'
  BY RecordsKept DEF IInv
<1>2. CASE r \in stored
  BY <1>1, <1>2 DEF IInv, EffectsAreAudited
<1>3. CASE r \notin stored
  <2>1. PICK t \in Threads : Execute(t) \/ ExecuteFails(t)
    BY <1>3, StoreWriters
  <2>2. request[t] \in begun
    BY <2>1 DEF Execute, ExecuteFails, Goto, IInv, BegunInv
  <2>3. request[t].kind = "create" /\ request[t].record = r
    BY <1>3, <2>1 DEF Execute, ExecuteFails, StoredBy
  <2>4. QED
    BY <1>1, <2>2, <2>3
<1>4. QED
  BY <1>2, <1>3

\* A step grants ownership only of what the audit directory grants.
LEMMA DurableStep == IInv /\ [Next]_vars => OwnershipIsDurable'
<1> SUFFICES ASSUME IInv, [Next]_vars, NEW p \in Principals, NEW r \in owned'[p]
             PROVE  r \in stored' /\ <<p, r>> \in granted'
  BY DEF OwnershipIsDurable
<1>1. stored \subseteq stored' /\ granted \subseteq granted'
  BY RecordsKept DEF IInv
<1>2. CASE r \in owned[p]
  BY <1>1, <1>2 DEF IInv, OwnershipIsDurable
<1>3. CASE r \notin owned[p]
  <2>1. CASE Kill
    BY <2>1 DEF Kill
  <2>2. CASE Start
    <3>1. <<p, r>> \in granted
      BY <2>2 DEF Start, Loaded
    <3>2. <<p, r>>[2] \in stored
      BY <3>1 DEF IInv, GrantedInv
    <3>3. QED
      BY <1>1, <3>1, <3>2
  <2>3. ASSUME NEW t \in Threads, Own(t) PROVE r \in stored' /\ <<p, r>> \in granted'
    <3>1. p = request[t].principal /\ r = request[t].record
      BY <1>3, <2>3 DEF Own, IInv, TypeOK
    <3>2. r \in stored /\ Made(t) \in granted
      BY <2>3, <3>1 DEF Own, Goto, IInv, MakingInv
    <3>3. QED
      BY <1>1, <3>1, <3>2 DEF Made
  <2>4. QED
    BY <1>3, <2>1, <2>2, <2>3, OwnershipWriters
<1>4. QED
  BY <1>2, <1>3

\* What is acknowledged was granted before, and what is granted was stored.
LEMMA GrantedStep == IInv /\ [Next]_vars => GrantedInv'
<1> SUFFICES ASSUME IInv, [Next]_vars PROVE GrantedInv'
  OBVIOUS
<1>1. stored \subseteq stored' /\ granted \subseteq granted'
  BY RecordsKept DEF IInv
<1>2. answered' \subseteq granted'
  <2>1. CASE answered' = answered
    BY <1>1, <2>1 DEF IInv, GrantedInv
  <2>2. ASSUME NEW t \in Threads, Answer(t) PROVE answered' \subseteq granted'
    BY <1>1, <2>2 DEF Answer, IInv, MakingInv, GrantedInv
  <2>3. QED
    BY <2>1, <2>2, AnswerWriters DEF Kill, Start
<1>3. ASSUME NEW m \in granted' PROVE m[2] \in stored'
  <2>1. CASE m \in granted
    BY <1>1, <2>1 DEF IInv, GrantedInv
  <2>2. CASE m \notin granted
    <3>1. PICK t \in Threads : Complete(t)
      BY <2>2 DEF Next, Handle, vars, disk, memory, Begin, Deny, Permit, TakeLock,
         Renew, ChargeRefused, ChargeChecked, Charge, Execute, ExecuteFails, Own,
         Answer, AnswerError, Fail, WindowPasses, Kill, Start
    <3>2. Creates(t) /\ m = Made(t) /\ pc[t] = "completed"
      BY <2>2, <3>1 DEF Complete, Goto
    <3>3. request[t].record \in stored
      BY <3>2 DEF IInv, MakingInv
    <3>4. QED
      BY <1>1, <3>2, <3>3 DEF Made
  <2>3. QED
    BY <2>1, <2>2
<1>4. QED
  BY <1>2, <1>3 DEF GrantedInv

\* An acknowledged creation is owned after the step, a start included.
LEMMA AnsweredStep == IInv /\ [Next]_vars => AnsweredIsOwned'
<1> SUFFICES ASSUME IInv, [Next]_vars, up', NEW m \in answered'
             PROVE  m[2] \in owned'[m[1]]
  BY DEF AnsweredIsOwned
<1>0. TypeOK
  BY DEF IInv
<1>1. CASE Start
  <2>1. m \in granted /\ m \in Principals \X Records
    BY <1>0, <1>1 DEF Start, IInv, GrantedInv, TypeOK
  <2>2. m = <<m[1], m[2]>> /\ m[1] \in Principals /\ m[2] \in Records
    BY <2>1
  <2>3. QED
    BY <1>1, <2>1, <2>2 DEF Start, Loaded
<1>2. CASE Kill
  BY <1>2 DEF Kill
<1>3. ASSUME NEW t \in Threads, Answer(t) PROVE m[2] \in owned'[m[1]]
  <2>1. up /\ owned' = owned /\ pc[t] = "answer"
    BY <1>3 DEF Answer, memory, IInv, BegunInv
  <2>2. CASE m \in answered
    BY <2>1, <2>2 DEF IInv, AnsweredIsOwned
  <2>3. CASE m \notin answered
    <3>1. Creates(t) /\ m = Made(t)
      BY <1>3, <2>3 DEF Answer
    <3>2. QED
      BY <2>1, <3>1 DEF IInv, MakingInv, Made
  <2>4. QED
    BY <2>2, <2>3
<1>4. CASE ~Start /\ ~Kill /\ ~\E t \in Threads : Answer(t)
  <2>1. up /\ m \in answered
    BY <1>4, AnswerWriters
  <2>2. m[2] \in owned[m[1]] /\ m[1] \in Principals
    BY <1>0, <2>1 DEF IInv, AnsweredIsOwned, TypeOK
  <2>3. ASSUME NEW t \in Threads, Own(t) PROVE m[2] \in owned'[m[1]]
    BY <1>0, <2>2, <2>3 DEF Own, TypeOK
  <2>4. QED
    BY <1>4, <2>2, <2>3, OwnershipWriters
<1>5. QED
  BY <1>1, <1>2, <1>3, <1>4

\* The counters stay within the quotas: a charge was found affordable.
LEMMA QuotasStep == IInv /\ [Next]_vars => QuotasHold'
<1> SUFFICES ASSUME IInv, [Next]_vars PROVE QuotasHold'
  OBVIOUS
<1> USE GatewayAssumption DEF IInv, TypeOK, QuotasHold
<1>1. CASE Start
  BY <1>1 DEF Start
<1>2. ASSUME NEW t \in Threads, Renew(t) PROVE QuotasHold'
  BY <1>2 DEF Renew
<1>3. ASSUME NEW t \in Threads, Charge(t) PROVE QuotasHold'
  <2>1. Affordable(request[t])
    BY <1>3 DEF Charge, Goto, ChargeInv
  <2>2. QED
    BY <1>3, <2>1 DEF Charge, Affordable
<1>4. QED
  BY <1>1, <1>2, <1>3, QuotaWriters

\* What a connection's own step does to the dispatch lock.
LEMMA LockMoves ==
  ASSUME TypeOK, Exclusion, NEW t \in Threads, Step(t)
  PROVE  /\ pc'[t] \in Dispatching <=> lock' = t
         /\ lock' # lock =>
              \/ lock' = t /\ lock = Free
              \/ lock' = Free /\ lock = t
<1> USE GatewayAssumption DEF TypeOK, Exclusion, Dispatching, Goto, memory
<1>1. CASE \E q \in Request : Begin(t, q)
  BY <1>1 DEF Begin
<1>2. CASE Deny(t) \/ AnswerError(t) \/ Answer(t)
  BY <1>2 DEF Deny, AnswerError, Answer, Leave
<1>3. CASE Permit(t) \/ Complete(t) \/ Own(t)
  BY <1>3 DEF Permit, Complete, Own
<1>4. CASE TakeLock(t)
  BY <1>4 DEF TakeLock
<1>5. CASE Renew(t) \/ ChargeChecked(t) \/ Charge(t)
  BY <1>5 DEF Renew, ChargeChecked, Charge
<1>6. CASE ChargeRefused(t) \/ Execute(t) \/ ExecuteFails(t)
  BY <1>6 DEF ChargeRefused, Execute, ExecuteFails
<1>7. CASE Fail(t)
  BY <1>7 DEF Fail, Leave
<1>8. QED
  BY <1>1, <1>2, <1>3, <1>4, <1>5, <1>6, <1>7 DEF Step, Handle

\* The thread that holds the dispatch lock, and no other, is dispatching.
LEMMA ExclusionStep == IInv /\ [Next]_vars => Exclusion'
<1> SUFFICES ASSUME IInv, [Next]_vars, NEW u \in Threads
             PROVE  pc'[u] \in Dispatching <=> lock' = u
  BY DEF Exclusion
<1>0. TypeOK /\ Exclusion
  BY DEF IInv
<1>1. CASE UNCHANGED vars
  BY <1>0, <1>1 DEF vars, memory, Exclusion
<1>2. ASSUME NEW t \in Threads, Step(t) PROVE pc'[u] \in Dispatching <=> lock' = u
  <2>1. CASE u = t
    BY <1>0, <1>2, <2>1, LockMoves
  <2>2. CASE u # t
    <3>1. pc'[u] = pc[u]
      BY <1>0, <1>2, <2>2, OthersKept
    <3>2. lock' = u <=> lock = u
      BY <1>0, <1>2, <2>2, LockMoves, GatewayAssumption
    <3>3. QED
      BY <1>0, <3>1, <3>2 DEF Exclusion
  <2>3. QED
    BY <2>1, <2>2
<1>3. CASE Kill
  BY <1>3, GatewayAssumption DEF Kill, Dispatching
<1>4. CASE WindowPasses \/ Start
  BY <1>0, <1>4 DEF WindowPasses, Start, Exclusion
<1>5. QED
  BY <1>1, <1>2, <1>3, <1>4 DEF Next, Step

\* A step works on a request that was begun before, while the gateway runs.
LEMMA BegunStep == IInv /\ [Next]_vars => BegunInv'
<1> SUFFICES ASSUME IInv, [Next]_vars, NEW u \in Threads, pc'[u] # "idle"
             PROVE  up' /\ request'[u] \in begun'
  BY DEF BegunInv
<1>0. TypeOK /\ BegunInv /\ begun \subseteq begun'
  BY RecordsKept DEF IInv
<1>1. CASE UNCHANGED vars
  BY <1>0, <1>1 DEF vars, memory, disk, BegunInv
<1>2. ASSUME NEW t \in Threads, Step(t) PROVE up' /\ request'[u] \in begun'
  <2>1. ASSUME NEW q \in Request, Begin(t, q), u = t PROVE up' /\ request'[u] \in begun'
    BY <1>0, <2>1 DEF Begin, memory, TypeOK
  <2>2. CASE Deny(t) \/ AnswerError(t) \/ Answer(t) \/ Fail(t)
    <3>1. up' = up
      BY <2>2 DEF Deny, AnswerError, Answer, Fail, memory
    <3>2. u # t
      BY <1>0, <2>2 DEF Deny, AnswerError, Answer, Fail, Leave, TypeOK
    <3>3. QED
      BY <1>0, <1>2, <3>1, <3>2, OthersKept DEF BegunInv
  <2>3. CASE \/ Permit(t) \/ TakeLock(t) \/ Renew(t) \/ ChargeRefused(t)
             \/ ChargeChecked(t) \/ Charge(t) \/ Execute(t) \/ ExecuteFails(t)
             \/ Complete(t) \/ Own(t)
    <3>1. up' = up /\ request' = request /\ pc[t] # "idle"
      BY <2>3 DEF Permit, TakeLock, Renew, ChargeRefused, ChargeChecked, Charge,
         Execute, ExecuteFails, Complete, Own, Goto, memory
    <3>2. pc[u] # "idle"
      BY <1>0, <1>2, <3>1, OthersKept
    <3>3. QED
      BY <1>0, <3>1, <3>2 DEF BegunInv
  <2>4. ASSUME NEW q \in Request, Begin(t, q), u # t PROVE up' /\ request'[u] \in begun'
    BY <1>0, <1>2, <2>4, OthersKept DEF Begin, memory, BegunInv
  <2>5. QED
    BY <1>2, <2>1, <2>2, <2>3, <2>4 DEF Step, Handle
<1>3. CASE Kill
  BY <1>3 DEF Kill
<1>4. CASE WindowPasses \/ Start
  BY <1>0, <1>4 DEF WindowPasses, Start, disk, BegunInv
<1>5. QED
  BY <1>1, <1>2, <1>3, <1>4 DEF Next, Step

\* Between the check of the quotas and the charge nobody else charges them.
LEMMA ChargeStep == IInv /\ [Next]_vars => ChargeInv'
<1> SUFFICES ASSUME IInv, [Next]_vars, NEW u \in Threads, pc'[u] = "charge"
             PROVE  Affordable(request[u])'
  BY DEF ChargeInv
<1>0. TypeOK /\ Exclusion /\ ChargeInv /\ BegunInv
  BY DEF IInv
<1>1. CASE UNCHANGED vars
  BY <1>0, <1>1 DEF vars, memory, quota, ChargeInv, Affordable
<1>2. ASSUME NEW t \in Threads, Step(t) PROVE Affordable(request[u])'
  <2>1. CASE u = t
    <3>1. CASE ChargeChecked(t)
      BY <2>1, <3>1 DEF ChargeChecked, memory, quota, Affordable
    <3>2. CASE ~ChargeChecked(t)
      BY <1>0, <1>2, <2>1, <3>2 DEF Step, Handle, Begin, Deny, Permit, TakeLock, Renew,
         ChargeRefused, Charge, Execute, ExecuteFails, Complete, Own, Answer,
         AnswerError, Fail, Leave, Goto, TypeOK
    <3>3. QED
      BY <3>1, <3>2
  <2>2. CASE u # t
    <3>1. pc[u] = "charge" /\ request'[u] = request[u]
      BY <1>0, <1>2, <2>2, OthersKept
    <3>2. pc[t] \notin Dispatching
      BY <1>0, <2>2, <3>1 DEF Exclusion, Dispatching
    <3>3. <<requests, mutations>>' = <<requests, mutations>>
      BY <1>2, <3>2 DEF Step, Handle, Begin, Deny, Permit, TakeLock, Renew,
         ChargeRefused, ChargeChecked, Charge, Execute, ExecuteFails, Complete, Own,
         Answer, AnswerError, Fail, Goto, Dispatching, memory, quota
    <3>4. QED
      BY <1>0, <3>1, <3>3 DEF ChargeInv, Affordable
  <2>3. QED
    BY <2>1, <2>2
<1>3. CASE Kill
  BY <1>3 DEF Kill
<1>4. CASE WindowPasses
  BY <1>0, <1>4 DEF WindowPasses, ChargeInv, Affordable
<1>5. CASE Start
  BY <1>0, <1>5 DEF Start, BegunInv
<1>6. QED
  BY <1>1, <1>2, <1>3, <1>4, <1>5 DEF Next, Step

\* A connection's step takes no ownership away.
LEMMA OwnedKept ==
  ASSUME TypeOK, NEW t \in Threads, Step(t), NEW p \in Principals
  PROVE  owned[p] \subseteq owned'[p]
<1>1. CASE Own(t)
  BY <1>1 DEF Own, TypeOK
<1>2. CASE ~Own(t)
  <2>1. owned' = owned
    BY <1>2 DEF Step, Handle, memory, Begin, Deny, Permit, TakeLock, Renew, ChargeRefused,
       ChargeChecked, Charge, Execute, ExecuteFails, Complete, Answer, AnswerError, Fail
  <2>2. QED
    BY <2>1
<1>3. QED
  BY <1>1, <1>2

\* A creation's handler stores, then grants, then owns, whatever others do.
LEMMA MakingStep == IInv /\ [Next]_vars => MakingInv'
<1> DEFINE Making(u) ==
      /\ pc[u] = "own" => Creates(u)
      /\ Creates(u) =>
           /\ pc[u] \in {"completed", "own", "answer"} => request[u].record \in stored
           /\ pc[u] \in {"own", "answer"} => Made(u) \in granted
           /\ pc[u] = "answer" => request[u].record \in owned[request[u].principal]
<1> SUFFICES ASSUME IInv, [Next]_vars, NEW u \in Threads PROVE Making(u)'
  BY DEF MakingInv
<1>0. /\ TypeOK /\ BegunInv /\ Making(u)
      /\ stored \subseteq stored' /\ granted \subseteq granted'
  BY RecordsKept DEF IInv, MakingInv
<1>1. CASE UNCHANGED vars
  BY <1>0, <1>1 DEF vars, memory, disk, Creates, Made
<1>2. ASSUME NEW t \in Threads, Step(t), u # t PROVE Making(u)'
  <2>1. pc'[u] = pc[u] /\ request'[u] = request[u]
    BY <1>0, <1>2, OthersKept
  <2>2. CASE pc[u] = "idle"
    BY <2>1, <2>2
  <2>3. CASE pc[u] # "idle"
    <3>1. request[u].principal \in Principals
      BY <1>0, <2>3, RequestFields DEF BegunInv, TypeOK
    <3>2. owned[request[u].principal] \subseteq owned'[request[u].principal]
      BY <1>0, <1>2, <3>1, OwnedKept
    <3>3. QED
      BY <1>0, <2>1, <3>2 DEF Creates, Made
  <2>4. QED
    BY <2>2, <2>3
<1>3. ASSUME Step(u) PROVE Making(u)'
  <2>1. CASE Execute(u)
    <3>1. pc'[u] = "completed" /\ request' = request /\ stored' = StoredBy(request[u])
      BY <1>0, <2>1 DEF Execute, Goto, TypeOK
    <3>2. QED
      BY <3>1 DEF StoredBy, Creates
  <2>2. CASE Complete(u)
    <3>1. /\ pc[u] = "completed" /\ request' = request
          /\ pc'[u] = IF Creates(u) THEN "own" ELSE "answer"
          /\ Creates(u) => Made(u) \in granted'
      BY <1>0, <2>2 DEF Complete, Goto, TypeOK
    <3>2. QED
      BY <1>0, <3>1 DEF Creates, Made
  <2>3. CASE Own(u)
    <3>1. pc[u] = "own" /\ pc'[u] = "answer" /\ request' = request
      BY <1>0, <2>3 DEF Own, Goto, TypeOK
    <3>2. request[u].principal \in Principals
      BY <1>0, <3>1, RequestFields DEF BegunInv, TypeOK
    <3>3. request[u].record \in owned'[request[u].principal]
      BY <1>0, <2>3, <3>2 DEF Own, TypeOK
    <3>4. QED
      BY <1>0, <3>1, <3>3 DEF Creates, Made
  <2>4. CASE ~Execute(u) /\ ~Complete(u) /\ ~Own(u)
    <3>1. pc'[u] \notin {"completed", "own", "answer"}
      BY <1>0, <1>3, <2>4 DEF Step, Handle, Begin, Deny, Permit, TakeLock, Renew,
         ChargeRefused, ChargeChecked, Charge, ExecuteFails, Answer, AnswerError,
         Fail, Leave, Goto, TypeOK
    <3>2. QED
      BY <3>1
  <2>5. QED
    BY <2>1, <2>2, <2>3, <2>4
<1>4. CASE Kill
  BY <1>4 DEF Kill
<1>5. CASE WindowPasses
  BY <1>0, <1>5 DEF WindowPasses, disk, Creates, Made
<1>6. CASE Start
  BY <1>0, <1>6 DEF Start, BegunInv
<1>7. QED
  BY <1>1, <1>2, <1>3, <1>4, <1>5, <1>6 DEF Next, Step

\* A read that was allowed is of a record its principal may read.
LEMMA PermittedEntitled ==
  ASSUME IInv, NEW t \in Threads, Permit(t), request[t].kind = "read"
  PROVE  LET q == request[t] IN
           /\ q.record \in stored
           /\ Privacy[q.record] <= Ceiling[q.principal]
           /\ \/ Privacy[q.record] = 0
              \/ q.record \in Configured[q.principal]
              \/ <<q.principal, q.record>> \in granted
<1>1. Authorized(request[t]) /\ request[t] \in Request
  BY DEF Permit, Goto, IInv, BegunInv, TypeOK
<1>2. request[t].principal \in Principals
  BY <1>1, RequestFields
<1>3. request[t].record \in owned[request[t].principal] =>
        <<request[t].principal, request[t].record>> \in granted
  BY <1>2 DEF IInv, OwnershipIsDurable
<1>4. QED
  BY <1>1, <1>3 DEF Authorized, OwnedOrConfigured

\* A read that was allowed stays allowed until it is answered.
LEMMA EntitledStep == IInv /\ [Next]_vars => ReadsStayEntitled'
<1> DEFINE Entitled(q) == /\ q.record \in stored
                          /\ Privacy[q.record] <= Ceiling[q.principal]
                          /\ \/ Privacy[q.record] = 0
                             \/ q.record \in Configured[q.principal]
                             \/ <<q.principal, q.record>> \in granted
<1> SUFFICES ASSUME IInv, [Next]_vars, NEW u \in Threads,
                    pc'[u] \notin {"idle", "authorize"}, request'[u].kind = "read"
             PROVE  Entitled(request[u])'
  BY DEF ReadsStayEntitled
<1>0. TypeOK /\ stored \subseteq stored' /\ granted \subseteq granted'
  BY RecordsKept DEF IInv
<1>1. CASE request'[u] = request[u] /\ pc[u] \notin {"idle", "authorize"}
  BY <1>0, <1>1 DEF IInv, ReadsStayEntitled
<1>2. CASE Permit(u)
  BY <1>0, <1>2, PermittedEntitled DEF Permit
<1>3. CASE UNCHANGED vars
  BY <1>1, <1>3 DEF vars
<1>4. ASSUME NEW t \in Threads, Step(t), u # t PROVE Entitled(request[u])'
  BY <1>0, <1>1, <1>4, OthersKept
<1>5. ASSUME Step(u), ~Permit(u) PROVE Entitled(request[u])'
  BY <1>0, <1>1, <1>5 DEF Step, Handle, Begin, Deny, TakeLock, Renew, ChargeRefused,
     ChargeChecked, Charge, Execute, ExecuteFails, Complete, Own, Answer,
     AnswerError, Fail, Leave, Goto, TypeOK
<1>6. CASE Kill
  BY <1>6 DEF Kill
<1>7. CASE WindowPasses \/ Start
  BY <1>1, <1>7 DEF WindowPasses, Start
<1>8. QED
  BY <1>2, <1>3, <1>4, <1>5, <1>6, <1>7 DEF Next, Step

-----------------------------------------------------------------------------
(* Theorems                                                                *)

\* The strengthened invariant holds in every state of every behaviour.
THEOREM GatewayInvariance == Spec => []IInv
<1>1. IInv /\ [Next]_vars => IInv'
  BY TypeStep, AuditedStep, AnsweredStep, DurableStep, EntitledStep, QuotasStep,
     ExclusionStep, BegunStep, ChargeStep, MakingStep, GrantedStep DEF IInv
<1>2. QED
  BY InitInv, <1>1, PTL DEF Spec

\* Every variable keeps its type, however connections, failures and restarts
\* interleave.
THEOREM GatewayTypeCorrect == Spec => []TypeOK
<1>1. IInv => TypeOK
  BY DEF IInv
<1>2. QED
  BY GatewayInvariance, <1>1, PTL

\* do_POST stores nothing that the audit directory does not announce.
THEOREM NothingUnaudited == Spec => []EffectsAreAudited
<1>1. IInv => EffectsAreAudited
  BY DEF IInv
<1>2. QED
  BY GatewayInvariance, <1>1, PTL

\* No acknowledged creation loses its owner, not by a kill and a restart either.
THEOREM OwnershipSurvives == Spec => []AnsweredIsOwned
<1>1. IInv => AnsweredIsOwned
  BY DEF IInv
<1>2. QED
  BY GatewayInvariance, <1>1, PTL

\* _owned_resources never says more than the audit directory would after a
\* restart.
THEOREM OwnershipRecorded == Spec => []OwnershipIsDurable
<1>1. IInv => OwnershipIsDurable
  BY DEF IInv
<1>2. QED
  BY GatewayInvariance, <1>1, PTL

\* What authorize allowed a reader is allowed when the answer is made.
THEOREM AuthorizationLasts == Spec => []ReadsStayEntitled
<1>1. IInv => ReadsStayEntitled
  BY DEF IInv
<1>2. QED
  BY GatewayInvariance, <1>1, PTL

\* The process quotas hold in every window, for any number of connections.
THEOREM QuotasAlwaysHold == Spec => []QuotasHold
<1>1. IInv => QuotasHold
  BY DEF IInv
<1>2. QED
  BY GatewayInvariance, <1>1, PTL
=============================================================================
