---------------------------- MODULE RemoteGateway ----------------------------
(***************************************************************************)
(* api/remote_http.py over api/dispatcher.py: the remote gateway.  Each    *)
(* accepted connection is a thread.  A request is audited, authorized      *)
(* against what its principal owns, dispatched under one lock within the   *)
(* quotas of the current window, and audited again; what it created is     *)
(* then its principal's.  Audit records are files; ownership and quotas    *)
(* are memory, and a restart rebuilds ownership from the audit records.    *)
(*                                                                         *)
(* Requests are well-formed and their token names a principal: all others  *)
(* are answered before the first audit record and change nothing.  A       *)
(* creation names no older record.  An audit record holds a time and so is *)
(* a new file each time.                                                   *)
(***************************************************************************)
EXTENDS Naturals

CONSTANTS Threads,       \* the MAX_CONNECTIONS connection slots
          Principals,
          Records,       \* Files, Collections and runs
          Privacy,       \* PRIVACY_RANK of each record; a run's is 1 or 2
          Ceiling,       \* rank of each principal's max_privacy_class
          Configured,    \* the records each principal's record_access names
          Allowed,       \* the kinds of operation each principal may call
          MaxRequests,   \* MAX_REQUESTS_PER_PROCESS; the caller's limits are
          MaxMutations,  \* the same numbers and so never bind before these
          MaxAuditRecords, \* MAX_AUDIT_RECORDS
          Free,          \* nobody holds the dispatch lock
          MaxFiles       \* bound: no request starts past this many audit files

Kinds == {"create", "read"}
Request == [principal : Principals, kind : Kinds, record : Records]

ASSUME GatewayAssumption ==
  /\ Privacy \in [Records -> Nat]
  /\ Ceiling \in [Principals -> Nat]
  /\ Configured \in [Principals -> SUBSET Records]
  /\ Allowed \in [Principals -> SUBSET Kinds]
  /\ MaxRequests \in Nat /\ MaxMutations \in Nat
  /\ MaxAuditRecords \in Nat /\ MaxFiles \in Nat
  /\ Free \notin Threads

VARIABLES stored,    \* records in the store
          begun,     \* requests with a "started" audit record
          granted,   \* <<principal, record>> of the "completed", "ok" ones
          files,     \* how many audit files there are
          up,        \* the gateway runs
          owned,     \* _owned_resources
          lock,      \* dispatch_lock
          elapsed,   \* QUOTA_WINDOW_SECONDS have passed in this window
          requests,  \* _process_quota.requests
          mutations, \* _process_quota.mutations
          pc,        \* where each connection's handler is
          request,   \* what it handles
          answered   \* history: <<principal, record>> acknowledged as created

disk == <<stored, begun, granted, files>>
quota == <<elapsed, requests, mutations>>
memory == <<up, owned, lock, quota>>
vars == <<disk, memory, pc, request, answered>>

NoRequest == [kind |-> "none"]
Dispatching == {"renew", "check", "charge", "execute"}
Steps == {"idle", "authorize", "dispatch", "completed", "own", "answer", "error"}
         \cup Dispatching

TypeOK ==
  /\ stored \subseteq Records
  /\ begun \subseteq Request
  /\ granted \subseteq Principals \X Records
  /\ files \in Nat
  /\ up \in BOOLEAN
  /\ owned \in [Principals -> SUBSET Records]
  /\ lock \in Threads \cup {Free}
  /\ elapsed \in BOOLEAN /\ requests \in Nat /\ mutations \in Nat
  /\ pc \in [Threads -> Steps]
  /\ request \in [Threads -> Request \cup {NoRequest}]
  /\ answered \subseteq Principals \X Records

\* _load_audit_ownership
Loaded == [p \in Principals |-> {r \in Records : <<p, r>> \in granted}]

Init ==
  /\ stored = {} /\ begun = {} /\ granted = {} /\ files = 0
  /\ up = TRUE /\ owned = Loaded
  /\ lock = Free
  /\ elapsed = FALSE /\ requests = 0 /\ mutations = 0
  /\ pc = [t \in Threads |-> "idle"]
  /\ request = [t \in Threads |-> NoRequest]
  /\ answered = {}

Goto(t, from, to) == pc[t] = from /\ pc' = [pc EXCEPT ![t] = to]

\* The handler returns; its slot is free again.
Leave(t) ==
  /\ pc' = [pc EXCEPT ![t] = "idle"]
  /\ request' = [request EXCEPT ![t] = NoRequest]

-----------------------------------------------------------------------------
(* do_POST up to the dispatch                                              *)

BeginUnaudited(t, q) ==
  /\ up /\ files < MaxFiles
  /\ Goto(t, "idle", "authorize")
  /\ request' = [request EXCEPT ![t] = q]
  /\ UNCHANGED <<disk, memory, answered>>

Begin(t, q) ==
  /\ up /\ files < MaxFiles
  /\ Goto(t, "idle", "authorize")
  /\ request' = [request EXCEPT ![t] = q]
  /\ begun' = begun \cup {q}
  /\ files' = files + 1
  /\ UNCHANGED <<stored, granted, memory, answered>>

OwnedOrConfigured(p, r) == r \in Configured[p] \cup owned[p]

AuthorizedUnowned(q) ==
  /\ q.kind \in Allowed[q.principal]
  /\ Privacy[q.record] <= Ceiling[q.principal]
  /\ q.kind = "read" => q.record \in stored

\* The operation is allowed and authorize raises nothing.  PUBLIC records are
\* shared; a record must exist to be read.
Authorized(q) ==
  /\ q.kind \in Allowed[q.principal]
  /\ Privacy[q.record] <= Ceiling[q.principal]
  /\ q.kind = "read" =>
       /\ q.record \in stored
       /\ Privacy[q.record] = 0 \/ OwnedOrConfigured(q.principal, q.record)

Deny(t) ==
  /\ pc[t] = "authorize"
  /\ ~Authorized(request[t])
  /\ files' = files + 1
  /\ Leave(t)
  /\ UNCHANGED <<stored, begun, granted, memory, answered>>

Permit(t) ==
  /\ Goto(t, "authorize", "dispatch")
  /\ Authorized(request[t])
  /\ UNCHANGED <<disk, memory, request, answered>>

-----------------------------------------------------------------------------
(* dispatch_local: the window, AgentAPIDispatcher._charge, the operation   *)

TakeLockAnyway(t) ==
  /\ Goto(t, "dispatch", "renew")
  /\ lock' = t
  /\ UNCHANGED <<disk, up, owned, quota, request, answered>>

TakeLock(t) ==
  /\ Goto(t, "dispatch", "renew")
  /\ lock = Free /\ lock' = t
  /\ UNCHANGED <<disk, up, owned, quota, request, answered>>

RenewByRefund(t) ==
  /\ Goto(t, "renew", "check")
  /\ elapsed' = FALSE
  /\ requests' = IF elapsed THEN requests - MaxRequests ELSE requests
  /\ mutations' = IF elapsed THEN mutations - MaxMutations ELSE mutations
  /\ UNCHANGED <<disk, up, owned, lock, request, answered>>

\* A window that is over gets a new dispatcher with new quotas.
Renew(t) ==
  /\ Goto(t, "renew", "check")
  /\ elapsed' = FALSE
  /\ requests' = IF elapsed THEN 0 ELSE requests
  /\ mutations' = IF elapsed THEN 0 ELSE mutations
  /\ UNCHANGED <<disk, up, owned, lock, request, answered>>

Affordable(q) ==
  /\ requests < MaxRequests
  /\ q.kind = "create" => mutations < MaxMutations

ChargeRefused(t) ==
  /\ Goto(t, "check", "error")
  /\ ~Affordable(request[t])
  /\ lock' = Free
  /\ UNCHANGED <<disk, up, owned, quota, request, answered>>

ChargeChecked(t) ==
  /\ Goto(t, "check", "charge")
  /\ Affordable(request[t])
  /\ UNCHANGED <<disk, memory, request, answered>>

Charge(t) ==
  /\ Goto(t, "charge", "execute")
  /\ requests' = requests + 1
  /\ mutations' = IF request[t].kind = "create" THEN mutations + 1 ELSE mutations
  /\ UNCHANGED <<disk, up, owned, lock, elapsed, request, answered>>

StoredBy(q) == IF q.kind = "create" THEN stored \cup {q.record} ELSE stored

Execute(t) ==
  /\ Goto(t, "execute", "completed")
  /\ lock' = Free
  /\ stored' = StoredBy(request[t])
  /\ UNCHANGED <<begun, granted, files, up, owned, quota, request, answered>>

\* handle returns an error; of an operation with several writes some remain.
ExecuteFails(t) ==
  /\ Goto(t, "execute", "error")
  /\ lock' = Free
  /\ stored' \in {stored, StoredBy(request[t])}
  /\ UNCHANGED <<begun, granted, files, up, owned, quota, request, answered>>

-----------------------------------------------------------------------------
(* do_POST after the dispatch                                              *)

Made(t) == <<request[t].principal, request[t].record>>

Creates(t) == request[t].kind = "create"

CompleteUnwritten(t) ==
  /\ Goto(t, "completed", IF Creates(t) THEN "own" ELSE "answer")
  /\ UNCHANGED <<disk, memory, request, answered>>

\* The "completed", "ok" record names what was created.
Complete(t) ==
  /\ Goto(t, "completed", IF Creates(t) THEN "own" ELSE "answer")
  /\ files' = files + 1
  /\ granted' = IF Creates(t) THEN granted \cup {Made(t)} ELSE granted
  /\ UNCHANGED <<stored, begun, memory, request, answered>>

OwnNothing(t) ==
  /\ Goto(t, "own", "answer")
  /\ UNCHANGED <<disk, memory, request, answered>>

Own(t) ==
  /\ Goto(t, "own", "answer")
  /\ owned' = [owned EXCEPT ![request[t].principal] = @ \cup {request[t].record}]
  /\ UNCHANGED <<disk, up, lock, quota, request, answered>>

Answer(t) ==
  /\ pc[t] = "answer"
  /\ answered' = IF Creates(t) THEN answered \cup {Made(t)} ELSE answered
  /\ Leave(t)
  /\ UNCHANGED <<disk, memory>>

AnswerError(t) ==
  /\ pc[t] = "error"
  /\ files' = files + 1
  /\ Leave(t)
  /\ UNCHANGED <<stored, begun, granted, memory, answered>>

-----------------------------------------------------------------------------
(* Time and failures                                                       *)

WindowPasses ==
  /\ up /\ ~elapsed /\ elapsed' = TRUE
  /\ UNCHANGED <<disk, up, owned, lock, requests, mutations, pc, request, answered>>

FailHolding(t) ==
  /\ pc[t] # "idle"
  /\ Leave(t)
  /\ UNCHANGED <<disk, memory, answered>>

\* An audit record cannot be written, the socket times out, or an exception
\* nobody catches ends the thread; the with block gives the lock back.
Fail(t) ==
  /\ pc[t] # "idle"
  /\ Leave(t)
  /\ lock' = IF lock = t THEN Free ELSE lock
  /\ UNCHANGED <<disk, up, owned, quota, answered>>

\* The process ends, its daemon threads with it.
Kill ==
  /\ up /\ up' = FALSE
  /\ owned' = [p \in Principals |-> {}]
  /\ lock' = Free
  /\ pc' = [t \in Threads |-> "idle"]
  /\ request' = [t \in Threads |-> NoRequest]
  /\ UNCHANGED <<disk, quota, answered>>

\* build_server
Start ==
  /\ ~up /\ up' = TRUE
  /\ files <= MaxAuditRecords
  /\ owned' = Loaded
  /\ elapsed' = FALSE /\ requests' = 0 /\ mutations' = 0
  /\ UNCHANGED <<disk, lock, pc, request, answered>>

\* A handler that has begun goes on by itself.
Handle(t) ==
  \/ Deny(t) \/ Permit(t)
  \/ TakeLock(t) \/ Renew(t) \/ ChargeRefused(t) \/ ChargeChecked(t)
  \/ Charge(t) \/ Execute(t) \/ ExecuteFails(t)
  \/ Complete(t) \/ Own(t) \/ Answer(t) \/ AnswerError(t)

Next ==
  \/ \E t \in Threads :
       (\E q \in Request : Begin(t, q)) \/ Handle(t) \/ Fail(t)
  \/ WindowPasses \/ Kill \/ Start

\* Threads are scheduled, and writes and operations return (a council whose NEXUS
\* does not read its pipe need not: NexusCouncil).  Nothing has to fail,
\* nobody has to send a request, and the lock is not first come first served.
Fairness == \A t \in Threads : WF_vars(Handle(t))

Spec == Init /\ [][Next]_vars /\ Fairness

-----------------------------------------------------------------------------
(* Properties                                                              *)

\* Nothing enters the store through the gateway unless an audit record of the
\* request that made it was on disk first, whichever call failed afterwards.
EffectsAreAudited ==
  \A r \in stored : \E q \in begun : q.kind = "create" /\ q.record = r

\* A principal told that it created a record owns the record from then on: after
\* any failure, kill and restart, whenever the gateway runs.
AnsweredIsOwned == up => \A m \in answered : m[2] \in owned[m[1]]

\* The gateway grants no ownership that a restart would take away: every owned
\* record exists and the audit directory says who made it.
OwnershipIsDurable ==
  \A p \in Principals : \A r \in owned[p] : r \in stored /\ <<p, r>> \in granted

\* From the check of a read to its answer, however long it waits for the dispatch
\* lock, the record exists and the configuration or the audit directory entitles
\* the principal to it.
ReadsStayEntitled ==
  \A t \in Threads :
    LET q == request[t] IN
      pc[t] \notin {"idle", "authorize"} /\ q.kind = "read" =>
        /\ q.record \in stored
        /\ Privacy[q.record] <= Ceiling[q.principal]
        /\ \/ Privacy[q.record] = 0
           \/ q.record \in Configured[q.principal]
           \/ <<q.principal, q.record>> \in granted

\* No window serves more requests or mutations than the process quotas allow,
\* however the handlers' checks and charges interleave.
QuotasHold == requests <= MaxRequests /\ mutations <= MaxMutations

\* Every request that was begun ends, answered or not: no handler waits for the
\* dispatch lock for ever (requests stop coming at MaxFiles).
RequestsEnd == \A t \in Threads : pc[t] # "idle" ~> pc[t] = "idle"

\* "created_resource_ownership_recoverable": true
\* (ai/remote-gateway-contract.json:43).  build_server refuses a directory with
\* more than MAX_AUDIT_RECORDS files, and nothing stops a running gateway there.
OwnershipRecoverable == ~up => files <= MaxAuditRecords
-----------------------------------------------------------------------------
(* The inductive invariant of the properties                               *)

Exclusion == \A t \in Threads : pc[t] \in Dispatching <=> lock = t

\* What a handler works on was begun while the gateway ran, and it runs still.
BegunInv ==
  \A t \in Threads : pc[t] # "idle" => up /\ request[t] \in begun

ChargeInv == \A t \in Threads : pc[t] = "charge" => Affordable(request[t])

\* How far the handler of a creation has made it durable and owned.
MakingInv ==
  \A t \in Threads :
    /\ pc[t] = "own" => Creates(t)
    /\ Creates(t) =>
         /\ pc[t] \in {"completed", "own", "answer"} => request[t].record \in stored
         /\ pc[t] \in {"own", "answer"} => Made(t) \in granted
         /\ pc[t] = "answer" => request[t].record \in owned[request[t].principal]

GrantedInv == answered \subseteq granted /\ \A m \in granted : m[2] \in stored

IInv ==
  /\ TypeOK /\ EffectsAreAudited /\ AnsweredIsOwned /\ OwnershipIsDurable
  /\ ReadsStayEntitled /\ QuotasHold
  /\ Exclusion /\ BegunInv /\ ChargeInv /\ MakingInv /\ GrantedInv
=============================================================================
