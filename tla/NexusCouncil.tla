----------------------------- MODULE NexusCouncil -----------------------------
(***************************************************************************)
(* adapters/nexus.py: one NexusCouncilAdapter and its JSONL subprocess.    *)
(* run_council is a conversation of up to a dozen requests over a pair of  *)
(* pipes.  Each answer is the next line of the output pipe; after an error *)
(* the pipe is left as it is, and what NEXUS still writes is read as the   *)
(* answer to a later request unless the caller closes the adapter.  What a *)
(* council said is checked against the request, rendered, and stored with  *)
(* the artifacts it rests on in the run that asked.                        *)
(*                                                                         *)
(* NEXUS is not part of this repository: it may answer anything, late or   *)
(* never, but it answers in order, and an object's reference is the hash   *)
(* of the object.  Here World maps references to objects, and a reply to   *)
(* world.inspect is a claimed reference and the reference of its body.     *)
(* An object, an answer or an argument is clean if it has no credential,   *)
(* hidden-reasoning or governance field.  Lines are within their size      *)
(* limits: a longer one fails the step like any other unfit answer.        *)
(***************************************************************************)
EXTENDS CouncilRecord

CONSTANTS World,       \* what NEXUS has committed: reference -> object
          Forged,      \* references whose bodies NEXUS may send for others
          RunAnswers,  \* what NEXUS may answer to council.run: name -> answer
          Requests,    \* the arguments of run_council
          Long,        \* those whose council.run line is longer than the pipe
          Room,        \* how many of the other requests the pipe holds unread
          Runs,        \* the runs of the store
          NoRun,       \* control_run_id is None
          Target,      \* mode, question and evidence state of each run
          NoRef,
          MaxCalls,    \* bound: how many councils the adapter is asked for
          MaxOther     \* bound: how many events others append to a run

Refs == DOMAIN World

\* The object each world.inspect of a council asks for.
Inspects == [session |-> "council_session", receipt |-> "receipt",
             epoch |-> "council_epoch_admission_receipt",
             question |-> "question", presence |-> "world_presence",
             evidence |-> "evidence_snapshot"]
Verifies == {"verify", "epochVerify"}
Requesting == {"health", "operations", "run"} \cup Verifies \cup DOMAIN Inspects

ASSUME CouncilAssumption ==
  /\ \A ref \in Refs : \E step \in DOMAIN Inspects : World[ref].type = Inspects[step]
  /\ Forged \subseteq Refs /\ NoRef \notin Refs
  /\ \A q \in Requests : q.run \in Runs \cup {NoRun}
  /\ NoRun \notin Runs
  /\ \A a \in DOMAIN RunAnswers :
       /\ RunAnswers[a].session \in Refs /\ RunAnswers[a].receipt \in Refs
       /\ RunAnswers[a].question \in Refs /\ RunAnswers[a].presence \in Refs
       /\ RunAnswers[a].evidence \in Refs
       /\ RunAnswers[a].epoch \in Refs \cup {NoRef}
  /\ Long \subseteq Requests /\ Room \in Nat \ {0}
  /\ MaxCalls \in Nat /\ MaxOther \in Nat

VARIABLES process,   \* _process: "none", "running" or "exited"
          inbox,     \* requests NEXUS has not answered
          outbox,    \* answers in the pipe and in _stdout_buffer
          counter,   \* _counter
          pc,        \* where run_council is
          exchange,  \* request(): "none", in its "write" or its "read"
          call,      \* run_council's arguments
          got,       \* the answer run_council read at each request, without its id
          placed,    \* how many artifacts _persist_artifacts has put
          receiptAt, \* receipt_event: its place in the run
          calls,     \* history: councils asked for
          files,     \* artifacts in the store
          events,    \* the events each run gained
          returned   \* history: what run_council returned, with its arguments

transport == <<process, inbox, outbox>>
store == <<files, events>>
vars == <<transport, counter, pc, exchange, call, got, placed, receiptAt, calls,
          store, returned>>

waiting == exchange = "read"    \* request() reads its answer
writing == exchange = "write"   \* request() writes its line

Steps == {"idle", "admit", "target", "put", "receiptEvent", "responseEvent"}
         \cup Requesting
Nothing == [op |-> "none"]
NoCall == [run |-> NoRun]

TypeOK ==
  /\ process \in {"none", "running", "exited"}
  /\ \A i \in DOMAIN inbox : inbox[i].op \in Requesting
  /\ \A i \in DOMAIN outbox : outbox[i].op \in Requesting
  /\ counter \in Nat
  /\ pc \in Steps
  /\ exchange \in {"none", "write", "read"}
  /\ exchange # "none" => pc \in Requesting
  /\ call \in Requests \cup {NoCall}
  /\ DOMAIN got = Requesting
  /\ placed \in 0 .. 7 /\ receiptAt \in Nat
  /\ calls \in 0 .. MaxCalls
  /\ DOMAIN events = Runs

Init ==
  /\ process = "none" /\ inbox = <<>> /\ outbox = <<>>
  /\ counter = 0
  /\ pc = "idle" /\ exchange = "none"
  /\ call = NoCall /\ got = [step \in Requesting |-> Nothing]
  /\ placed = 0 /\ receiptAt = 0
  /\ calls = 0
  /\ files = {} /\ events = [r \in Runs |-> <<>>]
  /\ returned = {}

\* No forbidden field anywhere in the object: the three _reject_ scans.
Clean(x) == x.clean

Answer(g) == RunAnswers[g["run"].body]

\* The reference a request is about.
Wanted(step, g) ==
  CASE step = "session" -> Answer(g).session
    [] step \in {"receipt", "verify"} -> Answer(g).receipt
    [] step \in {"epoch", "epochVerify"} -> Answer(g).epoch
    [] step = "question" -> Answer(g).question
    [] step = "presence" -> Answer(g).presence
    [] step = "evidence" -> Answer(g).evidence
    [] OTHER -> NoRef

-----------------------------------------------------------------------------
(* NEXUS                                                                   *)

\* What NEXUS may say to a request: an error, or an answer of the request's
\* form.  good is FALSE for an unsupported protocol, a missing operation or a
\* failed verification; id 0 stands for an answer that names no request.
Replies(q) ==
  [op : {q.op}, id : {0, q.id}, status : {"ok"}, ref : {q.ref},
   good : IF q.op \in {"health", "operations"} \cup Verifies
            THEN BOOLEAN ELSE {TRUE},
   epochs : IF q.op = "operations" THEN BOOLEAN ELSE {FALSE},
   body : IF q.op = "run" THEN DOMAIN RunAnswers
          ELSE IF q.op \in DOMAIN Inspects THEN Forged \cup {q.ref}
          ELSE {NoRef}]
  \cup {[op |-> q.op, id |-> q.id, status |-> "error"]}

NexusAnswers ==
  /\ process = "running" /\ inbox # <<>>
  /\ \E reply \in Replies(Head(inbox)) : outbox' = Append(outbox, reply)
  /\ inbox' = Tail(inbox)
  /\ UNCHANGED <<process, counter, pc, exchange, call, got, placed, receiptAt,
                 calls, store, returned>>

NexusExits ==
  /\ process = "running"
  /\ process' = "exited" /\ inbox' = <<>>
  /\ UNCHANGED <<outbox, counter, pc, exchange, call, got, placed, receiptAt,
                 calls, store, returned>>

-----------------------------------------------------------------------------
(* The caller, and the others that append to its runs                      *)

Council(q) ==
  /\ pc = "idle" /\ calls < MaxCalls
  /\ pc' = "health" /\ call' = q
  /\ calls' = calls + 1
  /\ UNCHANGED <<transport, counter, exchange, got, placed, receiptAt, store,
                 returned>>

\* Between councils the caller may close the adapter and go on using it: the
\* next request starts another process.
Close ==
  /\ pc = "idle" /\ process # "none"
  /\ process' = "none" /\ inbox' = <<>> /\ outbox' = <<>>
  /\ UNCHANGED <<counter, pc, exchange, call, got, placed, receiptAt, calls,
                 store, returned>>

OtherEvent(r) ==
  /\ Len(SelectSeq(events[r], LAMBDA e : e.kind = "other")) < MaxOther
  /\ events' = [events EXCEPT ![r] = Append(@, [kind |-> "other"])]
  /\ UNCHANGED <<transport, counter, pc, exchange, call, got, placed, receiptAt,
                 calls, files, returned>>

LeaveListening ==
  /\ pc' = "idle" /\ UNCHANGED exchange
  /\ call' = NoCall /\ got' = [step \in Requesting |-> Nothing]
  /\ placed' = 0 /\ receiptAt' = 0

Leave ==
  /\ pc' = "idle" /\ exchange' = "none"
  /\ call' = NoCall /\ got' = [step \in Requesting |-> Nothing]
  /\ placed' = 0 /\ receiptAt' = 0

-----------------------------------------------------------------------------
(* request and _read_line                                                  *)

\* The pipe takes no more until NEXUS reads: the line is longer than the pipe,
\* or earlier requests fill it.
Full == (pc = "run" /\ call \in Long) \/ Len(inbox) >= Room

Send ==
  /\ pc \in Requesting /\ exchange = "none" /\ process # "exited"
  /\ process' = "running"
  /\ counter' = counter + 1
  /\ exchange' = "write"
  /\ UNCHANGED <<inbox, outbox, pc, call, got, placed, receiptAt, calls, store,
                 returned>>

\* poll() shows that the process is gone.
SendFails ==
  /\ pc \in Requesting /\ exchange = "none" /\ process = "exited"
  /\ counter' = counter + 1
  /\ Leave
  /\ UNCHANGED <<transport, calls, store, returned>>

Written ==
  /\ inbox' = Append(inbox, [op |-> pc, id |-> counter, ref |-> Wanted(pc, got)])
  /\ exchange' = "read"
  /\ UNCHANGED <<process, outbox, counter, pc, call, got, placed, receiptAt, calls,
                 store, returned>>

\* write() returns once the pipe holds the line.
WriteEnds ==
  /\ writing /\ process = "running" /\ ~Full
  /\ Written

\* A full pipe takes the line as NEXUS reads, which it need not do: write() has
\* no deadline.
NexusReads ==
  /\ writing /\ process = "running" /\ Full
  /\ Written

\* The pipe breaks under the write.
WriteBreaks ==
  /\ writing /\ process = "exited"
  /\ Leave
  /\ UNCHANGED <<transport, counter, calls, store, returned>>

NoLineButEnd ==
  /\ waiting /\ outbox = <<>> /\ process = "exited"
  /\ Leave
  /\ UNCHANGED <<transport, counter, calls, store, returned>>

\* The deadline passes, or the process ended before a whole line.  A request
\* that was written stays written.
NoLine ==
  /\ waiting /\ outbox = <<>>
  /\ Leave
  /\ UNCHANGED <<transport, counter, calls, store, returned>>

-----------------------------------------------------------------------------
(* What run_council checks at each answer, in g the answers so far         *)

Object(g, step) == World[g[step].body]
Session(g) == Object(g, "session")

\* _validate_world_object without the recomputed hash
ClaimedObject(step, g) ==
  /\ g[step].op \in DOMAIN Inspects
  /\ g[step].ref = Wanted(step, g)
  /\ World[g[step].body].type = Inspects[step]

\* _validate_world_object: the reply holds the object asked for, of its type.
WorldObject(step, g) ==
  /\ g[step].op \in DOMAIN Inspects
  /\ g[step].ref = Wanted(step, g) /\ g[step].body = g[step].ref
  /\ World[g[step].body].type = Inspects[step]

\* discover looks at both answers once it has read the second.
Discovered(g) ==
  /\ g["health"].op = "health" /\ g["health"].good
  /\ g["operations"].op = "operations" /\ g["operations"].good

Verified(step, g) == g[step].op = step /\ g[step].good

SessionClean(g) == Clean(Session(g))

\* _reject_hidden_reasoning and _reject_obvious_secrets, before anything is
\* rendered.
AnswersClean(g) ==
  Clean(Answer(g)) /\ Clean(Session(g)) /\ Clean(Object(g, "receipt"))

QuestionMatches(g) ==
  /\ Clean(Object(g, "question"))
  /\ Session(g).question = Answer(g).question
  /\ Object(g, "question").text = call.question
  /\ Answer(g).mode = call.mode /\ Session(g).mode = call.mode
  /\ Session(g).presence = Answer(g).presence

\* What the checks on the session alone ask of it: the session objects they
\* accept, and the consensus_outcome of each.
Sound == {ref \in Refs :
            /\ World[ref].type = "council_session"
            /\ RosterIsOrdinary(World[ref])
            /\ PolicyIsValid(World[ref])
            /\ PhasesFollowRoster(World[ref])
            /\ BallotsOpenCommitments(World[ref])
            /\ ResultFollowsBallots(World[ref])}
OutcomeOf == [ref \in Sound |-> Outcome(World[ref])]

PresenceMatches(g) ==
  /\ Clean(Object(g, "presence"))
  /\ Object(g, "presence").mode = call.mode
  /\ Object(g, "presence").question = Answer(g).question
  /\ Object(g, "presence").members = Members(Session(g))
  /\ g["session"].body \in Sound
  /\ Answer(g).result = Session(g).result
  /\ Session(g).result.state = call.state
  /\ Session(g).evidence = Answer(g).evidence

EvidenceMatches(g) ==
  /\ Clean(Object(g, "evidence"))
  /\ Object(g, "evidence").question = Answer(g).question
  /\ Object(g, "evidence").included = call.evidence
  /\ Object(g, "evidence").state = call.state

ReceiptMatches(g) ==
  /\ Object(g, "receipt").result = Answer(g).session
  /\ Object(g, "receipt").inputs
       = <<Answer(g).question, Answer(g).evidence, Answer(g).presence>>
  /\ Verified("verify", g)
  /\ Object(g, "receipt").replayable = Answer(g).replayable
  /\ Session(g).replayable = Answer(g).replayable

\* The chair and the citizens add no vote, and the epoch admitted this session.
GovernanceMatches(g) ==
  /\ Answer(g).chair \in {<<>>, Members(Session(g))}
  /\ Answer(g).addedVotes = 0
  /\ Answer(g).epoch # NoRef =>
       /\ Verified("epochVerify", g) /\ Clean(Object(g, "epoch"))
       /\ Object(g, "epoch").session = Answer(g).session

Checks(step, g) ==
  CASE step = "operations" -> Discovered(g)
    [] step = "run" -> g["run"].op = "run"
    [] step = "verify" -> IF Answer(g).epoch = NoRef THEN AnswersClean(g)
                          ELSE g["operations"].epochs
    [] step = "epochVerify" -> AnswersClean(g)
    [] step = "question" -> WorldObject(step, g) /\ QuestionMatches(g)
    [] step = "presence" -> WorldObject(step, g) /\ PresenceMatches(g)
    [] step = "evidence" -> WorldObject(step, g) /\ EvidenceMatches(g)
                            /\ ReceiptMatches(g) /\ GovernanceMatches(g)
    [] step \in {"session", "receipt", "epoch"} -> WorldObject(step, g)
    [] OTHER -> TRUE

\* _request accepts the line, and run_council what it says.
Accepts(reply) ==
  /\ reply.id \in {0, counter} /\ reply.status = "ok"
  /\ Checks(pc, [got EXCEPT ![pc] = reply])

Following(step, g) ==
  CASE step = "health" -> "operations"
    [] step = "operations" -> "admit"
    [] step = "run" -> "session"
    [] step = "session" -> "receipt"
    [] step = "receipt" -> "verify"
    [] step = "verify" -> IF Answer(g).epoch = NoRef THEN "question" ELSE "epoch"
    [] step = "epoch" -> "epochVerify"
    [] step = "epochVerify" -> "question"
    [] step = "question" -> "presence"
    [] step = "presence" -> "evidence"
    [] step = "evidence" -> "target"

Noted == [got EXCEPT ![pc] = [Head(outbox) EXCEPT !.id = 0]]

Read ==
  /\ waiting /\ outbox # <<>> /\ Accepts(Head(outbox))
  /\ outbox' = Tail(outbox)
  /\ got' = Noted
  /\ pc' = Following(pc, Noted) /\ exchange' = "none"
  /\ UNCHANGED <<process, inbox, counter, call, placed, receiptAt, calls, store,
                 returned>>

Reject ==
  /\ waiting /\ outbox # <<>> /\ ~Accepts(Head(outbox))
  /\ outbox' = Tail(outbox)
  /\ Leave
  /\ UNCHANGED <<process, inbox, counter, calls, store, returned>>

\* After discovery the arguments are validated: seats and evidence are distinct,
\* and no field of a seat would govern NEXUS.
Admissible(q) ==
  /\ Clean(q)
  /\ q.members # <<>>
  /\ \A i, j \in DOMAIN q.members : q.members[i] = q.members[j] => i = j
  /\ \A i, j \in DOMAIN q.evidence : q.evidence[i] = q.evidence[j] => i = j

Admit ==
  /\ pc = "admit"
  /\ IF Admissible(call)
       THEN pc' = "run" /\ UNCHANGED <<exchange, call, got, placed, receiptAt>>
       ELSE Leave
  /\ UNCHANGED <<transport, counter, calls, store, returned>>

-----------------------------------------------------------------------------
(* _persist_artifacts                                                      *)

Render == [session |-> Answer(got).session, receipt |-> Answer(got).receipt,
           outcome |-> OutcomeOf[Answer(got).session]]
Returned == returned' = returned \cup {[request |-> call, render |-> Render]}

TargetMatches ==
  call.run # NoRun =>
    Target[call.run] = [mode |-> "council", question |-> call.question,
                        state |-> call.state]

\* Without a control root the render is only returned.
ReachTarget ==
  /\ pc = "target"
  /\ IF call.kept /\ TargetMatches
       THEN pc' = "put" /\ UNCHANGED <<exchange, call, got, placed, receiptAt>>
       ELSE Leave
  /\ IF call.kept THEN UNCHANGED returned ELSE Returned
  /\ UNCHANGED <<transport, counter, calls, store>>

\* In the order in which they are put.
Artifacts ==
  <<"council-run-response", "council-session", "council-receipt",
    "council-receipt-verification", "council-render">>
  \o IF Answer(got).epoch = NoRef THEN <<>>
     ELSE <<"epoch-admission-receipt", "epoch-admission-verification">>

FilesOf(g) == {<<Artifacts[i], g["run"].body>> : i \in DOMAIN Artifacts}

Put ==
  /\ pc = "put" /\ placed < Len(Artifacts)
  /\ placed' = placed + 1
  /\ files' = files \cup {<<Artifacts[placed + 1], got["run"].body>>}
  /\ UNCHANGED <<transport, counter, pc, exchange, call, got, receiptAt, calls,
                 events, returned>>

AllPut ==
  /\ pc = "put" /\ placed = Len(Artifacts)
  /\ IF call.run = NoRun
       THEN Returned /\ Leave
       ELSE /\ pc' = "receiptEvent"
            /\ UNCHANGED <<exchange, call, got, placed, receiptAt, returned>>
  /\ UNCHANGED <<transport, counter, calls, store>>

ReceiptEvent ==
  /\ pc = "receiptEvent"
  /\ events' = [events EXCEPT ![call.run] = Append(@,
                  [kind |-> "receipt", render |-> Render,
                   files |-> FilesOf(got)])]
  /\ receiptAt' = Len(events[call.run]) + 1
  /\ pc' = "responseEvent"
  /\ UNCHANGED <<transport, counter, exchange, call, got, placed, calls, files,
                 returned>>

AppendResponse(parent) ==
  events' = [events EXCEPT ![call.run] = Append(@,
               [kind |-> "response", render |-> Render, parent |-> parent,
                files |-> FilesOf(got)])]

ResponseAfterLast ==
  /\ pc = "responseEvent"
  /\ AppendResponse(Len(events[call.run]))
  /\ Returned /\ Leave
  /\ UNCHANGED <<transport, counter, calls, files>>

ResponseEvent ==
  /\ pc = "responseEvent"
  /\ AppendResponse(receiptAt)
  /\ Returned /\ Leave
  /\ UNCHANGED <<transport, counter, calls, files>>

\* A put or an append raises, or the CONTROL process dies: what was stored stays.
StoreFails ==
  /\ pc \in {"put", "receiptEvent", "responseEvent"}
  /\ Leave
  /\ UNCHANGED <<transport, counter, calls, store, returned>>

-----------------------------------------------------------------------------
Adapter ==
  \/ Send \/ SendFails \/ WriteEnds \/ WriteBreaks \/ NoLine \/ Read \/ Reject
  \/ Admit
  \/ ReachTarget \/ Put \/ AllPut \/ ReceiptEvent \/ ResponseEvent \/ StoreFails

Next ==
  \/ NexusAnswers \/ NexusReads \/ NexusExits
  \/ \E q \in Requests : Council(q)
  \/ Close
  \/ \E r \in Runs : OtherEvent(r)
  \/ Adapter

\* run_council runs in its caller's thread, a write into a pipe with room
\* returns, and select() has a deadline; NEXUS owes nothing, not even to read.
Fairness == WF_vars(Adapter)

Spec == Init /\ [][Next]_vars /\ Fairness

-----------------------------------------------------------------------------
(* Properties                                                              *)

Responses(r) == {i \in DOMAIN events[r] : events[r][i].kind = "response"}

\* Everything run_council has rendered, with what was asked: what it returned
\* and what runs hold.
Rendered ==
  {[question |-> x.request.question, state |-> x.request.state,
    render |-> x.render] : x \in returned}
  \cup UNION {{[question |-> Target[r].question, state |-> Target[r].state,
                render |-> events[r][i].render] : i \in Responses(r)} : r \in Runs}

\* A render answers the question its caller or its run asked, from evidence in
\* the state admitted, however late, foreign or unnamed the answers that NEXUS
\* gave: _read_line, _validate_world_object and _validate_and_render.
RenderAnswersItsRequest ==
  \A x \in Rendered :
    LET s == World[x.render.session] IN
      /\ World[s.question].text = x.question
      /\ World[s.evidence].state = x.state
      /\ World[x.render.receipt].result = x.render.session

\* A rendered outcome has the support its policy demands, counted over members
\* and not over ballots, and a member votes once: _validate_and_render.
OutcomeHasItsMajority ==
  \A x \in Rendered :
    LET s == World[x.render.session]
        seats == {s.roster[i].member : i \in DOMAIN s.roster}
        For(c) == {m \in seats : \E i \in DOMAIN s.commitments :
                     s.commitments[i].member = m /\ s.commitments[i].choice = c}
    IN x.render.outcome # NoConsensus =>
         /\ Cardinality(For(x.render.outcome)) * s.denominator
              >= Cardinality(seats) * s.numerator
         /\ \A c \in Choices(s) \ {x.render.outcome} :
              Cardinality(For(c)) < Cardinality(For(x.render.outcome))

\* A response in a run follows the receipt event of its own council, and every
\* artifact it names is in the store, whoever else appends and whatever step
\* failed: _persist_artifacts.
ResponseRestsOnReceipt ==
  \A r \in Runs : \A i \in Responses(r) :
    LET e == events[r][i] IN
      /\ e.parent < i
      /\ events[r][e.parent].kind = "receipt"
      /\ events[r][e.parent].render = e.render
      /\ e.files \subseteq files

\* No artifact in the store holds a credential or hidden reasoning, whichever
\* of the answers brought it: the scans of _validate_and_render precede every
\* put of _persist_artifacts.
ArtifactsAreClean ==
  \A a \in files :
    /\ RunAnswers[a[2]].clean
    /\ World[RunAnswers[a[2]].session].clean
    /\ World[RunAnswers[a[2]].receipt].clean
    /\ a[1] \in {"epoch-admission-receipt", "epoch-admission-verification"} =>
         World[RunAnswers[a[2]].epoch].clean

\* run_council returns or raises, even if NEXUS never answers, unless NEXUS one
\* day stops reading while a request fills its pipe: _read_line has a deadline,
\* the write of request() before it has none.
CouncilEnds == <>[](writing /\ Full) \/ (pc # "idle" ~> pc = "idle")
=============================================================================
