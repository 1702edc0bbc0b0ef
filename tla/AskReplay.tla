------------------------------ MODULE AskReplay ------------------------------
(***************************************************************************)
(* webui/runtime_query.py, webui/runtime_replay.py and                     *)
(* storage/replay_store.py: several processes answer one question, again   *)
(* and again.  ask queries ORACLE, creates a run and appends to its log;   *)
(* replay_execute classifies an earlier run, asks its question anew, and   *)
(* writes a report, a replay record and a link in the new run's log.       *)
(*                                                                         *)
(* A run's log is the one RunLog promises: an append is one step.  Reports *)
(* and replay records are content-addressed files written whole, so each   *)
(* is its own identity.  A run is the number of its creation: no two runs  *)
(* of one question are created in the same microsecond.  The question and  *)
(* its ORACLE settings, searches, NEXUS mode and privacy class are carried *)
(* along unread.  Snapshot 0 is no Collection; a call runs in a process of *)
(* some configuration, which lasts as long as the process.                 *)
(***************************************************************************)
EXTENDS OracleLedger, FiniteSetsExt

CONSTANTS Askers, Replayers,  \* threads of CONTROL's processes, by what they call
          Configs,    \* configurations a replay may run in: [nexus, roster]
          Requests,   \* what is asked: [config, mode, members, snapshot]
          Newest,     \* no snapshot is named
          NoRoster,   \* no Council members
          Histories,  \* what there may be at first: [ledger, runs, log]
          Events,     \* the events ORACLE may append
          Cached,     \* responses kept elsewhere, true or not
          Live,       \* NEXUS's sessions are ones it cannot replay
          Sampled,    \* bound: runs that may get a model state
          MaxAsked,   \* bound: no new question is asked past this many runs
          MaxRuns, MaxHeads, MaxLedger  \* bounds

VARIABLES ledger,    \* ORACLE's file
          head,      \* the Collection's head snapshot
          readable,  \* the runs' Collection and Files can be read
          runs,      \* run records, in the order of creation
          log,       \* the events of each run
          reports, replays,  \* the replay store's files
          pc,        \* what each client does next
          call       \* its call: the request, the answers it holds, the replay

stored == <<reports, replays>>
world == <<ledger, head, readable>>
vars == <<world, runs, log, stored, pc, call>>

Clients == Askers \cup Replayers
Modes == {"evidence_only", "council"}
Rosters == {request.members : request \in Requests} \cup
           {config.roster : config \in Configs \cup {r.config : r \in Requests}} \cup {NoRoster}
NoCall == [kind |-> "none"]

Init ==
  /\ \E old \in Histories : ledger = old.ledger /\ runs = old.runs /\ log = old.log
  /\ head = 1 /\ readable = TRUE
  /\ reports = {} /\ replays = {}
  /\ pc = [c \in Clients |-> "idle"]
  /\ call = [c \in Clients |-> NoCall]

Goto(c, from, to) == pc[c] = from /\ pc' = [pc EXCEPT ![c] = to]

\* A return, an exception or a kill: whatever was appended stays.
End(c) ==
  /\ pc' = [pc EXCEPT ![c] = "idle"]
  /\ call' = [call EXCEPT ![c] = NoCall]

Fail(c) ==
  /\ pc[c] # "idle"
  /\ End(c)
  /\ UNCHANGED <<world, runs, log, stored>>

AppendEvent(run, event) == log' = [log EXCEPT ![run] = Append(@, event)]

\* _latest_payload: the last event of a kind in a run's log.
Entries(run, kind) == {i \in DOMAIN log[run] : log[run][i].kind = kind}
Has(run, kind) == Entries(run, kind) # {}
Latest(run, kind) == log[run][Max(Entries(run, kind))]

-----------------------------------------------------------------------------
(* The world outside the calls                                             *)

\* ORACLE numbers its lines; the rest of what it writes the adapter checks.
OracleAppends ==
  /\ Len(ledger) < MaxLedger
  /\ \E event \in Events :
       /\ event.sequence = Len(ledger)
       /\ ledger' = Append(ledger, event)
  /\ UNCHANGED <<head, readable, runs, log, stored, pc, call>>

\* A line that made the ledger invalid is taken back.
OracleRepairs ==
  /\ ledger # <<>> /\ ~Verified(ledger)
  /\ ledger' = SubSeq(ledger, 1, Len(ledger) - 1)
  /\ UNCHANGED <<head, readable, runs, log, stored, pc, call>>

NewSnapshot ==
  /\ head < MaxHeads /\ head' = head + 1
  /\ UNCHANGED <<ledger, readable, runs, log, stored, pc, call>>

Lose ==
  /\ readable /\ readable' = FALSE
  /\ UNCHANGED <<ledger, head, runs, log, stored, pc, call>>

\* Any client may append to a run: here one model state to the runs of Sampled.
RecordModelState ==
  /\ \E run \in DOMAIN runs \cap Sampled :
       /\ ~Has(run, "model_state")
       /\ AppendEvent(run, [kind |-> "model_state", unseeded |-> TRUE])
  /\ UNCHANGED <<world, runs, stored, pc, call>>

-----------------------------------------------------------------------------
(* ask                                                                     *)

\* Of the configuration only a Council reads NEXUS and the members.
Asking(config, mode, members, snapshot, replay) ==
  [kind |-> "ask", mode |-> mode, snapshot |-> snapshot,
   nexus |-> mode = "council" /\ config.nexus,
   members |-> IF mode # "council" THEN NoRoster
               ELSE IF members # NoRoster THEN members ELSE config.roster,
   answer |-> Unavailable, run |-> 0, replay |-> replay]

\* ask up to its query: the Collection's head unless a snapshot is named.
Ask(c) ==
  /\ c \in Askers /\ Len(runs) < MaxAsked
  /\ Goto(c, "idle", "query")
  /\ \E request \in Requests :
       LET snapshot == IF request.snapshot = Newest THEN head ELSE request.snapshot IN
         /\ snapshot \in 0 .. head
         /\ snapshot # 0 => readable
         /\ call' = [call EXCEPT ![c] =
              Asking(request.config, request.mode, request.members, snapshot, {})]
  /\ UNCHANGED <<world, runs, log, stored>>

\* _query_oracle: an unreadable or invalid ledger, or no ORACLE, is an answer.
QueryOracle(c) ==
  /\ Goto(c, "query", "create")
  /\ \E answer \in {Unavailable} \cup IF Verified(ledger) THEN {Response(ledger)} ELSE {} :
       call' = [call EXCEPT ![c].answer = answer]
  /\ UNCHANGED <<world, runs, log, stored>>

\* A state that cites no event is unknown.
CreateRun(c) ==
  /\ Goto(c, "create", "basis")
  /\ Len(runs) < MaxRuns
  /\ LET answer == call[c].answer IN
       runs' = Append(runs,
         [mode |-> call[c].mode, snapshot |-> call[c].snapshot, replayability |-> "R3",
          refs |-> answer.refs,
          state |-> IF answer.refs = {} THEN "unknown" ELSE answer.state])
  /\ log' = Append(log, <<>>)
  /\ call' = [call EXCEPT ![c].run = Len(runs')]
  /\ UNCHANGED <<world, stored>>

\* _record_replay_basis: what the run was asked with.
RecordBasis(c) ==
  /\ Goto(c, "basis", "evidence")
  /\ AppendEvent(call[c].run,
       [kind |-> "basis", members |-> call[c].members,
        complete |-> \/ call[c].mode # "council"
                     \/ call[c].members # NoRoster
                     \/ ~call[c].nexus])
  /\ UNCHANGED <<world, runs, stored, call>>

RecordEvidence(c) ==
  /\ Goto(c, "evidence", IF call[c].mode = "council" THEN "council" ELSE "asked")
  /\ AppendEvent(call[c].run,
       [kind |-> "evidence", available |-> call[c].answer.available,
        state |-> call[c].answer.state, refs |-> call[c].answer.refs])
  /\ UNCHANGED <<world, runs, stored, call>>

NoCouncil == [kind |-> "response", roster |-> NoRoster, live |-> FALSE]

\* _run_council refuses a Council without members, after the run was stored.
\* NEXUS's failures are answers; a session is NexusCouncil's, which appends a
\* receipt, that no replay reads, and a response.
CouncilRefused(c) ==
  /\ pc[c] = "council"
  /\ call[c].nexus /\ call[c].members = NoRoster
  /\ End(c)
  /\ UNCHANGED <<world, runs, log, stored>>

CouncilResponds(c) ==
  /\ Goto(c, "council", "asked")
  /\ call[c].nexus /\ call[c].members # NoRoster
  /\ \E live \in Live :
       AppendEvent(call[c].run,
         [kind |-> "response", roster |-> call[c].members, live |-> live])
  /\ UNCHANGED <<world, runs, stored, call>>

CouncilUnavailable(c) ==
  /\ Goto(c, "council", "asked")
  /\ call[c].nexus => call[c].members # NoRoster
  /\ AppendEvent(call[c].run, NoCouncil)
  /\ UNCHANGED <<world, runs, stored, call>>

\* ask returns, to its caller or to replay_execute.
Asked(c) ==
  /\ pc[c] = "asked"
  /\ IF call[c].replay = {} THEN End(c)
     ELSE pc' = [pc EXCEPT ![c] = "compare"] /\ UNCHANGED call
  /\ UNCHANGED <<world, runs, log, stored>>

-----------------------------------------------------------------------------
(* replay_classify                                                         *)

\* _basis_for_run: a run without a basis is taken for one made before Phase 7.
Basis(run) ==
  IF Has(run, "basis") THEN Latest(run, "basis")
  ELSE [kind |-> "legacy", members |-> NoRoster, complete |-> FALSE]

\* The Council's last response: its seats' identities, without their profiles.
Seated(run) ==
  Has(run, "response") /\ Latest(run, "response").roster # NoRoster

ChangedSeats(run, config) ==
  LET Ids(roster) == IF roster = NoRoster THEN {} ELSE roster.ids
  IN  Ids(Basis(run).members) # Ids(config.roster)

\* A Council whose descriptors were not recorded counts as changed.
CouncilChanged(run, config) ==
  /\ runs[run].mode = "council"
  /\ IF Basis(run).complete THEN Basis(run).members # config.roster ELSE Seated(run)

Unseeded(run) == Has(run, "model_state")
LiveSession(run) == Has(run, "response") /\ Latest(run, "response").live

Incomplete(run) == Basis(run).kind = "legacy" \/ ~Basis(run).complete

Label(run, config) ==
  IF runs[run].replayability = "R0" THEN "inspection_only"
  ELSE IF runs[run].snapshot # 0 /\ ~readable THEN "unavailable_original_context"
  ELSE IF runs[run].mode = "evidence_only"
    THEN IF Incomplete(run) THEN "legacy_current_evidence_rerun"
         ELSE "current_evidence_rerun"
  ELSE IF ~config.nexus THEN "evidence_refresh_only"
  ELSE IF config.roster = NoRoster THEN "council_configuration_unavailable"
  ELSE IF CouncilChanged(run, config) THEN "changed_configuration_rerun"
  ELSE IF Unseeded(run) \/ LiveSession(run) THEN "live_stochastic_rerun"
  ELSE IF Incomplete(run) THEN "legacy_declared_input_reexecution"
  ELSE "declared_input_reexecution"

\* Of the rest of the payload, whose hash is the classification's identity, only
\* whether the original's members were recorded is kept.
Classification(run, config) ==
  [label |-> Label(run, config), complete |-> Basis(run).complete]

CannotExecute == {"inspection_only", "unavailable_original_context",
                  "evidence_refresh_only", "council_configuration_unavailable"}

-----------------------------------------------------------------------------
(* replay_execute                                                          *)

\* The classification, and what the caller allows.
Replay(c) ==
  /\ c \in Replayers /\ Len(runs) < MaxRuns
  /\ Goto(c, "idle", "replay")
  /\ \E config \in Configs, run \in DOMAIN runs, allowed \in BOOLEAN :
       LET class == Classification(run, config) IN
         /\ class.label \notin CannotExecute
         /\ CouncilChanged(run, config) => allowed
         /\ call' = [call EXCEPT ![c] =
              [kind |-> "replay", config |-> config, run |-> run,
               class |-> class, allowed |-> allowed]]
  /\ UNCHANGED <<world, runs, log, stored>>

\* A replay that is not executable, or not allowed, writes nothing.
ReplayRefused(c) ==
  /\ c \in Replayers /\ pc[c] = "idle"
  /\ \E config \in Configs, run \in DOMAIN runs :
       \/ Label(run, config) \in CannotExecute
       \/ CouncilChanged(run, config)
  /\ UNCHANGED vars

HeadSnapshot(run) == IF runs[run].snapshot = 0 THEN 0 ELSE head

SnapshotOf(run) == runs[run].snapshot

\* _run_integrity of the original, then ask with its snapshot and the members
\* configured now; ask refuses a Collection that is gone by then.
Reask(c) ==
  /\ pc[c] = "replay"
  /\ LET original == call[c].run IN
       IF SnapshotOf(original) # 0 /\ ~readable THEN End(c)
       ELSE
         /\ pc' = [pc EXCEPT ![c] = "query"]
         /\ call' = [call EXCEPT ![c] =
              Asking(@.config, runs[original].mode, @.config.roster, SnapshotOf(original),
                {[original |-> original, class |-> @.class, allowed |-> @.allowed,
                  before |-> log[original]]})]
  /\ UNCHANGED <<world, runs, log, stored>>

\* A replay whose original was appended to meanwhile raises.
Compare(c) ==
  /\ pc[c] = "compare"
  /\ \E replay \in call[c].replay :
       IF log[replay.original] = replay.before
         THEN pc' = [pc EXCEPT ![c] = "report"] /\ UNCHANGED call
         ELSE End(c)
  /\ UNCHANGED <<world, runs, log, stored>>

\* _evidence_refs: the references of the last evidence event.
EvidenceRefs(run) ==
  IF Has(run, "evidence") THEN Latest(run, "evidence").refs ELSE {}

Report(replay, run) ==
  [original |-> replay.original, run |-> run, class |-> replay.class,
   added |-> EvidenceRefs(run) \ EvidenceRefs(replay.original),
   removed |-> EvidenceRefs(replay.original) \ EvidenceRefs(run),
   sameMembers |-> Basis(run).members = Basis(replay.original).members]

\* _require_run of both runs, which must differ.
ReportValid(report) ==
  /\ report.original # report.run
  /\ {report.original, report.run} \subseteq DOMAIN runs

WriteReport(c) ==
  /\ Goto(c, "report", "record")
  /\ \E replay \in call[c].replay :
       /\ ReportValid(Report(replay, call[c].run))
       /\ reports' = reports \cup {Report(replay, call[c].run)}
       /\ call' = [call EXCEPT ![c].replay =
            {[report |-> Report(replay, call[c].run), allowed |-> replay.allowed]}]
  /\ UNCHANGED <<world, runs, log, replays>>

ReplayRecord(replay) ==
  [report |-> replay.report, original |-> replay.report.original,
   run |-> replay.report.run, class |-> replay.report.class, allowed |-> replay.allowed,
   kept |-> runs[replay.report.original].snapshot = runs[replay.report.run].snapshot]

\* _validate_replay: the record and its report, read again, tell the same.
RecordValid(record) ==
  /\ record.report \in reports
  /\ ReportValid(record.report)
  /\ record.report.original = record.original /\ record.report.run = record.run
  /\ record.report.class = record.class

WriteReplay(c) ==
  /\ Goto(c, "record", "link")
  /\ \E replay \in call[c].replay :
       /\ RecordValid(ReplayRecord(replay))
       /\ replays' = replays \cup {ReplayRecord(replay)}
  /\ UNCHANGED <<world, runs, log, reports, call>>

Link(c) ==
  /\ pc[c] = "link"
  /\ \E replay \in call[c].replay :
       AppendEvent(call[c].run,
         [kind |-> "link", original |-> replay.report.original, report |-> replay.report])
  /\ End(c)
  /\ UNCHANGED <<world, runs, stored>>

-----------------------------------------------------------------------------
(* research_timeline                                                       *)

\* list_replays reads every record with its report, or raises.
TimelineReads == \A record \in replays : RecordValid(record)

ReplaysMaking(run) == {record \in replays : record.run = run}

-----------------------------------------------------------------------------
AskStep(c) ==
  \/ Ask(c) \/ QueryOracle(c) \/ CreateRun(c) \/ RecordBasis(c) \/ RecordEvidence(c)
  \/ CouncilRefused(c) \/ CouncilResponds(c) \/ CouncilUnavailable(c) \/ Asked(c)
ReplayStep(c) ==
  \/ Replay(c) \/ ReplayRefused(c) \/ Reask(c) \/ Compare(c)
  \/ WriteReport(c) \/ WriteReplay(c) \/ Link(c)

Next ==
  \/ OracleAppends \/ OracleRepairs \/ NewSnapshot \/ Lose \/ RecordModelState
  \/ \E c \in Clients : AskStep(c) \/ ReplayStep(c) \/ Fail(c)

Spec == Init /\ [][Next]_vars
-----------------------------------------------------------------------------
(* Types, and what may be there at first                                   *)

OracleStates == {"known", "conflict", "unknown"}
Ids == {event.id : event \in Events}
Answers == [available : BOOLEAN, state : OracleStates, refs : SUBSET Ids,
            head : {event.hash : event \in Events} \cup {"none"}]

Labels == CannotExecute \cup
  {"legacy_current_evidence_rerun", "current_evidence_rerun", "changed_configuration_rerun",
   "live_stochastic_rerun", "legacy_declared_input_reexecution", "declared_input_reexecution"}
Classes == [label : Labels, complete : BOOLEAN]

Run == [mode : Modes, snapshot : 0 .. MaxHeads, replayability : {"R0", "R3"},
        refs : SUBSET Ids, state : OracleStates]
Reports == [original : Nat, run : Nat, class : Classes, added : SUBSET Ids,
            removed : SUBSET Ids, sameMembers : BOOLEAN]
Records == [report : Reports, original : Nat, run : Nat, class : Classes,
            allowed : BOOLEAN, kept : BOOLEAN]

Unlinked ==
  [kind : {"basis"}, members : Rosters, complete : BOOLEAN]
  \cup [kind : {"evidence"}, available : BOOLEAN, state : OracleStates, refs : SUBSET Ids]
  \cup [kind : {"response"}, roster : Rosters, live : BOOLEAN]
  \cup [kind : {"model_state"}, unseeded : BOOLEAN]
LogEvents == Unlinked \cup [kind : {"link"}, original : Nat, report : Reports]

\* A replay before its report is written, and after.
Intents == [original : Nat, class : Classes, allowed : BOOLEAN, before : Seq(LogEvents)]
Written == [report : Reports, allowed : BOOLEAN]

AskCalls == [kind : {"ask"}, mode : Modes, snapshot : 0 .. MaxHeads, nexus : BOOLEAN,
             members : Rosters, answer : Answers, run : Nat,
             replay : SUBSET (Intents \cup Written)]
ReplayCalls == [kind : {"replay"}, config : Configs, run : Nat, class : Classes,
                allowed : BOOLEAN]
Steps == {"idle", "query", "create", "basis", "evidence", "council", "asked",
          "replay", "compare", "report", "record", "link"}

\* What these lines said of the subject at some time: nothing contradicted by a
\* conflict, nothing known that was corrected, and every event that there was.
Said(lines, state, refs) ==
  \E n \in DOMAIN lines :
    LET seen == Relevant(SubSeq(lines, 1, n)) IN
      /\ Verified(SubSeq(lines, 1, n))
      /\ refs = {event.id : event \in seen}
      /\ (state = "conflict") <=> \E event \in seen : event.state = "conflict"
      /\ state = "known" =>
           /\ \E event \in seen : event.state = "observed"
           /\ \A event \in seen : event.kind \notin {"correction", "supersession"}

\* A run, and the evidence in its log, tell what the lines said or know nothing.
RunRests(lines, run, events) ==
  /\ \/ run.state = "unknown" /\ run.refs = {}
     \/ Said(lines, run.state, run.refs)
  /\ \A i \in DOMAIN events : events[i].kind = "evidence" =>
       /\ events[i].state = run.state /\ events[i].refs = run.refs
       /\ events[i].available => Said(lines, run.state, run.refs)

\* A store that ask filled, over a ledger that has grown since, and no replay.
HistoryOK(old) ==
  /\ old.ledger \in Seq(Events)
  /\ old.runs \in Seq(Run) /\ old.log \in Seq(Seq(Unlinked))
  /\ Len(old.log) = Len(old.runs)
  /\ \A run \in DOMAIN old.runs : RunRests(old.ledger, old.runs[run], old.log[run])

ASSUME AskReplayAssumption ==
  /\ \A old \in Histories : HistoryOK(old)
  /\ \A config \in Configs \cup {r.config : r \in Requests} : config.nexus \in BOOLEAN
  /\ \A request \in Requests : request.mode \in Modes
  /\ Cached \subseteq Answers /\ \A response \in Cached : response.available
  /\ Live \subseteq BOOLEAN /\ MaxHeads \in Nat \ {0}

-----------------------------------------------------------------------------
(* Properties                                                              *)

\* The type of every variable; in particular no run records a state that the
\* interaction store does not know, and every link and replay record names a
\* report that was written.
TypeOK ==
  /\ ledger \in Seq(Events)
  /\ head \in 1 .. MaxHeads /\ readable \in BOOLEAN
  /\ runs \in Seq(Run) /\ log \in Seq(Seq(LogEvents)) /\ Len(log) = Len(runs)
  /\ \A run \in DOMAIN runs : \A i \in DOMAIN log[run] :
       log[run][i].kind = "link" => log[run][i].report \in reports
  /\ reports \subseteq Reports
  /\ replays \subseteq Records /\ \A record \in replays : record.report \in reports
  /\ pc \in [Clients -> Steps]
  /\ call \in [Clients -> {NoCall} \cup AskCalls \cup ReplayCalls]
  /\ \A c \in Clients : (pc[c] = "idle") <=> (call[c] = NoCall)

\* A run that calls its question known or in conflict, or that refers to events,
\* and the evidence event in its log say what ORACLE's ledger said at one time,
\* however the ledger grew while the question was asked (query_evidence, ask); and
\* a response that persist_receipt accepts is the one the ledger gave when it ended
\* with the event the response names as its head, however much later it is persisted.
StatesRestOnTheLedger ==
  /\ \A run \in DOMAIN runs : RunRests(ledger, runs[run], log[run])
  /\ \A response \in Cached :
       CachedVerifies(response, ledger) =>
         \E n \in DOMAIN ledger : response = Response(SubSeq(ledger, 1, n))

\* A replay finds no less evidence than its original did, unless ORACLE could
\* not be read: the lists of lost evidence in its reports are then all of the
\* original's (_build_replay_report; docs/REPLAY.md, "Current evidence").
ReplaysLoseNoEvidence ==
  \A report \in reports :
    \/ report.removed = {}
    \/ report.removed = EvidenceRefs(report.original) /\ runs[report.run].refs = {}

\* A replay that its caller did not allow to change the Council asked the very
\* members its original was asked with, profiles included, when these had been
\* recorded when it was classified: they cannot change afterwards, whatever is
\* appended to the original until the report is written (replay_classify,
\* replay_execute).
UnallowedReplaysKeepTheCouncil ==
  \A record \in replays :
    ~record.allowed /\ runs[record.original].mode = "council" /\ record.class.complete
    => /\ record.report.sameMembers
       /\ Basis(record.run).members = Basis(record.original).members

\* A replay asks other members than its original recorded only if its caller
\* allowed it: docs/REPLAY.md, "A changed Council roster is never silently accepted".
\* replay_execute does not keep this: the original may record its members after
\* it was classified.
ChangedCouncilIsAllowed ==
  \A record \in replays :
    ~record.allowed /\ runs[record.original].mode = "council"
    /\ Basis(record.original).complete
    => Basis(record.run).members = Basis(record.original).members

\* The timeline can be read; it is a forest that follows the order of creation:
\* a run is the replay of one earlier run at most, in the same mode and over the
\* same snapshot, and a run that links to a report has a record of that replay
\* (replay_execute, list_replays, research_timeline).
TimelineIsAForest ==
  /\ TimelineReads
  /\ \A record \in replays :
       /\ record.original < record.run
       /\ ReplaysMaking(record.run) = {record}
       /\ runs[record.original].mode = runs[record.run].mode
       /\ record.kept
  /\ \A run \in DOMAIN runs : \A i \in DOMAIN log[run] :
       log[run][i].kind = "link" =>
         \E record \in ReplaysMaking(run) :
           record.report = log[run][i].report /\ record.original = log[run][i].original
=============================================================================
