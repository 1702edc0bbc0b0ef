---------------------------- MODULE AskReplayProofs ----------------------------
(***************************************************************************)
(* Proofs about AskReplay for every number of askers, replayers, runs and  *)
(* ledger lines, every configuration and every store that ask has filled   *)
(* before (AskReplayAssumption).                                           *)
(***************************************************************************)
EXTENDS AskReplay, SequenceTheorems, WellFoundedInduction, TLAPS

\* How far an ask has come.
Reported == {"record", "link"}
Witnessed == Reported \cup {"council", "asked", "compare", "report"}
Based == Witnessed \cup {"evidence"}
Created == Based \cup {"basis"}
Answered == Created \cup {"create"}
InAsk == Answered \cup {"query"}

\* The answer a client holds is of this ledger, or there was none.
AnswerRests(answer) ==
  /\ answer.refs = {} => answer.state = "unknown"
  /\ \/ answer = Unavailable
     \/ answer.available /\ Said(ledger, answer.state, answer.refs)

\* The members the original was asked with are to be asked, or were.
KeepsCouncil(original, class, allowed, members) ==
  ~allowed /\ class.complete /\ runs[original].mode = "council" =>
    Has(original, "basis") /\ Basis(original).members = members

KeptCouncil(report, allowed) ==
  ~allowed /\ report.class.complete /\ runs[report.original].mode = "council" =>
    /\ report.sameMembers
    /\ Has(report.original, "basis") /\ Has(report.run, "basis")
    /\ Basis(report.run).members = Basis(report.original).members

\* A replay before its report is written.
IntentOK(c, replay) ==
  LET original == replay.original IN
    /\ replay \in Intents /\ original \in DOMAIN runs
    /\ runs[original].mode = call[c].mode /\ runs[original].snapshot = call[c].snapshot
    /\ KeepsCouncil(original, replay.class, replay.allowed, call[c].members)
    /\ pc[c] \in Answered =>
         call[c].answer = Unavailable \/ runs[original].refs \subseteq call[c].answer.refs
    /\ pc[c] \in Created => original < call[c].run

\* A replay whose report is written, and whose record may be.
WrittenOK(c, replay) ==
  /\ replay \in Written /\ call[c].replay = {replay}
  /\ replay.report \in reports /\ replay.report.run = call[c].run
  /\ KeptCouncil(replay.report, replay.allowed)
  /\ pc[c] = "link" => \E record \in replays : record.report = replay.report

RunOfCall(c) ==
  LET run == call[c].run IN
    /\ run \in DOMAIN runs
    /\ runs[run].mode = call[c].mode /\ runs[run].snapshot = call[c].snapshot
    /\ runs[run].refs = call[c].answer.refs /\ runs[run].state = call[c].answer.state
    /\ (pc[c] = "basis") <=> ~Has(run, "basis")
    /\ pc[c] # "basis" => Basis(run).members = call[c].members
    /\ pc[c] \in Witnessed => Has(run, "evidence")
    /\ pc[c] # "link" => ReplaysMaking(run) = {}

ClientInv(c) ==
  /\ pc[c] = "replay" =>
       /\ call[c] \in ReplayCalls /\ call[c].run \in DOMAIN runs
       /\ KeepsCouncil(call[c].run, call[c].class, call[c].allowed, call[c].config.roster)
  /\ pc[c] \in InAsk =>
       /\ call[c] \in AskCalls
       /\ pc[c] \in Answered => AnswerRests(call[c].answer)
       /\ pc[c] \in Created => RunOfCall(c)
       /\ \A replay \in call[c].replay :
            IF pc[c] \in Reported THEN WrittenOK(c, replay) ELSE IntentOK(c, replay)

\* No two calls make the same run.
RunsAreApart ==
  \A c, d \in Clients :
    pc[c] \in Created /\ pc[d] \in Created /\ call[c].run = call[d].run => c = d

RunsRest == \A run \in DOMAIN runs : RunRests(ledger, runs[run], log[run])

ReportOK(report) ==
  /\ report.original \in DOMAIN runs /\ report.run \in DOMAIN runs
  /\ report.original < report.run
  /\ runs[report.original].mode = runs[report.run].mode
  /\ runs[report.original].snapshot = runs[report.run].snapshot
  /\ \/ report.removed = {}
     \/ /\ Has(report.original, "evidence")
        /\ report.removed = EvidenceRefs(report.original) /\ runs[report.run].refs = {}

RecordOK(record) ==
  /\ record.report \in reports
  /\ record.original = record.report.original /\ record.run = record.report.run
  /\ record.class = record.report.class /\ record.kept
  /\ KeptCouncil(record.report, record.allowed)
  /\ ReplaysMaking(record.run) = {record}

LinkOK(run, link) ==
  \E record \in replays :
    record.run = run /\ record.report = link.report /\ record.original = link.original

LinksOK ==
  \A run \in DOMAIN runs : \A i \in DOMAIN log[run] :
    log[run][i].kind = "link" => LinkOK(run, log[run][i])

IInv ==
  /\ TypeOK /\ RunsRest /\ RunsAreApart /\ LinksOK
  /\ \A c \in Clients : ClientInv(c)
  /\ \A report \in reports : ReportOK(report)
  /\ \A record \in replays : RecordOK(record)
-----------------------------------------------------------------------------
(* Logs                                                                    *)

\* A nonempty set of places has a last one.
LEMMA MaxOf ==
  ASSUME NEW n \in Nat, NEW S, S \subseteq 1 .. n, S # {}
  PROVE  Max(S) \in S /\ \A i \in S : i <= Max(S)
<1> DEFINE T == {m \in Nat : \A i \in S : i <= m}
<1>1. n \in T /\ T \subseteq Nat
  OBVIOUS
<1>2. PICK m \in T : \A k \in T : <<k, m>> \notin OpToRel(<, Nat)
  <2> HIDE DEF T
  <2>1. QED
    BY <1>1, NatLessThanWellFounded, WFMin
<1>3. m \in S
  <2> SUFFICES ASSUME m \notin S PROVE FALSE
    OBVIOUS
  <2>1. PICK i \in S : TRUE
    OBVIOUS
  <2>2. m - 1 \in T
    BY <2>1
  <2>3. <<m - 1, m>> \in OpToRel(<, Nat)
    BY <2>2 DEF OpToRel
  <2>4. QED
    BY <1>2, <2>2, <2>3
<1>4. \A i \in S : m >= i
  OBVIOUS
<1>5. QED
  BY <1>3, <1>4 DEF Max

LEMMA LatestIs ==
  ASSUME TypeOK, NEW run \in DOMAIN runs, NEW kind, Has(run, kind)
  PROVE  \E i \in DOMAIN log[run] :
           log[run][i].kind = kind /\ Latest(run, kind) = log[run][i]
<1>1. log[run] \in Seq(LogEvents)
  BY DEF TypeOK
<1>2. Len(log[run]) \in Nat /\ DOMAIN log[run] = 1 .. Len(log[run])
  BY <1>1
<1>3. Entries(run, kind) \subseteq 1 .. Len(log[run]) /\ Entries(run, kind) # {}
  BY <1>2 DEF Entries, Has
<1>4. Max(Entries(run, kind)) \in Entries(run, kind)
  BY <1>2, <1>3, MaxOf
<1>5. QED
  BY <1>4 DEF Latest, Entries

\* All evidence of a run refers to what the run refers to.
LEMMA EvidenceOf ==
  ASSUME TypeOK, RunsRest, NEW run \in DOMAIN runs, Has(run, "evidence")
  PROVE  EvidenceRefs(run) = runs[run].refs
BY LatestIs DEF RunsRest, RunRests, EvidenceRefs

LEMMA BasisType ==
  ASSUME TypeOK, NEW run \in DOMAIN runs
  PROVE  /\ Basis(run).complete \in BOOLEAN
         /\ Basis(run).complete => Has(run, "basis")
<1>1. CASE Has(run, "basis")
  <2>1. PICK i \in DOMAIN log[run] :
          log[run][i].kind = "basis" /\ Basis(run) = log[run][i]
    BY <1>1, LatestIs DEF Basis
  <2>2. log[run][i] \in LogEvents
    BY DEF TypeOK
  <2>3. QED
    BY <1>1, <2>1, <2>2 DEF LogEvents, Unlinked
<1>2. CASE ~Has(run, "basis")
  BY <1>2 DEF Basis
<1>3. QED
  BY <1>1, <1>2

\* What an append does to the kinds of entries.
LEMMA LogGrows ==
  ASSUME TypeOK, NEW run \in DOMAIN runs, NEW event \in LogEvents, AppendEvent(run, event)
  PROVE  /\ log' \in Seq(Seq(LogEvents)) /\ Len(log') = Len(log)
         /\ \A r \in DOMAIN runs :
              IF r = run
                THEN /\ DOMAIN log'[r] = 1 .. Len(log[r]) + 1
                     /\ DOMAIN log[r] = 1 .. Len(log[r]) /\ Len(log[r]) \in Nat
                     /\ \A i \in DOMAIN log[r] : log'[r][i] = log[r][i]
                     /\ log'[r][Len(log[r]) + 1] = event
                ELSE log'[r] = log[r]
<1>1. run \in DOMAIN log /\ \A r \in DOMAIN runs : r \in DOMAIN log
  BY DEF TypeOK
<1>2. log[run] \in Seq(LogEvents) /\ log \in Seq(Seq(LogEvents))
  BY <1>1 DEF TypeOK
<1>3. /\ Append(log[run], event) \in Seq(LogEvents)
      /\ Len(Append(log[run], event)) = Len(log[run]) + 1
      /\ \A i \in 1 .. Len(log[run]) : Append(log[run], event)[i] = log[run][i]
      /\ Append(log[run], event)[Len(log[run]) + 1] = event
  BY <1>2, AppendProperties
<1>4. log' = [log EXCEPT ![run] = Append(log[run], event)]
  BY DEF AppendEvent
<1>5. log' \in Seq(Seq(LogEvents)) /\ Len(log') = Len(log)
  BY <1>1, <1>2, <1>3, <1>4, ExceptSeq
<1>6. QED
  BY <1>1, <1>2, <1>3, <1>4, <1>5

LEMMA KindsAfterAppend ==
  ASSUME TypeOK, NEW run \in DOMAIN runs, NEW event \in LogEvents, AppendEvent(run, event),
         NEW r \in DOMAIN runs, NEW kind
  PROVE  /\ r # run \/ kind # event.kind =>
              /\ Has(r, kind)' = Has(r, kind)
              /\ Has(r, kind) => Latest(r, kind)' = Latest(r, kind)
         /\ r = run /\ kind = event.kind =>
              Has(r, kind)' /\ (~Has(r, kind) => Latest(r, kind)' = event)
<1>1. CASE r # run
  <2>1. log'[r] = log[r]
    BY <1>1, LogGrows
  <2>2. Entries(r, kind)' = Entries(r, kind)
    BY <2>1 DEF Entries
  <2>3. QED
    BY <1>1, <2>1, <2>2 DEF Has, Latest
<1>2. CASE r = run /\ kind # event.kind
  <2>1. Entries(r, kind)' = Entries(r, kind)
    BY <1>2, LogGrows DEF Entries
  <2>2. Has(r, kind)' = Has(r, kind)
    BY <2>1 DEF Has
  <2>3. CASE Has(r, kind)
    <3>1. Max(Entries(r, kind)) \in Entries(r, kind)
      <4>1. Entries(r, kind) \subseteq 1 .. Len(log[r]) /\ Len(log[r]) \in Nat
        BY <1>2, LogGrows DEF Entries
      <4>2. QED
        BY <2>3, <4>1, MaxOf DEF Has
    <3>2. Max(Entries(r, kind)) \in DOMAIN log[r]
      BY <3>1 DEF Entries
    <3>3. QED
      BY <1>2, <2>1, <2>2, <3>2, LogGrows DEF Latest
  <2>4. QED
    BY <1>2, <2>2, <2>3
<1>3. CASE r = run /\ kind = event.kind
  <2> DEFINE n == Len(log[r]) + 1
  <2>1. n \in Nat /\ n \in Entries(r, kind)' /\ log'[r][n] = event
    BY <1>3, LogGrows DEF Entries
  <2>2. ASSUME ~Has(r, kind) PROVE Entries(r, kind)' = {n}
    <3>1. \A i \in DOMAIN log'[r] : i = n \/ i \in DOMAIN log[r]
      BY <1>3, LogGrows
    <3>2. \A i \in DOMAIN log[r] : log'[r][i].kind # kind
      BY <1>3, <2>2, LogGrows DEF Entries, Has
    <3>3. QED
      BY <2>1, <3>1, <3>2 DEF Entries
  <2>3. Max({n}) = n
    BY <2>1 DEF Max
  <2> HIDE DEF n
  <2>4. Has(r, kind)'
    BY <2>1 DEF Has
  <2>5. ASSUME ~Has(r, kind) PROVE Latest(r, kind)' = event
    <3>1. Latest(r, kind)' = log'[r][Max(Entries(r, kind)')]
      BY DEF Latest
    <3>2. QED
      BY <2>1, <2>2, <2>3, <2>5, <3>1
  <2>6. QED
    BY <1>3, <2>4, <2>5
<1>4. QED
  BY <1>1, <1>2, <1>3

-----------------------------------------------------------------------------
(* The ledger                                                              *)

LEMMA Prefix ==
  ASSUME NEW S, NEW lines \in Seq(S), NEW n \in 0 .. Len(lines)
  PROVE  /\ SubSeq(lines, 1, n) \in Seq(S) /\ Len(SubSeq(lines, 1, n)) = n
         /\ \A i \in 1 .. n : SubSeq(lines, 1, n)[i] = lines[i]
<1>1. \A i \in 1 .. n : lines[i] \in S
  OBVIOUS
<1>2. /\ SubSeq(lines, 1, n) \in Seq(S)
      /\ Len(SubSeq(lines, 1, n)) = IF 1 <= n THEN n - 1 + 1 ELSE 0
      /\ \A i \in 1 .. n - 1 + 1 : SubSeq(lines, 1, n)[i] = lines[1 + i - 1]
  BY <1>1, SubSeqProperties
<1>3. QED
  BY <1>2

\* What was said stays said while the verified prefixes stay.
LEMMA SaidStays ==
  ASSUME NEW lines, NEW more,
         \A n \in DOMAIN lines : Verified(SubSeq(lines, 1, n)) =>
           n \in DOMAIN more /\ SubSeq(more, 1, n) = SubSeq(lines, 1, n),
         NEW state, NEW refs, Said(lines, state, refs)
  PROVE  Said(more, state, refs)
BY DEF Said

LEMMA SaidAfterAppend ==
  ASSUME NEW lines \in Seq(Events), NEW event \in Events, NEW state, NEW refs,
         Said(lines, state, refs)
  PROVE  Said(Append(lines, event), state, refs)
<1> DEFINE more == Append(lines, event)
<1>1. /\ more \in Seq(Events) /\ Len(more) = Len(lines) + 1
      /\ \A i \in 1 .. Len(lines) : more[i] = lines[i]
  BY AppendProperties
<1> HIDE DEF more
<1>2. ASSUME NEW n \in DOMAIN lines
      PROVE  n \in DOMAIN more /\ SubSeq(more, 1, n) = SubSeq(lines, 1, n)
  <2>1. n \in 0 .. Len(lines) /\ n \in 0 .. Len(more) /\ n \in 1 .. Len(more)
    BY <1>1
  <2>2. /\ SubSeq(lines, 1, n) \in Seq(Events) /\ Len(SubSeq(lines, 1, n)) = n
        /\ \A i \in 1 .. n : SubSeq(lines, 1, n)[i] = lines[i]
    BY <2>1, Prefix
  <2>3. /\ SubSeq(more, 1, n) \in Seq(Events) /\ Len(SubSeq(more, 1, n)) = n
        /\ \A i \in 1 .. n : SubSeq(more, 1, n)[i] = more[i]
    BY <1>1, <2>1, Prefix
  <2>4. \A i \in 1 .. n : SubSeq(more, 1, n)[i] = SubSeq(lines, 1, n)[i]
    BY <1>1, <2>2, <2>3
  <2>5. SubSeq(more, 1, n) = SubSeq(lines, 1, n)
    BY <2>2, <2>3, <2>4, SeqEqual
  <2>6. QED
    BY <1>1, <2>1, <2>5
<1>3. Said(more, state, refs)
  BY <1>2, SaidStays
<1>4. QED
  BY <1>3 DEF more

LEMMA SaidAfterRepair ==
  ASSUME NEW lines \in Seq(Events), lines # <<>>, ~Verified(lines), NEW state, NEW refs,
         Said(lines, state, refs)
  PROVE  Said(SubSeq(lines, 1, Len(lines) - 1), state, refs)
<1> DEFINE k == Len(lines) - 1
           less == SubSeq(lines, 1, k)
<1>1. k \in 0 .. Len(lines) /\ Len(lines) = k + 1 /\ k \in Nat
  BY EmptySeq
<1>2. less \in Seq(Events) /\ Len(less) = k /\ \A i \in 1 .. k : less[i] = lines[i]
  BY <1>1, Prefix
<1> HIDE DEF less
<1>3. ASSUME NEW n \in DOMAIN lines, Verified(SubSeq(lines, 1, n))
      PROVE  n \in DOMAIN less /\ SubSeq(less, 1, n) = SubSeq(lines, 1, n)
  <2>1. n # Len(lines)
    BY <1>3, SubSeqFull
  <2>2. n \in 1 .. k
    BY <1>1, <2>1
  <2> HIDE DEF k
  <2>3. n \in 0 .. Len(lines) /\ n \in 0 .. Len(less)
    BY <1>1, <1>2, <2>2
  <2>4. /\ SubSeq(lines, 1, n) \in Seq(Events) /\ Len(SubSeq(lines, 1, n)) = n
        /\ \A i \in 1 .. n : SubSeq(lines, 1, n)[i] = lines[i]
    BY <2>3, Prefix
  <2>5. /\ SubSeq(less, 1, n) \in Seq(Events) /\ Len(SubSeq(less, 1, n)) = n
        /\ \A i \in 1 .. n : SubSeq(less, 1, n)[i] = less[i]
    BY <1>2, <2>3, Prefix
  <2>6. \A i \in 1 .. n : SubSeq(less, 1, n)[i] = SubSeq(lines, 1, n)[i]
    BY <1>1, <1>2, <2>2, <2>4, <2>5
  <2>7. SubSeq(less, 1, n) = SubSeq(lines, 1, n)
    BY <2>4, <2>5, <2>6, SeqEqual
  <2>8. QED
    BY <1>2, <2>2, <2>7
<1>4. Said(less, state, refs)
  BY <1>3, SaidStays
<1>5. QED
  BY <1>4 DEF less, k

\* What a verified ledger answers is said by it, and refers to all that any
\* prefix of it does.
LEMMA ResponseIsSaid ==
  ASSUME NEW lines \in Seq(Events), Verified(lines)
  PROVE  /\ Response(lines) \in Answers /\ Response(lines).available
         /\ Response(lines).refs = {} => Response(lines).state = "unknown"
         /\ Said(lines, Response(lines).state, Response(lines).refs)
         /\ \A state, refs : Said(lines, state, refs) => refs \subseteq Response(lines).refs
<1> DEFINE n == Len(lines)
           seen == Relevant(lines)
<1>1. n \in DOMAIN lines /\ SubSeq(lines, 1, n) = lines /\ lines[n] \in Events
  BY SubSeqFull, EmptySeq DEF Verified
<1>2. seen \subseteq Events
  BY DEF Relevant
<1>3. /\ Response(lines).available = TRUE /\ Response(lines).state = ResponseState(seen)
      /\ Response(lines).refs = Refs(seen) /\ Response(lines).head = lines[n].hash
      /\ Response(lines) = [available |-> TRUE, state |-> ResponseState(seen),
                            refs |-> Refs(seen), head |-> lines[n].hash]
  BY DEF Response
<1> HIDE DEF n, seen
<1>4. ResponseState(seen) \in OracleStates /\ Refs(seen) \in SUBSET Ids
  BY <1>2 DEF ResponseState, OracleStates, Refs, Ids
<1>5. Response(lines) \in Answers
  BY <1>1, <1>3, <1>4 DEF Answers
<1>6. Refs(seen) = {} => ResponseState(seen) = "unknown"
  BY DEF Refs, ResponseState, States
<1>7. /\ ResponseState(seen) = "conflict" <=> \E event \in seen : event.state = "conflict"
      /\ ResponseState(seen) = "known" =>
           /\ \E event \in seen : event.state = "observed"
           /\ \A event \in seen : event.kind \notin {"correction", "supersession"}
  BY DEF ResponseState, States
<1>8. Said(lines, ResponseState(seen), Refs(seen))
  <2>1. Relevant(SubSeq(lines, 1, n)) = seen
    BY <1>1 DEF seen
  <2>2. QED
    BY <1>1, <1>7, <2>1 DEF Said, Refs
<1>9. ASSUME NEW state, NEW refs, Said(lines, state, refs) PROVE refs \subseteq Refs(seen)
  <2>1. PICK m \in DOMAIN lines : refs = {event.id : event \in Relevant(SubSeq(lines, 1, m))}
    BY <1>9 DEF Said
  <2>2. m \in 0 .. Len(lines)
    OBVIOUS
  <2>3. /\ SubSeq(lines, 1, m) \in Seq(Events) /\ Len(SubSeq(lines, 1, m)) = m
        /\ \A i \in 1 .. m : SubSeq(lines, 1, m)[i] = lines[i]
    BY <2>2, Prefix
  <2>4. Relevant(SubSeq(lines, 1, m)) \subseteq seen
    BY <2>2, <2>3 DEF Relevant, seen
  <2>5. QED
    BY <2>1, <2>4 DEF Refs
<1>10. QED
  BY <1>3, <1>5, <1>6, <1>8, <1>9

\* persist_receipt accepts no response the ledger did not give.
LEMMA CachedIsResponse ==
  ASSUME NEW lines \in Seq(Events), NEW response \in Answers, response.available,
         CachedVerifies(response, lines)
  PROVE  \E n \in DOMAIN lines : response = Response(SubSeq(lines, 1, n))
<1>1. PICK n \in DOMAIN lines :
        /\ lines[n].hash = response.head
        /\ response.refs = Refs(Relevant(SubSeq(lines, 1, n)))
        /\ response.state = ResponseState(Relevant(SubSeq(lines, 1, n)))
  BY DEF CachedVerifies
<1>2. n \in 0 .. Len(lines) /\ n \in 1 .. n
  OBVIOUS
<1>3. Len(SubSeq(lines, 1, n)) = n /\ SubSeq(lines, 1, n)[n] = lines[n]
  BY <1>2, Prefix
<1>4. response = [available |-> TRUE, state |-> response.state,
                  refs |-> response.refs, head |-> response.head]
  BY DEF Answers
<1>5. QED
  BY <1>1, <1>3, <1>4 DEF Response

-----------------------------------------------------------------------------
(* Types                                                                   *)

LEMMA InitOK == Init => IInv
<1> SUFFICES ASSUME Init PROVE IInv
  OBVIOUS
<1>1. PICK old \in Histories : ledger = old.ledger /\ runs = old.runs /\ log = old.log
  BY DEF Init
<1>2. HistoryOK(old)
  BY AskReplayAssumption
<1>3. log \in Seq(Seq(LogEvents))
  <2>1. Unlinked \subseteq LogEvents
    BY DEF LogEvents
  <2>2. Seq(Unlinked) \subseteq Seq(LogEvents)
    BY <2>1, SeqMonotonic
  <2>3. QED
    BY <1>1, <1>2, <2>2, SeqMonotonic DEF HistoryOK
<1>4. \A run \in DOMAIN runs : \A i \in DOMAIN log[run] : log[run][i].kind # "link"
  <2> SUFFICES ASSUME NEW run \in DOMAIN runs, NEW i \in DOMAIN log[run]
               PROVE  log[run][i].kind # "link"
    OBVIOUS
  <2>1. log[run] \in Seq(Unlinked)
    BY <1>1, <1>2 DEF HistoryOK
  <2>2. log[run][i] \in Unlinked
    BY <2>1
  <2>3. QED
    BY <2>2 DEF Unlinked
<1>5. TypeOK
  BY <1>1, <1>2, <1>3, <1>4, AskReplayAssumption
    DEF TypeOK, Init, HistoryOK, Steps, NoCall
<1>6. RunsRest
  BY <1>1, <1>2 DEF RunsRest, HistoryOK
<1>7. QED
  BY <1>4, <1>5, <1>6
    DEF IInv, Init, LinksOK, RunsAreApart, ClientInv, InAsk, Answered, Created, Based,
        Witnessed, Reported

\* A client's step and what its call becomes.
LEMMA GotoType ==
  ASSUME TypeOK, NEW c \in Clients, NEW from \in Steps \ {"idle"}, NEW to \in Steps \ {"idle"},
         pc[c] = from, pc' = [pc EXCEPT ![c] = to],
         \/ UNCHANGED call
         \/ \E new \in AskCalls \cup ReplayCalls : call' = [call EXCEPT ![c] = new]
  PROVE  /\ pc' \in [Clients -> Steps]
         /\ call' \in [Clients -> {NoCall} \cup AskCalls \cup ReplayCalls]
         /\ \A d \in Clients : (pc'[d] = "idle") <=> (call'[d] = NoCall)
BY DEF TypeOK, NoCall, AskCalls, ReplayCalls

LEMMA EndType ==
  ASSUME TypeOK, NEW c \in Clients, End(c)
  PROVE  /\ pc' \in [Clients -> Steps]
         /\ call' \in [Clients -> {NoCall} \cup AskCalls \cup ReplayCalls]
         /\ \A d \in Clients : (pc'[d] = "idle") <=> (call'[d] = NoCall)
BY DEF TypeOK, End, Steps

LEMMA BeginType ==
  ASSUME TypeOK, NEW c \in Clients, NEW to \in Steps \ {"idle"}, pc' = [pc EXCEPT ![c] = to],
         NEW new \in AskCalls \cup ReplayCalls, call' = [call EXCEPT ![c] = new]
  PROVE  /\ pc' \in [Clients -> Steps]
         /\ call' \in [Clients -> {NoCall} \cup AskCalls \cup ReplayCalls]
         /\ \A d \in Clients : (pc'[d] = "idle") <=> (call'[d] = NoCall)
BY DEF TypeOK, NoCall, AskCalls, ReplayCalls

\* The part of TypeOK about a log after an append.
LEMMA AppendType ==
  ASSUME TypeOK, NEW run \in DOMAIN runs, NEW event \in LogEvents, AppendEvent(run, event),
         event.kind = "link" => event.report \in reports, UNCHANGED <<runs, reports>>
  PROVE  /\ log' \in Seq(Seq(LogEvents)) /\ Len(log') = Len(runs')
         /\ \A r \in DOMAIN runs' : \A i \in DOMAIN log'[r] :
              log'[r][i].kind = "link" => log'[r][i].report \in reports'
<1>1. log' \in Seq(Seq(LogEvents)) /\ Len(log') = Len(runs')
  BY LogGrows DEF TypeOK
<1> DEFINE Linked(r, i) == log[r][i].kind = "link" => log[r][i].report \in reports
<1>2. \A r \in DOMAIN runs : \A i \in DOMAIN log[r] : Linked(r, i)
  BY DEF TypeOK
<1>3. ASSUME NEW r \in DOMAIN runs', NEW i \in DOMAIN log'[r], log'[r][i].kind = "link"
      PROVE  log'[r][i].report \in reports'
  <2>1. CASE r = run
    <3>1. i = Len(log[r]) + 1 \/ i \in DOMAIN log[r]
      BY <2>1, LogGrows
    <3>2. QED
      BY <1>2, <1>3, <2>1, <3>1, LogGrows
  <2>2. CASE r # run
    BY <1>2, <1>3, <2>2, LogGrows
  <2>3. QED
    BY <2>1, <2>2
<1>4. QED
  BY <1>1, <1>3

LEMMA ClassType ==
  ASSUME TypeOK, NEW run \in DOMAIN runs, NEW config
  PROVE  Classification(run, config) \in Classes
<1>1. Basis(run).complete \in BOOLEAN
  BY BasisType
<1>2. Label(run, config) \in Labels
  BY DEF Label, Labels, CannotExecute
<1>3. QED
  BY <1>1, <1>2 DEF Classification, Classes

LEMMA AskingType ==
  ASSUME NEW config \in Configs \cup {r.config : r \in Requests}, NEW mode \in Modes,
         NEW members \in {request.members : request \in Requests} \cup
                         {d.roster : d \in Configs \cup {r.config : r \in Requests}},
         NEW snapshot \in 0 .. MaxHeads, NEW replay \in SUBSET (Intents \cup Written)
  PROVE  Asking(config, mode, members, snapshot, replay) \in AskCalls
<1>1. Unavailable \in Answers
  BY DEF Unavailable, Answers, OracleStates
<1>2. config.nexus \in BOOLEAN
  BY AskReplayAssumption
<1>3. NoRoster \in Rosters /\ members \in Rosters /\ config.roster \in Rosters
  BY DEF Rosters
<1>4. QED
  BY <1>1, <1>2, <1>3 DEF Asking, AskCalls

LEMMA ReportType ==
  ASSUME TypeOK, RunsRest, NEW replay \in Intents, NEW run \in DOMAIN runs,
         replay.original \in DOMAIN runs
  PROVE  Report(replay, run) \in Reports
<1>1. \A r \in DOMAIN runs : EvidenceRefs(r) \in SUBSET Ids
  <2> SUFFICES ASSUME NEW r \in DOMAIN runs PROVE EvidenceRefs(r) \in SUBSET Ids
    OBVIOUS
  <2>1. runs[r] \in Run
    BY DEF TypeOK
  <2>2. runs[r].refs \in SUBSET Ids
    BY <2>1 DEF Run
  <2>3. QED
    BY <2>2, EvidenceOf DEF EvidenceRefs
<1>2. DOMAIN runs \subseteq Nat
  BY DEF TypeOK
<1>3. QED
  BY <1>1, <1>2 DEF Report, Reports, Intents

\* The parts of TypeOK, each with what disturbs it.
StoreTyped ==
  /\ runs \in Seq(Run) /\ log \in Seq(Seq(LogEvents)) /\ Len(log) = Len(runs)
  /\ \A run \in DOMAIN runs : \A i \in DOMAIN log[run] :
       log[run][i].kind = "link" => log[run][i].report \in reports
FilesTyped ==
  /\ reports \subseteq Reports
  /\ replays \subseteq Records /\ \A record \in replays : record.report \in reports
WorldTyped ==
  ledger \in Seq(Events) /\ head \in 1 .. MaxHeads /\ readable \in BOOLEAN
CallsTyped ==
  /\ pc \in [Clients -> Steps]
  /\ call \in [Clients -> {NoCall} \cup AskCalls \cup ReplayCalls]
  /\ \A c \in Clients : (pc[c] = "idle") <=> (call[c] = NoCall)

LEMMA TypeParts ==
  /\ TypeOK <=> StoreTyped /\ FilesTyped /\ WorldTyped /\ CallsTyped
  /\ TypeOK' <=> StoreTyped' /\ FilesTyped' /\ WorldTyped' /\ CallsTyped'
BY DEF TypeOK, StoreTyped, FilesTyped, WorldTyped, CallsTyped

LEMMA WorldType ==
  ASSUME TypeOK,
         OracleAppends \/ OracleRepairs \/ NewSnapshot \/ Lose
  PROVE  TypeOK'
<1>1. StoreTyped /\ FilesTyped /\ WorldTyped /\ CallsTyped
  BY TypeParts
<1>2. StoreTyped' /\ FilesTyped' /\ CallsTyped'
  BY <1>1 DEF StoreTyped, FilesTyped, CallsTyped, OracleAppends, OracleRepairs, NewSnapshot, Lose,
    stored
<1>3. WorldTyped'
  <2>1. CASE OracleAppends
    BY <1>1, <2>1, AppendProperties DEF OracleAppends, WorldTyped
  <2>2. CASE OracleRepairs
    <3>1. Len(ledger) - 1 \in 0 .. Len(ledger)
      BY <1>1, <2>2, EmptySeq DEF OracleRepairs, WorldTyped
    <3>2. QED
      BY <1>1, <2>2, <3>1, Prefix DEF OracleRepairs, WorldTyped
  <2>3. CASE NewSnapshot \/ Lose
    <3>1. MaxHeads \in Nat
      BY AskReplayAssumption
    <3>2. \A m, h : m \in Nat /\ h \in 1 .. m /\ h < m => h + 1 \in 1 .. m
      OBVIOUS
    <3>3. CASE NewSnapshot
      BY <1>1, <3>1, <3>2, <3>3 DEF NewSnapshot, WorldTyped
    <3>4. CASE Lose
      BY <1>1, <3>4 DEF Lose, WorldTyped
    <3>5. QED
      BY <2>3, <3>3, <3>4
  <2>4. QED
    BY <2>1, <2>2, <2>3
<1>4. QED
  BY <1>2, <1>3, TypeParts

LEMMA RecordModelStateType ==
  ASSUME TypeOK, RecordModelState
  PROVE  TypeOK'
<1> DEFINE event == [kind |-> "model_state", unseeded |-> TRUE]
<1>1. PICK run \in DOMAIN runs : AppendEvent(run, event)
  BY DEF RecordModelState
<1>2. event \in LogEvents /\ event.kind # "link"
  BY DEF LogEvents, Unlinked
<1>3. UNCHANGED <<runs, reports>>
  BY DEF RecordModelState, stored
<1>4. StoreTyped'
  <2> HIDE DEF event
  <2>1. QED
    BY <1>1, <1>2, <1>3, AppendType DEF TypeOK, StoreTyped
<1>5. FilesTyped' /\ WorldTyped' /\ CallsTyped'
  BY TypeParts DEF RecordModelState, stored, world, FilesTyped, WorldTyped, CallsTyped
<1>6. QED
  BY <1>4, <1>5, TypeParts

LEMMA AskStepType ==
  ASSUME IInv, NEW c \in Clients, AskStep(c)
  PROVE  TypeOK'
<1>1. TypeOK /\ StoreTyped /\ FilesTyped /\ WorldTyped /\ CallsTyped /\ ClientInv(c)
  BY TypeParts DEF IInv
<1> USE DEF Goto
<1>2. ASSUME Ask(c) PROVE TypeOK'
  <2>1. PICK request \in Requests :
          LET snapshot == IF request.snapshot = Newest THEN head ELSE request.snapshot IN
            /\ snapshot \in 0 .. head
            /\ call' = [call EXCEPT ![c] =
                 Asking(request.config, request.mode, request.members, snapshot, {})]
    BY <1>2 DEF Ask
  <2> DEFINE snapshot == IF request.snapshot = Newest THEN head ELSE request.snapshot
             new == Asking(request.config, request.mode, request.members, snapshot, {})
  <2>2. snapshot \in 0 .. MaxHeads
    <3>1. head \in 1 .. MaxHeads /\ MaxHeads \in Nat /\ snapshot \in 0 .. head
      BY <1>1, <2>1, AskReplayAssumption DEF WorldTyped
    <3> HIDE DEF snapshot
    <3>2. QED
      BY <3>1
  <2>3. request.config \in Configs \cup {r.config : r \in Requests} /\ request.mode \in Modes
        /\ request.members \in {q.members : q \in Requests}
    BY AskReplayAssumption
  <2>4. new \in AskCalls
    <3> HIDE DEF snapshot
    <3>1. QED
      BY <2>2, <2>3, AskingType
  <2> HIDE DEF new
  <2>5. CallsTyped'
    BY <1>1, <1>2, <2>1, <2>4, BeginType DEF Ask, CallsTyped, Steps, new
  <2>6. StoreTyped' /\ FilesTyped' /\ WorldTyped'
    BY <1>1, <1>2 DEF Ask, stored, world, StoreTyped, FilesTyped, WorldTyped
  <2>7. QED
    BY <2>5, <2>6, TypeParts
<1>3. ASSUME QueryOracle(c) PROVE TypeOK'
  <2>1. PICK answer \in {Unavailable} \cup IF Verified(ledger) THEN {Response(ledger)} ELSE {} :
          call' = [call EXCEPT ![c].answer = answer]
    BY <1>3 DEF QueryOracle
  <2>2. answer \in Answers
    <3>1. Unavailable \in Answers
      BY DEF Unavailable, Answers, OracleStates
    <3>2. QED
      BY <1>1, <2>1, <3>1, ResponseIsSaid DEF WorldTyped
  <2>3. call[c] \in AskCalls
    BY <1>1, <1>3 DEF ClientInv, QueryOracle, InAsk
  <2>4. [call[c] EXCEPT !.answer = answer] \in AskCalls
    BY <2>2, <2>3 DEF AskCalls
  <2>5. call' = [call EXCEPT ![c] = [call[c] EXCEPT !.answer = answer]]
    BY <2>1
  <2>6. CallsTyped'
    BY <1>1, <1>3, <2>4, <2>5, GotoType DEF QueryOracle, CallsTyped, Steps
  <2>7. StoreTyped' /\ FilesTyped' /\ WorldTyped'
    BY <1>1, <1>3 DEF QueryOracle, stored, world, StoreTyped, FilesTyped, WorldTyped
  <2>8. QED
    BY <2>6, <2>7, TypeParts
<1>4. ASSUME CreateRun(c) PROVE TypeOK'
  <2> DEFINE run == [mode |-> call[c].mode, snapshot |-> call[c].snapshot,
                     replayability |-> "R3", refs |-> call[c].answer.refs,
                     state |-> IF call[c].answer.refs = {} THEN "unknown"
                               ELSE call[c].answer.state]
  <2>1. runs' = Append(runs, run) /\ log' = Append(log, <<>>)
    BY <1>4 DEF CreateRun
  <2>2. call[c] \in AskCalls
    BY <1>1, <1>4 DEF ClientInv, CreateRun, InAsk, Answered
  <2>3. run \in Run
    BY <2>2 DEF AskCalls, Answers, Run, OracleStates
  <2> HIDE DEF run
  <2>4. <<>> \in Seq(LogEvents)
    BY EmptySeq
  <2>5. /\ runs' \in Seq(Run) /\ Len(runs') = Len(runs) + 1
        /\ log' \in Seq(Seq(LogEvents)) /\ Len(log') = Len(log) + 1
        /\ \A i \in 1 .. Len(log) : log'[i] = log[i]
        /\ log'[Len(log) + 1] = <<>>
    BY <1>1, <2>1, <2>3, <2>4, AppendProperties DEF StoreTyped
  <2>6. StoreTyped'
    <3>1. \A r \in DOMAIN runs' : (r \in DOMAIN runs /\ log'[r] = log[r]) \/ log'[r] = <<>>
      <4>1. \A n, m : n \in Nat /\ m \in 1 .. n + 1 => m \in 1 .. n \/ m = n + 1
        OBVIOUS
      <4>2. /\ DOMAIN runs' = 1 .. Len(runs) + 1 /\ DOMAIN runs = 1 .. Len(runs)
            /\ Len(runs) \in Nat /\ Len(log) = Len(runs)
        BY <1>1, <2>5 DEF StoreTyped
      <4>3. QED
        BY <2>5, <4>1, <4>2
    <3>2. \A r \in DOMAIN runs' : \A i \in DOMAIN log'[r] :
            log'[r][i].kind = "link" => log'[r][i].report \in reports
      BY <1>1, <3>1 DEF StoreTyped
    <3>3. QED
      BY <1>1, <1>4, <2>5, <3>2 DEF StoreTyped, CreateRun, stored
  <2>7. Len(runs') \in Nat
    BY <2>5
  <2>8. [call[c] EXCEPT !.run = Len(runs')] \in AskCalls
    BY <2>2, <2>7 DEF AskCalls
  <2>9. call' = [call EXCEPT ![c] = [call[c] EXCEPT !.run = Len(runs')]]
    BY <1>4 DEF CreateRun
  <2>10. CallsTyped'
    BY <1>1, <1>4, <2>8, <2>9, GotoType DEF CreateRun, CallsTyped, Steps
  <2>11. FilesTyped' /\ WorldTyped'
    BY <1>1, <1>4 DEF CreateRun, stored, world, FilesTyped, WorldTyped
  <2>12. QED
    BY <2>6, <2>10, <2>11, TypeParts
<1>5. ASSUME RecordBasis(c) \/ RecordEvidence(c) \/ CouncilResponds(c) \/ CouncilUnavailable(c)
      PROVE  TypeOK'
  <2>1. call[c] \in AskCalls /\ call[c].run \in DOMAIN runs
    BY <1>1, <1>5 DEF ClientInv, RunOfCall, InAsk, Answered, Created, Based, Witnessed,
      RecordBasis, RecordEvidence, CouncilResponds, CouncilUnavailable
  <2>2. PICK event \in LogEvents : AppendEvent(call[c].run, event) /\ event.kind # "link"
    <3>1. CASE RecordBasis(c)
      <4> DEFINE event == [kind |-> "basis", members |-> call[c].members,
                           complete |-> \/ call[c].mode # "council"
                                        \/ call[c].members # NoRoster
                                        \/ ~call[c].nexus]
      <4>1. event \in LogEvents /\ event.kind # "link"
        BY <2>1 DEF LogEvents, Unlinked, AskCalls
      <4>2. AppendEvent(call[c].run, event)
        BY <3>1 DEF RecordBasis
      <4>3. QED
        BY <4>1, <4>2
    <3>2. CASE RecordEvidence(c)
      BY <2>1, <3>2 DEF RecordEvidence, LogEvents, Unlinked, AskCalls, Answers
    <3>3. CASE CouncilResponds(c)
      BY <2>1, <3>3, AskReplayAssumption DEF CouncilResponds, LogEvents, Unlinked, AskCalls
    <3>4. CASE CouncilUnavailable(c)
      <4>1. NoCouncil \in LogEvents /\ NoCouncil.kind # "link"
        BY DEF NoCouncil, LogEvents, Unlinked, Rosters
      <4>2. QED
        BY <3>4, <4>1 DEF CouncilUnavailable
    <3>5. QED
      BY <1>5, <3>1, <3>2, <3>3, <3>4
  <2>3. UNCHANGED <<world, runs, stored, call>>
    BY <1>5 DEF RecordBasis, RecordEvidence, CouncilResponds, CouncilUnavailable
  <2>4. StoreTyped'
    BY <1>1, <2>1, <2>2, <2>3, AppendType DEF stored, StoreTyped
  <2>5. CallsTyped'
    BY <1>1, <1>5, <2>3
      DEF RecordBasis, RecordEvidence, CouncilResponds, CouncilUnavailable, CallsTyped, Steps
  <2>6. FilesTyped' /\ WorldTyped'
    BY <1>1, <2>3 DEF stored, world, FilesTyped, WorldTyped
  <2>7. QED
    BY <2>4, <2>5, <2>6, TypeParts
<1>6. ASSUME CouncilRefused(c) \/ Asked(c) PROVE TypeOK'
  <2>1. UNCHANGED <<world, runs, log, stored>>
    BY <1>6 DEF CouncilRefused, Asked
  <2>2. CallsTyped'
    <3>1. CASE End(c)
      BY <1>1, <3>1, EndType DEF CallsTyped
    <3>2. CASE pc[c] = "asked" /\ pc' = [pc EXCEPT ![c] = "compare"] /\ UNCHANGED call
      BY <1>1, <3>2 DEF CallsTyped, Steps
    <3>3. QED
      BY <1>6, <3>1, <3>2 DEF CouncilRefused, Asked
  <2>3. StoreTyped' /\ FilesTyped' /\ WorldTyped'
    BY <1>1, <2>1 DEF stored, world, StoreTyped, FilesTyped, WorldTyped
  <2>4. QED
    BY <2>2, <2>3, TypeParts
<1>7. QED
  BY <1>2, <1>3, <1>4, <1>5, <1>6 DEF AskStep

LEMMA ReplayStepType ==
  ASSUME IInv, NEW c \in Clients, ReplayStep(c) \/ Fail(c)
  PROVE  TypeOK'
<1>1. TypeOK /\ StoreTyped /\ FilesTyped /\ WorldTyped /\ CallsTyped /\ ClientInv(c) /\ RunsRest
  BY TypeParts DEF IInv
<1> USE DEF Goto
<1>2. ASSUME Replay(c) PROVE TypeOK'
  <2>1. PICK config \in Configs, run \in DOMAIN runs, allowed \in BOOLEAN :
          call' = [call EXCEPT ![c] =
            [kind |-> "replay", config |-> config, run |-> run,
             class |-> Classification(run, config), allowed |-> allowed]]
    BY <1>2 DEF Replay
  <2>2. Classification(run, config) \in Classes /\ run \in Nat
    BY <1>1, ClassType DEF StoreTyped
  <2>3. CallsTyped'
    <3> DEFINE new == [kind |-> "replay", config |-> config, run |-> run,
                       class |-> Classification(run, config), allowed |-> allowed]
    <3>1. new \in ReplayCalls
      BY <2>2 DEF ReplayCalls
    <3> HIDE DEF new
    <3>2. QED
      BY <1>1, <1>2, <2>1, <3>1, BeginType DEF Replay, CallsTyped, Steps, new
  <2>4. StoreTyped' /\ FilesTyped' /\ WorldTyped'
    BY <1>1, <1>2 DEF Replay, stored, world, StoreTyped, FilesTyped, WorldTyped
  <2>5. QED
    BY <2>3, <2>4, TypeParts
<1>3. ASSUME Reask(c) PROVE TypeOK'
  <2>1. StoreTyped' /\ FilesTyped' /\ WorldTyped'
    BY <1>1, <1>3 DEF Reask, stored, world, StoreTyped, FilesTyped, WorldTyped
  <2>2. CASE End(c)
    BY <1>1, <2>1, <2>2, EndType, TypeParts DEF CallsTyped
  <2>3. CASE ~End(c)
    <3> DEFINE original == call[c].run
               replay == [original |-> original, class |-> call[c].class,
                          allowed |-> call[c].allowed, before |-> log[original]]
               new == Asking(call[c].config, runs[original].mode, call[c].config.roster,
                             SnapshotOf(original), {replay})
    <3>1. pc' = [pc EXCEPT ![c] = "query"] /\ call' = [call EXCEPT ![c] = new]
      BY <1>3, <2>3 DEF Reask
    <3>2. call[c] \in ReplayCalls /\ original \in DOMAIN runs
      BY <1>1, <1>3 DEF ClientInv, Reask
    <3>3. runs[original] \in Run /\ log[original] \in Seq(LogEvents)
      BY <1>1, <3>2 DEF StoreTyped
    <3>4. replay \in Intents /\ call[c].config \in Configs
      BY <3>2, <3>3 DEF Intents, ReplayCalls
    <3>5. new \in AskCalls
      <4>1. runs[original].mode \in Modes /\ SnapshotOf(original) \in 0 .. MaxHeads
        BY <3>3 DEF SnapshotOf, Run
      <4>2. {replay} \in SUBSET (Intents \cup Written)
        BY <3>4
      <4> HIDE DEF original, replay
      <4>3. QED
        BY <3>4, <4>1, <4>2, AskingType
    <3> HIDE DEF new
    <3>6. CallsTyped'
      BY <1>1, <1>3, <3>1, <3>5, BeginType DEF CallsTyped, Steps
    <3>7. QED
      BY <2>1, <3>6, TypeParts
  <2>4. QED
    BY <2>2, <2>3
<1>4. ASSUME Compare(c) PROVE TypeOK'
  <2>1. StoreTyped' /\ FilesTyped' /\ WorldTyped'
    BY <1>1, <1>4 DEF Compare, stored, world, StoreTyped, FilesTyped, WorldTyped
  <2>2. CASE End(c)
    BY <1>1, <2>1, <2>2, EndType, TypeParts DEF CallsTyped
  <2>3. CASE pc' = [pc EXCEPT ![c] = "report"] /\ UNCHANGED call
    BY <1>1, <1>4, <2>1, <2>3, TypeParts DEF Compare, CallsTyped, Steps
  <2>4. QED
    BY <1>4, <2>2, <2>3 DEF Compare
<1>5. ASSUME WriteReport(c) PROVE TypeOK'
  <2>1. PICK replay \in call[c].replay :
          LET report == Report(replay, call[c].run) IN
            /\ reports' = reports \cup {report}
            /\ call' = [call EXCEPT ![c].replay =
                 {[report |-> report, allowed |-> replay.allowed]}]
    BY <1>5 DEF WriteReport
  <2> DEFINE report == Report(replay, call[c].run)
             written == [report |-> report, allowed |-> replay.allowed]
  <2>2. /\ call[c] \in AskCalls /\ call[c].run \in DOMAIN runs
        /\ replay \in Intents /\ replay.original \in DOMAIN runs
    BY <1>1, <1>5, <2>1 DEF ClientInv, RunOfCall, IntentOK, WriteReport, InAsk, Answered,
      Created, Based, Witnessed, Reported
  <2>3. report \in Reports
    BY <1>1, <2>2, ReportType
  <2>4. written \in Written
    BY <2>2, <2>3 DEF Written, Intents
  <2> HIDE DEF report, written
  <2>5. [call[c] EXCEPT !.replay = {written}] \in AskCalls
    BY <2>2, <2>4 DEF AskCalls
  <2>6. call' = [call EXCEPT ![c] = [call[c] EXCEPT !.replay = {written}]]
    BY <2>1 DEF written, report
  <2>7. CallsTyped'
    BY <1>1, <1>5, <2>5, <2>6, GotoType DEF WriteReport, CallsTyped, Steps
  <2>8. StoreTyped' /\ FilesTyped' /\ WorldTyped'
    BY <1>1, <1>5, <2>1, <2>3
      DEF WriteReport, world, StoreTyped, FilesTyped, WorldTyped, report
  <2>9. QED
    BY <2>7, <2>8, TypeParts
<1>6. ASSUME WriteReplay(c) PROVE TypeOK'
  <2>1. PICK replay \in call[c].replay :
          /\ RecordValid(ReplayRecord(replay))
          /\ replays' = replays \cup {ReplayRecord(replay)}
    BY <1>6 DEF WriteReplay
  <2>2. replay \in Written /\ replay.report \in reports
    BY <1>1, <1>6, <2>1 DEF ClientInv, WrittenOK, WriteReplay, InAsk, Answered, Created, Based,
      Witnessed, Reported
  <2>3. ReplayRecord(replay) \in Records /\ ReplayRecord(replay).report \in reports
    BY <2>2 DEF Written, ReplayRecord, Records, Reports
  <2>4. CallsTyped'
    BY <1>1, <1>6 DEF WriteReplay, CallsTyped, Steps
  <2>5. StoreTyped' /\ FilesTyped' /\ WorldTyped'
    BY <1>1, <1>6, <2>1, <2>3 DEF WriteReplay, world, StoreTyped, FilesTyped, WorldTyped
  <2>6. QED
    BY <2>4, <2>5, TypeParts
<1>7. ASSUME Link(c) PROVE TypeOK'
  <2>1. PICK replay \in call[c].replay :
          AppendEvent(call[c].run,
            [kind |-> "link", original |-> replay.report.original, report |-> replay.report])
    BY <1>7 DEF Link
  <2>2. /\ replay \in Written /\ replay.report \in reports /\ call[c].run \in DOMAIN runs
    BY <1>1, <1>7, <2>1 DEF ClientInv, RunOfCall, WrittenOK, Link, InAsk, Answered, Created,
      Based, Witnessed, Reported
  <2> DEFINE event == [kind |-> "link", original |-> replay.report.original,
                       report |-> replay.report]
  <2>3. event \in LogEvents /\ event.report \in reports
    BY <2>2 DEF LogEvents, Written, Reports
  <2> HIDE DEF event
  <2>4. StoreTyped'
    BY <1>1, <1>7, <2>1, <2>2, <2>3, AppendType DEF Link, stored, StoreTyped, event
  <2>5. CallsTyped'
    BY <1>1, <1>7, EndType DEF Link, CallsTyped
  <2>6. FilesTyped' /\ WorldTyped'
    BY <1>1, <1>7 DEF Link, stored, world, FilesTyped, WorldTyped
  <2>7. QED
    BY <2>4, <2>5, <2>6, TypeParts
<1>8. ASSUME ReplayRefused(c) PROVE TypeOK'
  BY <1>1, <1>8 DEF ReplayRefused, vars, world, stored, TypeOK
<1>9. ASSUME Fail(c) PROVE TypeOK'
  <2>1. StoreTyped' /\ FilesTyped' /\ WorldTyped'
    BY <1>1, <1>9 DEF Fail, stored, world, StoreTyped, FilesTyped, WorldTyped
  <2>2. QED
    BY <1>1, <1>9, <2>1, EndType, TypeParts DEF Fail, CallsTyped
<1>10. QED
  BY <1>2, <1>3, <1>4, <1>5, <1>6, <1>7, <1>8, <1>9 DEF ReplayStep

LEMMA TypeStep ==
  ASSUME IInv, [Next]_vars
  PROVE  TypeOK'
<1>1. CASE UNCHANGED vars
  BY <1>1 DEF vars, world, stored, IInv, TypeOK
<1>2. CASE Next
  BY <1>2, WorldType, RecordModelStateType, AskStepType, ReplayStepType DEF IInv, Next
<1>3. QED
  BY <1>1, <1>2

-----------------------------------------------------------------------------
(* What every step keeps: runs, what their logs say and what was said.     *)

Stable ==
  /\ \A run \in DOMAIN runs :
       /\ run \in DOMAIN runs' /\ runs'[run] = runs[run]
       /\ Has(run, "basis") => Has(run, "basis")' /\ Basis(run)' = Basis(run)
       /\ Has(run, "evidence") =>
            Has(run, "evidence")' /\ EvidenceRefs(run)' = EvidenceRefs(run)
  /\ reports \subseteq reports' /\ replays \subseteq replays'
  /\ \A state, refs : Said(ledger, state, refs) => Said(ledger', state, refs)

LEMMA KeptStays ==
  ASSUME Stable, NEW report, report.original \in DOMAIN runs, report.run \in DOMAIN runs,
         NEW allowed, KeptCouncil(report, allowed)
  PROVE  KeptCouncil(report, allowed)'
BY DEF Stable, KeptCouncil

LEMMA KeepsStays ==
  ASSUME Stable, NEW original \in DOMAIN runs, NEW class, NEW allowed, NEW members,
         KeepsCouncil(original, class, allowed, members)
  PROVE  KeepsCouncil(original, class, allowed, members)'
BY DEF Stable, KeepsCouncil

LEMMA ReportStays ==
  ASSUME Stable, NEW report, ReportOK(report)
  PROVE  ReportOK(report)'
BY DEF Stable, ReportOK

LEMMA AnswerStays ==
  ASSUME Stable, NEW answer, AnswerRests(answer)
  PROVE  AnswerRests(answer)'
BY DEF Stable, AnswerRests

\* A client that does not move keeps what it knows, unless its run gets a basis
\* or a record from another.
LEMMA ClientStays ==
  ASSUME Stable, NEW c \in Clients, ClientInv(c), pc'[c] = pc[c], call'[c] = call[c],
         \A report \in reports : ReportOK(report),
         pc[c] = "basis" => ~Has(call[c].run, "basis")',
         pc[c] \in Created \ {"link"} => ReplaysMaking(call[c].run)' = {}
  PROVE  ClientInv(c)'
<1>1. ASSUME pc[c] = "replay"
      PROVE  /\ call[c] \in ReplayCalls /\ call[c].run \in DOMAIN runs'
             /\ KeepsCouncil(call[c].run, call[c].class, call[c].allowed,
                             call[c].config.roster)'
  BY <1>1, KeepsStays DEF ClientInv, Stable, KeepsCouncil
<1>2. ASSUME pc[c] \in Created PROVE RunOfCall(c)'
  <2>1. RunOfCall(c) /\ call[c].run \in DOMAIN runs
    BY <1>2 DEF ClientInv, RunOfCall, InAsk, Answered
  <2>2. (pc[c] = "basis") <=> ~Has(call[c].run, "basis")'
    BY <2>1 DEF RunOfCall, Stable
  <2>3. pc[c] # "basis" => Basis(call[c].run)' = Basis(call[c].run)
    BY <2>1 DEF RunOfCall, Stable
  <2>4. pc[c] \in Witnessed => Has(call[c].run, "evidence")'
    BY <2>1 DEF RunOfCall, Stable
  <2>5. call[c].run \in DOMAIN runs' /\ runs'[call[c].run] = runs[call[c].run]
    BY <2>1 DEF Stable
  <2>6. pc[c] # "link" => ReplaysMaking(call[c].run)' = {}
    BY <1>2
  <2>7. /\ runs[call[c].run].mode = call[c].mode
        /\ runs[call[c].run].snapshot = call[c].snapshot
        /\ runs[call[c].run].refs = call[c].answer.refs
        /\ runs[call[c].run].state = call[c].answer.state
        /\ pc[c] # "basis" => Basis(call[c].run).members = call[c].members
    BY <2>1 DEF RunOfCall
  <2>8. QED
    BY <2>2, <2>3, <2>4, <2>5, <2>6, <2>7 DEF RunOfCall
<1>3. ASSUME pc[c] \in InAsk, NEW replay \in call[c].replay, pc[c] \in Reported
      PROVE  WrittenOK(c, replay)'
  <2>1. WrittenOK(c, replay) /\ ReportOK(replay.report)
    BY <1>3 DEF ClientInv, WrittenOK
  <2>2. KeptCouncil(replay.report, replay.allowed)'
    BY <2>1, KeptStays DEF WrittenOK, ReportOK
  <2>3. QED
    BY <2>1, <2>2 DEF WrittenOK, Stable
<1>4. ASSUME pc[c] \in InAsk, NEW replay \in call[c].replay, pc[c] \notin Reported
      PROVE  IntentOK(c, replay)'
  <2>1. IntentOK(c, replay)
    BY <1>4 DEF ClientInv
  <2>2. KeepsCouncil(replay.original, replay.class, replay.allowed, call[c].members)'
    <3>1. KeepsCouncil(replay.original, replay.class, replay.allowed, call[c].members)
      BY <2>1 DEF IntentOK
    <3>2. QED
      BY <2>1, <3>1 DEF IntentOK, Stable, KeepsCouncil
  <2>3. QED
    BY <2>1, <2>2 DEF IntentOK, Stable, KeepsCouncil
<1>5. ASSUME pc[c] \in InAsk, pc[c] \in Answered PROVE AnswerRests(call[c].answer)'
  BY <1>5 DEF ClientInv, AnswerRests, Stable
<1>6. pc[c] \in InAsk => call'[c] \in AskCalls
  BY DEF ClientInv
<1>7. ASSUME pc'[c] \in InAsk, NEW replay \in call'[c].replay
      PROVE  IF pc'[c] \in Reported THEN WrittenOK(c, replay)' ELSE IntentOK(c, replay)'
  BY <1>3, <1>4, <1>7
<1>8. QED
  BY <1>1, <1>2, <1>5, <1>6, <1>7 DEF ClientInv

LEMMA SameLogs ==
  ASSUME UNCHANGED <<runs, log>>
  PROVE  /\ \A run, kind : Has(run, kind)' = Has(run, kind)
         /\ \A run : Basis(run)' = Basis(run) /\ EvidenceRefs(run)' = EvidenceRefs(run)
<1>1. \A run, kind : Entries(run, kind)' = Entries(run, kind)
  BY DEF Entries
<1>2. \A run, kind : Has(run, kind)' = Has(run, kind)
  BY <1>1 DEF Has
<1>3. \A run, kind : Latest(run, kind)' = Latest(run, kind)
  BY <1>1 DEF Latest
<1>4. QED
  BY <1>2, <1>3 DEF Basis, EvidenceRefs

\* A step that leaves the runs and their logs alone.
LEMMA StillStep ==
  ASSUME IInv, UNCHANGED <<runs, log>>, reports \subseteq reports', replays \subseteq replays',
         \A state, refs : Said(ledger, state, refs) => Said(ledger', state, refs)
  PROVE  Stable /\ RunsRest' /\ LinksOK'
<1>1. Stable
  BY SameLogs DEF Stable
<1>2. RunsRest'
  BY DEF IInv, RunsRest, RunRests
<1>3. LinksOK'
  BY DEF IInv, LinksOK, LinkOK
<1>4. QED
  BY <1>1, <1>2, <1>3

LEMMA RecordStays ==
  ASSUME IInv, Stable, NEW record \in replays,
         ReplaysMaking(record.run)' = ReplaysMaking(record.run)
  PROVE  RecordOK(record)'
<1>1. RecordOK(record) /\ ReportOK(record.report)
  BY DEF IInv, RecordOK
<1>2. KeptCouncil(record.report, record.allowed)'
  BY <1>1, KeptStays DEF RecordOK, ReportOK
<1>3. QED
  BY <1>1, <1>2 DEF RecordOK, Stable

\* The clients other than c, none of which owns the run that changes.
LEMMA OthersStay ==
  ASSUME IInv, Stable, NEW c, \A d \in Clients \ {c} : pc'[d] = pc[d] /\ call'[d] = call[d],
         \A d \in Clients \ {c} : pc[d] \in Created =>
           /\ pc[d] = "basis" => ~Has(call[d].run, "basis")'
           /\ pc[d] # "link" => ReplaysMaking(call[d].run)' = {}
  PROVE  \A d \in Clients \ {c} : ClientInv(d)'
BY ClientStays DEF IInv, Created

LEMMA RunKnown ==
  ASSUME IInv, NEW c \in Clients, pc[c] \in Created
  PROVE  /\ RunOfCall(c) /\ call[c].run \in DOMAIN runs
         /\ pc[c] # "link" => ReplaysMaking(call[c].run) = {}
         /\ pc[c] = "basis" => ~Has(call[c].run, "basis")
BY DEF IInv, ClientInv, RunOfCall, InAsk, Answered

\* A step that leaves the store and the ledger alone: only the calls change.
LEMMA CalmStep ==
  ASSUME IInv, TypeOK', UNCHANGED <<ledger, runs, log, reports, replays>>,
         NEW c \in Clients,
         \A d \in Clients \ {c} : pc'[d] = pc[d] /\ call'[d] = call[d],
         ClientInv(c)', RunsAreApart'
  PROVE  IInv'
<1>1. Stable /\ RunsRest' /\ LinksOK'
  BY StillStep
<1>2. \A run : ReplaysMaking(run)' = ReplaysMaking(run)
  BY DEF ReplaysMaking
<1>3. \A d \in Clients \ {c} : ClientInv(d)'
  BY <1>1, <1>2, OthersStay, RunKnown, SameLogs
<1>4. \A report \in reports' : ReportOK(report)'
  BY <1>1, ReportStays DEF IInv
<1>5. \A record \in replays' : RecordOK(record)'
  BY <1>1, <1>2, RecordStays
<1>6. QED
  BY <1>1, <1>3, <1>4, <1>5 DEF IInv

LEMMA WorldStep ==
  ASSUME IInv, TypeOK', OracleAppends \/ OracleRepairs \/ NewSnapshot \/ Lose
  PROVE  IInv'
<1>1. UNCHANGED <<runs, log, reports, replays, pc, call>>
  BY DEF OracleAppends, OracleRepairs, NewSnapshot, Lose, stored
<1>2. ASSUME NEW state, NEW refs, Said(ledger, state, refs) PROVE Said(ledger', state, refs)
  <2>1. ledger \in Seq(Events)
    BY DEF IInv, TypeOK
  <2>2. CASE OracleAppends
    <3>1. PICK event \in Events : ledger' = Append(ledger, event)
      BY <2>2 DEF OracleAppends
    <3>2. QED
      BY <1>2, <2>1, <3>1, SaidAfterAppend
  <2>3. CASE OracleRepairs
    BY <1>2, <2>1, <2>3, SaidAfterRepair DEF OracleRepairs
  <2>4. CASE NewSnapshot \/ Lose
    BY <1>2, <2>4 DEF NewSnapshot, Lose
  <2>5. QED
    BY <2>2, <2>3, <2>4
<1>3. Stable /\ RunsRest' /\ LinksOK'
  BY <1>1, <1>2, StillStep
<1>4. \A run : ReplaysMaking(run)' = ReplaysMaking(run)
  BY <1>1 DEF ReplaysMaking
<1>5. \A c \in Clients : ClientInv(c)'
  <2> SUFFICES ASSUME NEW c \in Clients PROVE ClientInv(c)'
    OBVIOUS
  <2>1. pc'[c] = pc[c] /\ call'[c] = call[c]
    BY <1>1
  <2>2. /\ pc[c] = "basis" => ~Has(call[c].run, "basis")'
        /\ pc[c] \in Created \ {"link"} => ReplaysMaking(call[c].run)' = {}
    BY <1>1, <1>4, RunKnown, SameLogs DEF Created
  <2>3. QED
    BY <1>3, <2>1, <2>2, ClientStays DEF IInv
<1>6. \A report \in reports' : ReportOK(report)'
  BY <1>1, <1>3, ReportStays DEF IInv
<1>7. \A record \in replays' : RecordOK(record)'
  BY <1>1, <1>3, <1>4, RecordStays
<1>8. RunsAreApart'
  BY <1>1 DEF IInv, RunsAreApart
<1>9. QED
  BY <1>3, <1>5, <1>6, <1>7, <1>8 DEF IInv

\* What an append may add to a run.
EventFits(run, event) ==
  /\ event.kind = "basis" => ~Has(run, "basis")
  /\ event.kind = "evidence" =>
       /\ event.state = runs[run].state /\ event.refs = runs[run].refs
       /\ event.available => Said(ledger, runs[run].state, runs[run].refs)
  /\ event.kind = "link" => LinkOK(run, event)

LEMMA AppendKeeps ==
  ASSUME IInv, NEW run \in DOMAIN runs, NEW event \in LogEvents, AppendEvent(run, event),
         UNCHANGED <<ledger, runs, reports, replays>>, EventFits(run, event)
  PROVE  Stable /\ RunsRest' /\ LinksOK'
<1>1. TypeOK /\ RunsRest /\ LinksOK
  BY DEF IInv
<1>2. RunsRest'
  <2> SUFFICES ASSUME NEW r \in DOMAIN runs PROVE RunRests(ledger, runs[r], log'[r])
    BY DEF RunsRest, RunRests
  <2>1. RunRests(ledger, runs[r], log[r])
    BY <1>1 DEF RunsRest
  <2>2. CASE r # run
    BY <1>1, <2>1, <2>2, LogGrows
  <2>3. CASE r = run
    <3>1. ASSUME NEW i \in DOMAIN log'[r], log'[r][i].kind = "evidence"
          PROVE  /\ log'[r][i].state = runs[r].state /\ log'[r][i].refs = runs[r].refs
                 /\ log'[r][i].available => Said(ledger, runs[r].state, runs[r].refs)
      <4>1. i \in DOMAIN log[r] \/ i = Len(log[r]) + 1
        BY <1>1, <2>3, LogGrows
      <4>2. CASE i \in DOMAIN log[r]
        BY <1>1, <2>1, <2>3, <3>1, <4>2, LogGrows DEF RunRests
      <4>3. CASE i = Len(log[r]) + 1
        BY <1>1, <2>3, <3>1, <4>3, LogGrows DEF EventFits
      <4>4. QED
        BY <4>1, <4>2, <4>3
    <3>2. QED
      BY <2>1, <3>1 DEF RunRests
  <2>4. QED
    BY <2>2, <2>3
<1>3. LinksOK'
  <2> SUFFICES ASSUME NEW r \in DOMAIN runs, NEW i \in DOMAIN log'[r],
                      log'[r][i].kind = "link"
               PROVE  LinkOK(r, log'[r][i])
    BY DEF LinksOK, LinkOK
  <2>1. CASE r = run /\ i = Len(log[r]) + 1
    BY <1>1, <2>1, LogGrows DEF EventFits
  <2>2. CASE ~(r = run /\ i = Len(log[r]) + 1)
    <3>1. i \in DOMAIN log[r] /\ log'[r][i] = log[r][i]
      BY <1>1, <2>2, LogGrows
    <3>2. QED
      BY <1>1, <3>1 DEF LinksOK
  <2>3. QED
    BY <2>1, <2>2
<1>4. ASSUME NEW r \in DOMAIN runs
      PROVE  /\ Has(r, "basis") => Has(r, "basis")' /\ Basis(r)' = Basis(r)
             /\ Has(r, "evidence") => Has(r, "evidence")' /\ EvidenceRefs(r)' = EvidenceRefs(r)
  <2>1. Has(r, "basis") => r # run \/ "basis" # event.kind
    BY DEF EventFits
  <2>2. Has(r, "basis") => Has(r, "basis")' /\ Basis(r)' = Basis(r)
    <3>1. Has(r, "basis") => Has(r, "basis")' /\ Latest(r, "basis")' = Latest(r, "basis")
      BY <1>1, <2>1, KindsAfterAppend
    <3>2. QED
      BY <3>1 DEF Basis
  <2>3. Has(r, "evidence") => Has(r, "evidence")'
    BY <1>1, KindsAfterAppend
  <2>4. ASSUME Has(r, "evidence") PROVE EvidenceRefs(r)' = EvidenceRefs(r)
    <3>1. EvidenceRefs(r) = runs[r].refs
      BY <1>1, <2>4, EvidenceOf
    <3>2. CASE r # run \/ "evidence" # event.kind
      <4>1. Has(r, "evidence")' /\ Latest(r, "evidence")' = Latest(r, "evidence")
        BY <1>1, <2>4, <3>2, KindsAfterAppend
      <4>2. QED
        BY <2>4, <4>1 DEF EvidenceRefs
    <3>3. CASE r = run /\ "evidence" = event.kind
      <4>1. Len(log[r]) + 1 \in Entries(r, "evidence")'
            /\ \A i \in Entries(r, "evidence")' : log'[r][i].refs = runs[r].refs
        <5>1. \A i \in DOMAIN log[r] : log[r][i].kind = "evidence" => log[r][i].refs = runs[r].refs
          BY <1>1 DEF RunsRest, RunRests
        <5>2. event.refs = runs[r].refs
          BY <3>3 DEF EventFits
        <5>3. \A i \in DOMAIN log'[r] : i \in DOMAIN log[r] \/ i = Len(log[r]) + 1
          BY <1>1, <3>3, LogGrows
        <5>4. /\ Len(log[r]) + 1 \in DOMAIN log'[r] /\ log'[r][Len(log[r]) + 1] = event
              /\ \A i \in DOMAIN log[r] : log'[r][i] = log[r][i]
          BY <1>1, <3>3, LogGrows
        <5>5. QED
          BY <3>3, <5>1, <5>2, <5>3, <5>4 DEF Entries
      <4>2. Max(Entries(r, "evidence")') \in Entries(r, "evidence")'
        <5>1. Entries(r, "evidence")' \subseteq 1 .. Len(log[r]) + 1 /\ Len(log[r]) + 1 \in Nat
          BY <1>1, <3>3, LogGrows DEF Entries
        <5>2. QED
          BY <4>1, <5>1, MaxOf
      <4>3. EvidenceRefs(r)' = log'[r][Max(Entries(r, "evidence")')].refs
        BY <2>3, <2>4 DEF EvidenceRefs, Latest
      <4>4. QED
        BY <3>1, <4>1, <4>2, <4>3
    <3>4. QED
      BY <3>2, <3>3
  <2>5. QED
    BY <2>2, <2>3, <2>4
<1>5. QED
  BY <1>2, <1>3, <1>4 DEF Stable

\* A step that appends to one run, for the client whose run it is if any.
LEMMA AppendStep ==
  ASSUME IInv, TypeOK', NEW run \in DOMAIN runs, NEW event \in LogEvents,
         AppendEvent(run, event), UNCHANGED <<ledger, runs, reports, replays>>,
         EventFits(run, event), NEW c,
         \A d \in Clients \ {c} : pc'[d] = pc[d] /\ call'[d] = call[d],
         event.kind = "basis" =>
           \A d \in Clients \ {c} : pc[d] \in Created => call[d].run # run,
         c \in Clients => ClientInv(c)', RunsAreApart'
  PROVE  IInv'
<1>1. Stable /\ RunsRest' /\ LinksOK'
  BY AppendKeeps
<1>2. \A r : ReplaysMaking(r)' = ReplaysMaking(r)
  BY DEF ReplaysMaking
<1>3. \A d \in Clients \ {c} : ClientInv(d)'
  <2>1. ASSUME NEW d \in Clients \ {c}, pc[d] = "basis"
        PROVE  ~Has(call[d].run, "basis")'
    <3>1. call[d].run \in DOMAIN runs /\ ~Has(call[d].run, "basis")
      BY <2>1, RunKnown DEF Created
    <3>2. call[d].run # run \/ "basis" # event.kind
      BY <2>1 DEF Created
    <3>3. QED
      BY <3>1, <3>2, KindsAfterAppend DEF IInv
  <2>2. QED
    BY <1>1, <1>2, <2>1, OthersStay, RunKnown
<1>4. \A report \in reports' : ReportOK(report)'
  BY <1>1, ReportStays DEF IInv
<1>5. \A record \in replays' : RecordOK(record)'
  BY <1>1, <1>2, RecordStays
<1>6. QED
  BY <1>1, <1>3, <1>4, <1>5 DEF IInv

-----------------------------------------------------------------------------
(* Steps that change a call only                                           *)

LEMMA ApartStays ==
  ASSUME IInv, NEW c, \A d \in Clients \ {c} : pc'[d] = pc[d] /\ call'[d] = call[d],
         pc'[c] \in Created => pc[c] \in Created /\ call'[c].run = call[c].run
  PROVE  RunsAreApart'
BY DEF IInv, RunsAreApart

LEMMA EndClient ==
  ASSUME IInv, NEW c \in Clients, End(c)
  PROVE  /\ \A d \in Clients \ {c} : pc'[d] = pc[d] /\ call'[d] = call[d]
         /\ ClientInv(c)' /\ RunsAreApart'
<1>1. /\ \A d \in Clients \ {c} : pc'[d] = pc[d] /\ call'[d] = call[d]
      /\ pc'[c] = "idle"
  BY DEF IInv, TypeOK, End
<1>2. ClientInv(c)'
  BY <1>1 DEF ClientInv, InAsk, Answered, Created, Based, Witnessed, Reported
<1>3. RunsAreApart'
  BY <1>1, ApartStays DEF Created, Based, Witnessed, Reported
<1>4. QED
  BY <1>1, <1>2, <1>3

\* A call that goes on unchanged, within the steps that ask for the same of it.
LEMMA CallGoesOn ==
  ASSUME IInv, NEW c \in Clients, UNCHANGED <<ledger, runs, log, reports, replays, call>>,
         pc[c] \in Witnessed \ Reported, pc' = [pc EXCEPT ![c] = pc'[c]],
         pc'[c] \in Witnessed \ Reported
  PROVE  /\ \A d \in Clients \ {c} : pc'[d] = pc[d] /\ call'[d] = call[d]
         /\ ClientInv(c)' /\ RunsAreApart'
<1>1. \A d \in Clients \ {c} : pc'[d] = pc[d] /\ call'[d] = call[d]
  BY DEF IInv, TypeOK
<1>2. /\ call[c] \in AskCalls /\ AnswerRests(call[c].answer) /\ RunOfCall(c)
      /\ \A replay \in call[c].replay : IntentOK(c, replay)
  BY DEF IInv, ClientInv, InAsk, Answered, Created, Based, Witnessed, Reported
<1>3. AnswerRests(call[c].answer)' /\ call'[c] \in AskCalls
  BY <1>2 DEF AnswerRests
<1>4. RunOfCall(c)'
  <2>1. ReplaysMaking(call[c].run)' = ReplaysMaking(call[c].run)
    BY DEF ReplaysMaking
  <2>2. QED
    BY <1>2, <2>1, SameLogs DEF RunOfCall, Witnessed, Reported
<1>5. ASSUME NEW replay \in call[c].replay PROVE IntentOK(c, replay)'
  <2>1. IntentOK(c, replay)
    BY <1>2
  <2>2. KeepsCouncil(replay.original, replay.class, replay.allowed, call[c].members)'
    BY <2>1, SameLogs DEF IntentOK, KeepsCouncil
  <2>3. QED
    BY <2>1, <2>2 DEF IntentOK, Answered, Created, Based, Witnessed, Reported
<1>6. ClientInv(c)'
  BY <1>3, <1>4, <1>5 DEF ClientInv, Witnessed, Reported
<1>7. RunsAreApart'
  BY <1>1, ApartStays DEF Created, Based, Witnessed, Reported
<1>8. QED
  BY <1>1, <1>6, <1>7

LEMMA AskKeeps ==
  ASSUME IInv, TypeOK', NEW c \in Clients, Ask(c)
  PROVE  IInv'
<1>1. PICK request \in Requests, snapshot \in 0 .. head :
        call' = [call EXCEPT ![c] =
          Asking(request.config, request.mode, request.members, snapshot, {})]
  BY DEF Ask
<1>2. /\ \A d \in Clients \ {c} : pc'[d] = pc[d] /\ call'[d] = call[d]
      /\ pc'[c] = "query"
      /\ call'[c] = Asking(request.config, request.mode, request.members, snapshot, {})
  BY <1>1 DEF Ask, Goto, IInv, TypeOK
<1>3. call'[c].kind = "ask" /\ call'[c].replay = {}
  BY <1>2 DEF Asking
<1>4. call'[c] \in AskCalls
  BY <1>3 DEF TypeOK, NoCall, ReplayCalls
<1>5. ClientInv(c)'
  BY <1>2, <1>3, <1>4
    DEF ClientInv, InAsk, Answered, Created, Based, Witnessed, Reported
<1>6. RunsAreApart'
  BY <1>2, ApartStays DEF Created, Based, Witnessed, Reported
<1>7. QED
  BY <1>2, <1>5, <1>6, CalmStep DEF Ask, world, stored

LEMMA QueryOracleKeeps ==
  ASSUME IInv, TypeOK', NEW c \in Clients, QueryOracle(c)
  PROVE  IInv'
<1>1. PICK answer \in {Unavailable} \cup IF Verified(ledger) THEN {Response(ledger)} ELSE {} :
        call' = [call EXCEPT ![c].answer = answer]
  BY DEF QueryOracle
<1>2. pc[c] = "query" /\ UNCHANGED <<ledger, runs, log, reports, replays>>
  BY DEF QueryOracle, Goto, world, stored
<1>3. /\ call[c] \in AskCalls
      /\ \A replay \in call[c].replay : IntentOK(c, replay)
  BY <1>2 DEF IInv, ClientInv, InAsk, Answered, Created, Based, Witnessed, Reported
<1>4. /\ \A d \in Clients \ {c} : pc'[d] = pc[d] /\ call'[d] = call[d]
      /\ pc'[c] = "create" /\ call'[c] = [call[c] EXCEPT !.answer = answer]
  BY <1>1 DEF QueryOracle, Goto, IInv, TypeOK
<1>5. ledger \in Seq(Events)
  BY DEF IInv, TypeOK
<1>6. AnswerRests(answer)
  <2>1. CASE answer = Unavailable
    BY <2>1 DEF AnswerRests, Unavailable
  <2>2. CASE answer # Unavailable
    <3>1. Verified(ledger) /\ answer = Response(ledger)
      BY <1>1, <2>2
    <3>2. QED
      BY <1>5, <3>1, ResponseIsSaid DEF AnswerRests
  <2>3. QED
    BY <2>1, <2>2
<1>7. \A run \in DOMAIN runs : answer = Unavailable \/ runs[run].refs \subseteq answer.refs
  <2> SUFFICES ASSUME NEW run \in DOMAIN runs, answer # Unavailable
               PROVE  runs[run].refs \subseteq answer.refs
    OBVIOUS
  <2>1. Verified(ledger) /\ answer = Response(ledger)
    BY <1>1
  <2>2. runs[run].refs = {} \/ Said(ledger, runs[run].state, runs[run].refs)
    BY DEF IInv, RunsRest, RunRests
  <2>3. QED
    BY <1>5, <2>1, <2>2, ResponseIsSaid
<1>8. /\ call'[c].answer = answer /\ call'[c].mode = call[c].mode
      /\ call'[c].snapshot = call[c].snapshot /\ call'[c].members = call[c].members
      /\ call'[c].replay = call[c].replay /\ call'[c].kind = "ask"
  BY <1>3, <1>4 DEF AskCalls
<1>9. call'[c] \in AskCalls
  BY <1>8 DEF TypeOK, NoCall, ReplayCalls
<1>10. AnswerRests(call[c].answer)'
  BY <1>2, <1>6, <1>8 DEF AnswerRests
<1>11. ASSUME NEW replay \in call'[c].replay PROVE IntentOK(c, replay)'
  <2>1. IntentOK(c, replay)
    BY <1>3, <1>8, <1>11
  <2>2. KeepsCouncil(replay.original, replay.class, replay.allowed, call[c].members)'
    BY <1>2, <1>8, <2>1, SameLogs DEF IntentOK, KeepsCouncil
  <2>3. QED
    BY <1>2, <1>4, <1>7, <1>8, <2>1, <2>2
      DEF IntentOK, Answered, Created, Based, Witnessed, Reported
<1>12. ClientInv(c)'
  BY <1>4, <1>9, <1>10, <1>11
    DEF ClientInv, InAsk, Answered, Created, Based, Witnessed, Reported
<1>13. RunsAreApart'
  BY <1>4, ApartStays DEF Created, Based, Witnessed, Reported
<1>14. QED
  BY <1>2, <1>4, <1>12, <1>13, CalmStep

LEMMA ReplayKeeps ==
  ASSUME IInv, TypeOK', NEW c \in Clients, Replay(c)
  PROVE  IInv'
<1>1. PICK config \in Configs, run \in DOMAIN runs, allowed \in BOOLEAN :
        /\ CouncilChanged(run, config) => allowed
        /\ call' = [call EXCEPT ![c] =
             [kind |-> "replay", config |-> config, run |-> run,
              class |-> Classification(run, config), allowed |-> allowed]]
  BY DEF Replay
<1>2. UNCHANGED <<ledger, runs, log, reports, replays>>
  BY DEF Replay, world, stored
<1>3. /\ \A d \in Clients \ {c} : pc'[d] = pc[d] /\ call'[d] = call[d]
      /\ pc'[c] = "replay"
      /\ call'[c] = [kind |-> "replay", config |-> config, run |-> run,
                     class |-> Classification(run, config), allowed |-> allowed]
  BY <1>1 DEF Replay, Goto, IInv, TypeOK
<1>4. /\ call'[c].run = run /\ call'[c].class = Classification(run, config)
      /\ call'[c].allowed = allowed /\ call'[c].config = config /\ call'[c].kind = "replay"
  BY <1>3
<1>5. call'[c] \in ReplayCalls
  BY <1>4 DEF TypeOK, NoCall, AskCalls
<1>6. KeepsCouncil(run, Classification(run, config), allowed, config.roster)
  <2> SUFFICES ASSUME ~allowed, Classification(run, config).complete,
                      runs[run].mode = "council"
               PROVE  Has(run, "basis") /\ Basis(run).members = config.roster
    BY DEF KeepsCouncil
  <2>1. Basis(run).complete
    BY DEF Classification
  <2>2. Has(run, "basis")
    BY <2>1, BasisType DEF IInv
  <2>3. ~CouncilChanged(run, config)
    BY <1>1
  <2>4. QED
    BY <2>1, <2>2, <2>3 DEF CouncilChanged
<1>7. KeepsCouncil(call[c].run, call[c].class, call[c].allowed, call[c].config.roster)'
  BY <1>2, <1>4, <1>6, SameLogs DEF KeepsCouncil
<1>8. ClientInv(c)'
  BY <1>2, <1>3, <1>4, <1>5, <1>7
    DEF ClientInv, InAsk, Answered, Created, Based, Witnessed, Reported
<1>9. RunsAreApart'
  BY <1>3, ApartStays DEF Created, Based, Witnessed, Reported
<1>10. QED
  BY <1>2, <1>3, <1>8, <1>9, CalmStep

LEMMA ReaskKeeps ==
  ASSUME IInv, TypeOK', NEW c \in Clients, Reask(c)
  PROVE  IInv'
<1>1. UNCHANGED <<ledger, runs, log, reports, replays>> /\ pc[c] = "replay"
  BY DEF Reask, world, stored
<1>2. CASE End(c)
  BY <1>1, <1>2, EndClient, CalmStep
<1>3. CASE ~End(c)
  <2>1. PICK original, intent, new :
          /\ original = call[c].run
          /\ intent = [original |-> original, class |-> call[c].class,
                       allowed |-> call[c].allowed, before |-> log[original]]
          /\ new = Asking(call[c].config, runs[original].mode, call[c].config.roster,
                          SnapshotOf(original), {intent})
    OBVIOUS
  <2>2. /\ \A d \in Clients \ {c} : pc'[d] = pc[d] /\ call'[d] = call[d]
        /\ pc'[c] = "query" /\ call'[c] = new
    BY <1>3, <2>1 DEF Reask, IInv, TypeOK
  <2>3. /\ call[c] \in ReplayCalls /\ original \in DOMAIN runs
        /\ KeepsCouncil(original, call[c].class, call[c].allowed, call[c].config.roster)
    BY <1>1, <2>1 DEF IInv, ClientInv
  <2>4. /\ new.kind = "ask" /\ new.mode = runs[original].mode
        /\ new.snapshot = runs[original].snapshot /\ new.replay = {intent}
        /\ new.mode = "council" => new.members = call[c].config.roster
    BY <2>1 DEF Asking, SnapshotOf
  <2>5. call'[c] \in AskCalls
    BY <2>2, <2>4 DEF TypeOK, NoCall, ReplayCalls
  <2>6. intent \in Intents
    <3>1. original \in Nat /\ log[original] \in Seq(LogEvents)
      BY <2>3 DEF IInv, TypeOK
    <3>2. call[c].class \in Classes /\ call[c].allowed \in BOOLEAN
      BY <2>3 DEF ReplayCalls
    <3>3. QED
      BY <2>1, <3>1, <3>2 DEF Intents
  <2>7. /\ intent.original = original /\ intent.class = call[c].class
        /\ intent.allowed = call[c].allowed
    BY <2>1
  <2>8. KeepsCouncil(intent.original, intent.class, intent.allowed, call[c].members)'
    BY <1>1, <2>2, <2>3, <2>4, <2>7, SameLogs DEF KeepsCouncil
  <2>9. IntentOK(c, intent)'
    BY <1>1, <2>2, <2>3, <2>4, <2>6, <2>7, <2>8
      DEF IntentOK, Answered, Created, Based, Witnessed, Reported
  <2>10. ClientInv(c)'
    BY <2>2, <2>4, <2>5, <2>9
      DEF ClientInv, InAsk, Answered, Created, Based, Witnessed, Reported
  <2>11. RunsAreApart'
    BY <2>2, ApartStays DEF Created, Based, Witnessed, Reported
  <2>12. QED
    BY <1>1, <2>2, <2>10, <2>11, CalmStep
<1>4. QED
  BY <1>2, <1>3

LEMMA OtherCallsKeep ==
  ASSUME IInv, TypeOK', NEW c \in Clients,
         CouncilRefused(c) \/ Asked(c) \/ Compare(c) \/ Fail(c)
  PROVE  IInv'
<1>1. UNCHANGED <<ledger, runs, log, reports, replays>>
  BY DEF CouncilRefused, Asked, Compare, Fail, world, stored
<1>2. CASE End(c)
  BY <1>1, <1>2, EndClient, CalmStep
<1>3. CASE ~End(c)
  <2>1. /\ UNCHANGED call /\ pc[c] \in {"asked", "compare"}
        /\ \E to \in {"compare", "report"} : pc' = [pc EXCEPT ![c] = to]
    BY <1>3 DEF CouncilRefused, Asked, Compare, Fail
  <2>2. pc' = [pc EXCEPT ![c] = pc'[c]] /\ pc'[c] \in {"compare", "report"}
    BY <2>1 DEF IInv, TypeOK
  <2>3. pc[c] \in Witnessed \ Reported /\ pc'[c] \in Witnessed \ Reported
    BY <2>1, <2>2 DEF Witnessed, Reported
  <2>4. QED
    BY <1>1, <2>1, <2>2, <2>3, CallGoesOn, CalmStep
<1>4. QED
  BY <1>2, <1>3

-----------------------------------------------------------------------------
(* Steps that append to a log                                              *)

\* An asker's next step, when its run says what the step asks for.
LEMMA OwnerMoves ==
  ASSUME IInv, Stable, NEW c \in Clients, pc[c] \in Created \ Reported,
         pc'[c] \in Based \ Reported, call'[c] = call[c],
         Has(call[c].run, "basis")', Basis(call[c].run)'.members = call[c].members,
         pc'[c] \in Witnessed => Has(call[c].run, "evidence")',
         ReplaysMaking(call[c].run)' = {}
  PROVE  ClientInv(c)'
<1>1. /\ call[c] \in AskCalls /\ AnswerRests(call[c].answer) /\ RunOfCall(c)
      /\ \A replay \in call[c].replay : IntentOK(c, replay)
  BY DEF IInv, ClientInv, InAsk, Answered, Created
<1>2. AnswerRests(call[c].answer)'
  BY <1>1 DEF AnswerRests, Stable
<1>3. RunOfCall(c)'
  <2>1. /\ call[c].run \in DOMAIN runs /\ runs'[call[c].run] = runs[call[c].run]
        /\ call[c].run \in DOMAIN runs'
    BY <1>1 DEF RunOfCall, Stable
  <2>2. /\ runs[call[c].run].mode = call[c].mode
        /\ runs[call[c].run].snapshot = call[c].snapshot
        /\ runs[call[c].run].refs = call[c].answer.refs
        /\ runs[call[c].run].state = call[c].answer.state
    BY <1>1 DEF RunOfCall
  <2>3. pc'[c] # "basis" /\ pc'[c] # "link"
    BY DEF Based, Witnessed, Reported
  <2>4. QED
    BY <2>1, <2>2, <2>3 DEF RunOfCall
<1>4. ASSUME NEW replay \in call[c].replay PROVE IntentOK(c, replay)'
  <2>1. IntentOK(c, replay)
    BY <1>1
  <2>2. KeepsCouncil(replay.original, replay.class, replay.allowed, call[c].members)'
    BY <2>1 DEF IntentOK, Stable, KeepsCouncil
  <2>3. QED
    BY <2>1, <2>2 DEF IntentOK, Stable, Answered, Created
<1>5. QED
  BY <1>1, <1>2, <1>3, <1>4
    DEF ClientInv, InAsk, Answered, Created, Based, Witnessed, Reported

LEMMA RecordBasisKeeps ==
  ASSUME IInv, TypeOK', NEW c \in Clients, RecordBasis(c)
  PROVE  IInv'
<1>1. PICK event :
        event = [kind |-> "basis", members |-> call[c].members,
                 complete |-> \/ call[c].mode # "council"
                              \/ call[c].members # NoRoster
                              \/ ~call[c].nexus]
  OBVIOUS
<1>2. PICK run : run = call[c].run
  OBVIOUS
<1>3. /\ AppendEvent(run, event) /\ pc[c] = "basis" /\ call' = call
      /\ UNCHANGED <<ledger, runs, reports, replays>>
  BY <1>1, <1>2 DEF RecordBasis, Goto, world, stored
<1>4. /\ \A d \in Clients \ {c} : pc'[d] = pc[d] /\ call'[d] = call[d]
      /\ pc'[c] = "evidence"
  BY <1>3 DEF RecordBasis, Goto, IInv, TypeOK
<1>5. run \in DOMAIN runs /\ ReplaysMaking(run) = {} /\ ~Has(run, "basis")
  BY <1>2, <1>3, RunKnown DEF Created
<1>6. event \in LogEvents
  <2>1. call[c] \in AskCalls
    BY <1>3 DEF IInv, ClientInv, InAsk, Answered, Created
  <2>2. QED
    BY <1>1, <2>1 DEF LogEvents, Unlinked, AskCalls
<1>7. EventFits(run, event) /\ event.kind = "basis" /\ event.members = call[c].members
  BY <1>1, <1>5 DEF EventFits
<1>8. Stable
  BY <1>3, <1>5, <1>6, <1>7, AppendKeeps
<1>9. Has(run, "basis")' /\ Latest(run, "basis")' = event
  BY <1>3, <1>5, <1>6, <1>7, KindsAfterAppend DEF IInv
<1>10. Basis(run)'.members = call[c].members
  BY <1>7, <1>9 DEF Basis
<1>11. ReplaysMaking(run)' = {}
  BY <1>3, <1>5 DEF ReplaysMaking
<1>12. ClientInv(c)'
  <2>1. pc[c] \in Created \ Reported /\ pc'[c] \in Based \ Reported
        /\ pc'[c] \notin Witnessed
    BY <1>3, <1>4 DEF Created, Based, Witnessed, Reported
  <2>2. QED
    BY <1>2, <1>3, <1>8, <1>9, <1>10, <1>11, <2>1, OwnerMoves
<1>13. RunsAreApart'
  BY <1>3, <1>4, ApartStays DEF Created
<1>14. \A d \in Clients \ {c} : pc[d] \in Created => call[d].run # run
  BY <1>2, <1>3 DEF IInv, RunsAreApart, Created
<1>15. QED
  BY <1>3, <1>4, <1>5, <1>6, <1>7, <1>12, <1>13, <1>14, AppendStep

LEMMA RecordMoreKeeps ==
  ASSUME IInv, TypeOK', NEW c \in Clients,
         RecordEvidence(c) \/ CouncilResponds(c) \/ CouncilUnavailable(c)
  PROVE  IInv'
<1>1. PICK run : run = call[c].run
  OBVIOUS
<1>2. /\ call' = call /\ UNCHANGED <<ledger, runs, reports, replays>>
      /\ pc[c] \in {"evidence", "council"}
  BY DEF RecordEvidence, CouncilResponds, CouncilUnavailable, Goto, world, stored
<1>3. /\ call[c] \in AskCalls /\ AnswerRests(call[c].answer) /\ RunOfCall(c)
  BY <1>2 DEF IInv, ClientInv, InAsk, Answered, Created, Based, Witnessed, Reported
<1>4. PICK event \in LogEvents :
        /\ AppendEvent(run, event) /\ EventFits(run, event)
        /\ event.kind # "basis" /\ (pc[c] = "evidence" => event.kind = "evidence")
  <2>1. CASE RecordEvidence(c)
    <3> DEFINE evidence == [kind |-> "evidence", available |-> call[c].answer.available,
                            state |-> call[c].answer.state, refs |-> call[c].answer.refs]
    <3>1. evidence \in LogEvents
      BY <1>3 DEF LogEvents, Unlinked, AskCalls, Answers
    <3>2. EventFits(run, evidence)
      BY <1>1, <1>3 DEF EventFits, RunOfCall, AnswerRests, Unavailable
    <3>3. QED
      BY <1>1, <2>1, <3>1, <3>2 DEF RecordEvidence
  <2>2. CASE CouncilResponds(c)
    <3>1. PICK live \in Live :
            AppendEvent(run, [kind |-> "response", roster |-> call[c].members, live |-> live])
      BY <1>1, <2>2 DEF CouncilResponds
    <3> DEFINE response == [kind |-> "response", roster |-> call[c].members, live |-> live]
    <3>2. live \in BOOLEAN
      BY AskReplayAssumption
    <3>3. response \in LogEvents
      BY <1>3, <3>2 DEF LogEvents, Unlinked, AskCalls
    <3>4. QED
      BY <2>2, <3>1, <3>3 DEF EventFits, CouncilResponds, Goto
  <2>3. CASE CouncilUnavailable(c)
    <3>1. NoCouncil \in LogEvents
      BY DEF NoCouncil, LogEvents, Unlinked, Rosters
    <3>2. QED
      BY <1>1, <2>3, <3>1 DEF EventFits, NoCouncil, CouncilUnavailable, Goto
  <2>4. QED
    BY <2>1, <2>2, <2>3
<1>5. /\ \A d \in Clients \ {c} : pc'[d] = pc[d] /\ call'[d] = call[d]
      /\ pc'[c] \in {"council", "asked"}
  BY <1>2 DEF RecordEvidence, CouncilResponds, CouncilUnavailable, Goto, IInv, TypeOK
<1>6. /\ run \in DOMAIN runs /\ ReplaysMaking(run) = {}
      /\ Has(run, "basis") /\ Basis(run).members = call[c].members
      /\ pc[c] = "council" => Has(run, "evidence")
  BY <1>1, <1>2, <1>3 DEF RunOfCall, Witnessed
<1>7. Stable
  BY <1>2, <1>4, <1>6, AppendKeeps
<1>8. Has(run, "basis")' /\ Basis(run)'.members = call[c].members
  BY <1>6, <1>7 DEF Stable
<1>9. Has(run, "evidence")'
  <2>1. CASE pc[c] = "council"
    BY <1>6, <1>7, <2>1 DEF Stable
  <2>2. CASE pc[c] = "evidence"
    BY <1>4, <1>6, <2>2, KindsAfterAppend DEF IInv
  <2>3. QED
    BY <1>2, <2>1, <2>2
<1>10. ReplaysMaking(run)' = {}
  BY <1>2, <1>6 DEF ReplaysMaking
<1>11. pc[c] \in Created \ Reported /\ pc'[c] \in Based \ Reported
  BY <1>2, <1>5 DEF Created, Based, Witnessed, Reported
<1>12. ClientInv(c)'
  BY <1>1, <1>2, <1>7, <1>8, <1>9, <1>10, <1>11, OwnerMoves
<1>13. RunsAreApart'
  BY <1>2, <1>5, <1>11, ApartStays
<1>14. QED
  BY <1>2, <1>4, <1>5, <1>6, <1>12, <1>13, AppendStep

LEMMA LinkKeeps ==
  ASSUME IInv, TypeOK', NEW c \in Clients, Link(c)
  PROVE  IInv'
<1>1. PICK replay \in call[c].replay :
        AppendEvent(call[c].run,
          [kind |-> "link", original |-> replay.report.original, report |-> replay.report])
  BY DEF Link
<1>2. PICK run, event :
        /\ run = call[c].run
        /\ event = [kind |-> "link", original |-> replay.report.original,
                    report |-> replay.report]
  OBVIOUS
<1>3. /\ AppendEvent(run, event) /\ pc[c] = "link" /\ End(c)
      /\ UNCHANGED <<ledger, runs, reports, replays>>
  BY <1>1, <1>2 DEF Link, world, stored
<1>4. WrittenOK(c, replay) /\ run \in DOMAIN runs
  BY <1>1, <1>2, <1>3 DEF IInv, ClientInv, RunOfCall, InAsk, Answered, Created, Based,
    Witnessed, Reported
<1>5. event \in LogEvents
  BY <1>2, <1>4 DEF WrittenOK, LogEvents, Written, Reports
<1>6. LinkOK(run, event)
  <2>1. PICK record \in replays : record.report = replay.report
    BY <1>3, <1>4 DEF WrittenOK
  <2>2. RecordOK(record)
    BY DEF IInv
  <2>3. QED
    BY <1>2, <1>4, <2>1, <2>2 DEF RecordOK, WrittenOK, LinkOK
<1>7. EventFits(run, event) /\ event.kind = "link"
  BY <1>2, <1>6 DEF EventFits
<1>8. QED
  BY <1>3, <1>4, <1>5, <1>7, EndClient, AppendStep

LEMMA RecordModelStateKeeps ==
  ASSUME IInv, TypeOK', RecordModelState
  PROVE  IInv'
<1> DEFINE event == [kind |-> "model_state", unseeded |-> TRUE]
<1>1. PICK run \in DOMAIN runs : AppendEvent(run, event)
  BY DEF RecordModelState
<1>2. /\ event \in LogEvents /\ EventFits(run, event) /\ event.kind = "model_state"
  BY DEF LogEvents, Unlinked, EventFits
<1>3. UNCHANGED <<ledger, runs, reports, replays, pc, call>>
  BY DEF RecordModelState, world, stored
<1>4. RunsAreApart'
  BY <1>3 DEF IInv, RunsAreApart
<1>5. PICK c : c \notin Clients
  <2>1. (CHOOSE c : c \notin Clients) \notin Clients
    BY NoSetContainsEverything
  <2>2. QED
    BY <2>1
<1> HIDE DEF event
<1>6. QED
  BY <1>1, <1>2, <1>3, <1>4, <1>5, AppendStep

-----------------------------------------------------------------------------
(* Steps that make runs, reports and replay records                        *)

LEMMA CreateRunKeeps ==
  ASSUME IInv, TypeOK', NEW c \in Clients, CreateRun(c)
  PROVE  IInv'
<1>1. PICK run, n :
        /\ run = [mode |-> call[c].mode, snapshot |-> call[c].snapshot,
                  replayability |-> "R3", refs |-> call[c].answer.refs,
                  state |-> IF call[c].answer.refs = {} THEN "unknown"
                            ELSE call[c].answer.state]
        /\ n = Len(runs) + 1
  OBVIOUS
<1>2. /\ runs' = Append(runs, run) /\ log' = Append(log, <<>>) /\ pc[c] = "create"
      /\ UNCHANGED <<ledger, reports, replays>>
  BY <1>1 DEF CreateRun, Goto, world, stored
<1>3. /\ call[c] \in AskCalls /\ AnswerRests(call[c].answer)
      /\ \A replay \in call[c].replay : IntentOK(c, replay)
  BY <1>2 DEF IInv, ClientInv, InAsk, Answered, Created, Based, Witnessed, Reported
<1>4. /\ run.mode = call[c].mode /\ run.snapshot = call[c].snapshot
      /\ run.refs = call[c].answer.refs /\ run.state = call[c].answer.state
  BY <1>1, <1>3 DEF AnswerRests
<1>5. /\ runs \in Seq(Run) /\ log \in Seq(Seq(LogEvents)) /\ Len(log) = Len(runs)
      /\ runs' \in Seq(Run)
  BY DEF IInv, TypeOK
<1>6. /\ n \in Nat /\ n = Len(log) + 1
      /\ DOMAIN runs = 1 .. Len(runs) /\ DOMAIN runs' = 1 .. n /\ Len(runs') = n
      /\ runs'[n] = run /\ log'[n] = <<>>
      /\ \A r \in DOMAIN runs : runs'[r] = runs[r] /\ log'[r] = log[r] /\ r < n
  <2>1. Len(runs') = Len(runs) + 1
    BY <1>2, <1>5
  <2>2. runs'[Len(runs) + 1] = run /\ \A i \in 1 .. Len(runs) : runs'[i] = runs[i]
    BY <1>2, <1>5
  <2>3. <<>> \in Seq(LogEvents)
    BY EmptySeq
  <2>4. log'[Len(log) + 1] = <<>> /\ \A i \in 1 .. Len(log) : log'[i] = log[i]
    BY <1>2, <1>5, <2>3, AppendProperties
  <2>5. Len(runs) \in Nat /\ DOMAIN runs = 1 .. Len(runs) /\ DOMAIN runs' = 1 .. Len(runs')
    BY <1>5
  <2>6. \A k : k \in Nat => \A i \in 1 .. k : i < k + 1
    OBVIOUS
  <2>7. QED
    BY <1>1, <1>5, <2>1, <2>2, <2>4, <2>5, <2>6
<1>7. \A r : r \in DOMAIN runs' <=> r \in DOMAIN runs \/ r = n
  <2>1. \A k, r : k \in Nat => (r \in 1 .. k + 1 <=> r \in 1 .. k \/ r = k + 1)
    OBVIOUS
  <2>2. Len(runs) \in Nat
    BY <1>5
  <2>3. QED
    BY <1>1, <1>6, <2>1, <2>2
<1>8. \A r \in DOMAIN runs :
        /\ \A kind : Has(r, kind)' = Has(r, kind) /\ Latest(r, kind)' = Latest(r, kind)
        /\ Basis(r)' = Basis(r) /\ EvidenceRefs(r)' = EvidenceRefs(r)
  <2> SUFFICES ASSUME NEW r \in DOMAIN runs
               PROVE  /\ \A kind : Has(r, kind)' = Has(r, kind)
                                   /\ Latest(r, kind)' = Latest(r, kind)
                      /\ Basis(r)' = Basis(r) /\ EvidenceRefs(r)' = EvidenceRefs(r)
    OBVIOUS
  <2>1. \A kind : Entries(r, kind)' = Entries(r, kind)
    BY <1>6 DEF Entries
  <2>2. \A kind : Has(r, kind)' = Has(r, kind) /\ Latest(r, kind)' = Latest(r, kind)
    BY <1>6, <2>1 DEF Has, Latest
  <2>3. QED
    BY <2>2 DEF Basis, EvidenceRefs
<1>9. Stable
  BY <1>2, <1>6, <1>7, <1>8 DEF Stable
<1>10. \A kind : Has(n, kind)' = FALSE
  BY <1>6 DEF Has, Entries
<1>11. \A r : ReplaysMaking(r)' = ReplaysMaking(r)
  BY <1>2 DEF ReplaysMaking
<1>12. ReplaysMaking(n) = {}
  BY <1>6 DEF IInv, RecordOK, ReportOK, ReplaysMaking
<1>13. RunsRest'
  <2>1. RunRests(ledger, run, <<>>)
    BY <1>3, <1>4 DEF RunRests, AnswerRests, Unavailable
  <2>2. \A r \in DOMAIN runs : RunRests(ledger, runs[r], log[r])
    BY DEF IInv, RunsRest
  <2>3. \A r \in DOMAIN runs' : RunRests(ledger', runs'[r], log'[r])
    BY <1>2, <1>6, <1>7, <2>1, <2>2
  <2>4. QED
    BY <2>3 DEF RunsRest, RunRests
<1>14. LinksOK'
  BY <1>2, <1>6, <1>7 DEF IInv, LinksOK, LinkOK
<1>15. /\ \A d \in Clients \ {c} : pc'[d] = pc[d] /\ call'[d] = call[d]
       /\ pc'[c] = "basis" /\ call'[c] = [call[c] EXCEPT !.run = n]
  BY <1>6 DEF CreateRun, Goto, IInv, TypeOK
<1>16. /\ call'[c].run = n /\ call'[c].kind = "ask" /\ call'[c].mode = call[c].mode
       /\ call'[c].snapshot = call[c].snapshot /\ call'[c].members = call[c].members
       /\ call'[c].answer = call[c].answer /\ call'[c].replay = call[c].replay
  BY <1>3, <1>15 DEF AskCalls
<1>17. call'[c] \in AskCalls
  BY <1>16 DEF TypeOK, NoCall, ReplayCalls
<1>18. RunOfCall(c)'
  BY <1>4, <1>6, <1>7, <1>10, <1>11, <1>12, <1>15, <1>16 DEF RunOfCall, Witnessed, Reported
<1>19. ASSUME NEW replay \in call'[c].replay PROVE IntentOK(c, replay)'
  <2>1. IntentOK(c, replay)
    BY <1>3, <1>16, <1>19
  <2>2. KeepsCouncil(replay.original, replay.class, replay.allowed, call[c].members)'
    BY <1>16, <2>1, <1>9 DEF IntentOK, KeepsCouncil, Stable
  <2>3. QED
    BY <1>2, <1>6, <1>9, <1>15, <1>16, <2>1, <2>2
      DEF IntentOK, Stable, Answered, Created, Based, Witnessed, Reported
<1>20. AnswerRests(call[c].answer)'
  BY <1>2, <1>3, <1>16 DEF AnswerRests
<1>21. ClientInv(c)'
  BY <1>15, <1>17, <1>18, <1>19, <1>20
    DEF ClientInv, InAsk, Answered, Created, Based, Witnessed, Reported
<1>22. \A d \in Clients \ {c} : ClientInv(d)'
  <2>1. ASSUME NEW d \in Clients \ {c}, pc[d] \in Created
        PROVE  /\ pc[d] = "basis" => ~Has(call[d].run, "basis")'
               /\ pc[d] # "link" => ReplaysMaking(call[d].run)' = {}
    <3>1. PICK r : r = call[d].run
      OBVIOUS
    <3>2. /\ r \in DOMAIN runs
          /\ pc[d] = "basis" => ~Has(r, "basis")
          /\ pc[d] # "link" => ReplaysMaking(r) = {}
      BY <2>1, <3>1, RunKnown
    <3>3. Has(r, "basis")' = Has(r, "basis") /\ ReplaysMaking(r)' = ReplaysMaking(r)
      BY <1>8, <1>11, <3>2
    <3>4. call'[d] = call[d]
      BY <1>15
    <3>5. QED
      BY <3>1, <3>2, <3>3, <3>4 DEF Has, ReplaysMaking, Entries
  <2>2. QED
    BY <1>9, <1>15, <2>1, OthersStay
<1>23. RunsAreApart'
  <2>1. \A d \in Clients : pc[d] \in Created => call[d].run # n
    BY <1>6, RunKnown
  <2>2. QED
    BY <1>15, <1>16, <2>1 DEF IInv, RunsAreApart
<1>24. \A report \in reports' : ReportOK(report)'
  BY <1>2, <1>9, ReportStays DEF IInv
<1>25. \A record \in replays' : RecordOK(record)'
  BY <1>2, <1>9, <1>11, RecordStays
<1>26. QED
  BY <1>13, <1>14, <1>21, <1>22, <1>23, <1>24, <1>25 DEF IInv

LEMMA WriteReportKeeps ==
  ASSUME IInv, TypeOK', NEW c \in Clients, WriteReport(c)
  PROVE  IInv'
<1>1. PICK replay \in call[c].replay :
        LET report == Report(replay, call[c].run) IN
          /\ reports' = reports \cup {report}
          /\ call' = [call EXCEPT ![c].replay =
               {[report |-> report, allowed |-> replay.allowed]}]
  BY DEF WriteReport
<1>2. PICK run, report, written :
        /\ run = call[c].run /\ report = Report(replay, run)
        /\ written = [report |-> report, allowed |-> replay.allowed]
  OBVIOUS
<1>3. /\ UNCHANGED <<ledger, runs, log, replays>> /\ pc[c] = "report"
      /\ reports' = reports \cup {report}
  BY <1>1, <1>2 DEF WriteReport, Goto, world
<1>4. /\ \A d \in Clients \ {c} : pc'[d] = pc[d] /\ call'[d] = call[d]
      /\ pc'[c] = "record" /\ call'[c] = [call[c] EXCEPT !.replay = {written}]
  BY <1>1, <1>2 DEF WriteReport, Goto, IInv, TypeOK
<1>5. /\ call[c] \in AskCalls /\ AnswerRests(call[c].answer) /\ RunOfCall(c)
      /\ IntentOK(c, replay)
  BY <1>1, <1>3 DEF IInv, ClientInv, InAsk, Answered, Created, Based, Witnessed, Reported
<1>6. /\ call'[c].run = run /\ call'[c].kind = "ask" /\ call'[c].mode = call[c].mode
      /\ call'[c].snapshot = call[c].snapshot /\ call'[c].members = call[c].members
      /\ call'[c].answer = call[c].answer /\ call'[c].replay = {written}
  BY <1>2, <1>4, <1>5 DEF AskCalls
<1>7. call'[c] \in AskCalls
  BY <1>6 DEF TypeOK, NoCall, ReplayCalls
<1>8. /\ report.original = replay.original /\ report.run = run /\ report.class = replay.class
      /\ report.removed = EvidenceRefs(replay.original) \ EvidenceRefs(run)
      /\ report.sameMembers = (Basis(run).members = Basis(replay.original).members)
  BY <1>2 DEF Report
<1>9. /\ run \in DOMAIN runs /\ replay.original \in DOMAIN runs /\ replay.original < run
      /\ runs[run].mode = runs[replay.original].mode
      /\ runs[run].snapshot = runs[replay.original].snapshot
      /\ Has(run, "basis") /\ Has(run, "evidence") /\ Basis(run).members = call[c].members
      /\ runs[run].refs = call[c].answer.refs /\ ReplaysMaking(run) = {}
  BY <1>2, <1>3, <1>5 DEF RunOfCall, IntentOK, Created, Based, Witnessed, Reported
<1>10. Stable /\ RunsRest' /\ LinksOK'
  BY <1>3, StillStep
<1>11. ReportOK(report)
  <2>1. EvidenceRefs(run) = runs[run].refs
    BY <1>9, EvidenceOf DEF IInv
  <2>2. CASE ~Has(replay.original, "evidence")
    BY <1>8, <1>9, <2>2 DEF ReportOK, EvidenceRefs
  <2>3. CASE Has(replay.original, "evidence")
    <3>1. EvidenceRefs(replay.original) = runs[replay.original].refs
      BY <1>9, <2>3, EvidenceOf DEF IInv
    <3>2. call[c].answer = Unavailable \/ runs[replay.original].refs \subseteq runs[run].refs
      BY <1>3, <1>5, <1>9
        DEF IntentOK, Answered, Created, Based, Witnessed, Reported
    <3>3. CASE call[c].answer = Unavailable
      BY <1>8, <1>9, <2>1, <2>3, <3>3 DEF ReportOK, Unavailable
    <3>4. CASE runs[replay.original].refs \subseteq runs[run].refs
      BY <1>8, <1>9, <2>1, <3>1, <3>4 DEF ReportOK
    <3>5. QED
      BY <3>2, <3>3, <3>4
  <2>4. QED
    BY <2>2, <2>3
<1>12. KeptCouncil(report, replay.allowed)
  BY <1>5, <1>8, <1>9 DEF IntentOK, KeepsCouncil, KeptCouncil
<1>13. KeptCouncil(report, replay.allowed)'
  BY <1>8, <1>9, <1>10, <1>12, KeptStays
<1>14. WrittenOK(c, written)'
  <2>1. written.report = report /\ written.allowed = replay.allowed
    BY <1>2
  <2>2. written \in Written
    <3>1. report \in Reports /\ replay.allowed \in BOOLEAN
      BY <1>3, <1>5 DEF TypeOK, IntentOK, Intents
    <3>2. QED
      BY <1>2, <3>1 DEF Written
  <2>3. QED
    BY <1>3, <1>4, <1>6, <1>8, <1>13, <2>1, <2>2 DEF WrittenOK
<1>15. RunOfCall(c)'
  <2>1. ReplaysMaking(run)' = {}
    BY <1>3, <1>9 DEF ReplaysMaking
  <2>2. /\ Has(run, "basis")' /\ Has(run, "evidence")'
        /\ Basis(run)' = Basis(run)
    BY <1>3, <1>9, SameLogs
  <2>3. QED
    BY <1>2, <1>3, <1>4, <1>5, <1>6, <1>9, <2>1, <2>2 DEF RunOfCall
<1>16. AnswerRests(call[c].answer)'
  BY <1>3, <1>5, <1>6 DEF AnswerRests
<1>17. ClientInv(c)'
  BY <1>4, <1>6, <1>7, <1>14, <1>15, <1>16
    DEF ClientInv, InAsk, Answered, Created, Based, Witnessed, Reported
<1>18. \A r : ReplaysMaking(r)' = ReplaysMaking(r)
  BY <1>3 DEF ReplaysMaking
<1>19. \A d \in Clients \ {c} : ClientInv(d)'
  BY <1>3, <1>4, <1>10, <1>18, OthersStay, RunKnown, SameLogs
<1>20. RunsAreApart'
  BY <1>2, <1>3, <1>4, <1>6, ApartStays DEF Created, Based, Witnessed
<1>21. \A r \in reports' : ReportOK(r)'
  BY <1>3, <1>10, <1>11, ReportStays DEF IInv
<1>22. \A record \in replays' : RecordOK(record)'
  BY <1>3, <1>10, <1>18, RecordStays
<1>23. QED
  BY <1>10, <1>17, <1>19, <1>20, <1>21, <1>22 DEF IInv

LEMMA WriteReplayKeeps ==
  ASSUME IInv, TypeOK', NEW c \in Clients, WriteReplay(c)
  PROVE  IInv'
<1>1. PICK replay \in call[c].replay : replays' = replays \cup {ReplayRecord(replay)}
  BY DEF WriteReplay
<1>2. PICK run, record : run = call[c].run /\ record = ReplayRecord(replay)
  OBVIOUS
<1>3. /\ UNCHANGED <<ledger, runs, log, reports, call>> /\ pc[c] = "record"
      /\ replays' = replays \cup {record}
  BY <1>1, <1>2 DEF WriteReplay, Goto, world
<1>4. /\ \A d \in Clients \ {c} : pc'[d] = pc[d] /\ call'[d] = call[d]
      /\ pc'[c] = "link"
  BY <1>3 DEF WriteReplay, Goto, IInv, TypeOK
<1>5. /\ call[c] \in AskCalls /\ AnswerRests(call[c].answer) /\ RunOfCall(c)
      /\ \A other \in call[c].replay : WrittenOK(c, other)
  BY <1>3 DEF IInv, ClientInv, InAsk, Answered, Created, Based, Witnessed, Reported
<1>6. /\ replay \in Written /\ replay.report \in reports /\ replay.report.run = run
      /\ KeptCouncil(replay.report, replay.allowed) /\ ReportOK(replay.report)
  BY <1>2, <1>5 DEF WrittenOK, IInv
<1>7. /\ record.report = replay.report /\ record.run = run
      /\ record.original = replay.report.original /\ record.class = replay.report.class
      /\ record.allowed = replay.allowed /\ record.kept
  BY <1>2, <1>6 DEF ReplayRecord, ReportOK
<1>8. ReplaysMaking(run) = {} /\ run \in DOMAIN runs
  BY <1>2, <1>3, <1>5 DEF RunOfCall
<1>9. /\ ReplaysMaking(run)' = {record}
      /\ \A r : r # run => ReplaysMaking(r)' = ReplaysMaking(r)
  BY <1>3, <1>7, <1>8 DEF ReplaysMaking
<1>10. Stable /\ RunsRest' /\ LinksOK'
  BY <1>3, StillStep
<1>11. RecordOK(record)'
  <2>1. KeptCouncil(record.report, record.allowed)'
    BY <1>6, <1>7, <1>10, KeptStays DEF ReportOK
  <2>2. QED
    BY <1>3, <1>6, <1>7, <1>9, <2>1 DEF RecordOK
<1>12. ASSUME NEW other \in replays PROVE RecordOK(other)'
  <2>1. other.run # run
    BY <1>8 DEF ReplaysMaking
  <2>2. QED
    BY <1>9, <1>10, <2>1, RecordStays
<1>13. \A report \in reports' : ReportOK(report)'
  BY <1>3, <1>10, ReportStays DEF IInv
<1>14. ASSUME NEW other \in call[c].replay PROVE WrittenOK(c, other)'
  <2>1. WrittenOK(c, other) /\ ReportOK(other.report)
    BY <1>5 DEF WrittenOK, IInv
  <2>2. KeptCouncil(other.report, other.allowed)'
    BY <1>10, <2>1, KeptStays DEF WrittenOK, ReportOK
  <2>3. other.report = record.report /\ record \in replays'
    BY <1>3, <1>5, <1>7, <2>1 DEF WrittenOK
  <2>4. QED
    BY <1>3, <2>1, <2>2, <2>3 DEF WrittenOK
<1>15. RunOfCall(c)'
  BY <1>3, <1>4, <1>5, SameLogs DEF RunOfCall, Witnessed, Reported
<1>16. AnswerRests(call[c].answer)'
  BY <1>3, <1>5 DEF AnswerRests
<1>17. ClientInv(c)'
  BY <1>3, <1>4, <1>5, <1>14, <1>15, <1>16
    DEF ClientInv, InAsk, Answered, Created, Based, Witnessed, Reported
<1>18. \A d \in Clients \ {c} : ClientInv(d)'
  <2>1. ASSUME NEW d \in Clients \ {c}, pc[d] \in Created
        PROVE  /\ pc[d] = "basis" => ~Has(call[d].run, "basis")'
               /\ pc[d] # "link" => ReplaysMaking(call[d].run)' = {}
    <3>1. call[d].run # run
      BY <1>2, <1>3, <2>1
        DEF IInv, RunsAreApart, Created, Based, Witnessed, Reported
    <3>2. QED
      BY <1>3, <1>9, <2>1, <3>1, RunKnown, SameLogs
  <2>2. QED
    BY <1>3, <1>4, <1>10, <2>1, OthersStay
<1>19. RunsAreApart'
  BY <1>3, <1>4, ApartStays DEF Created, Based, Witnessed, Reported
<1>20. QED
  BY <1>3, <1>10, <1>11, <1>12, <1>13, <1>17, <1>18, <1>19 DEF IInv

-----------------------------------------------------------------------------
(* Theorems                                                                *)

\* Every step keeps the inductive invariant.
LEMMA IInvStep ==
  ASSUME IInv, [Next]_vars
  PROVE  IInv'
<1>1. TypeOK'
  BY TypeStep
<1>2. CASE UNCHANGED vars
  <2>1. UNCHANGED <<ledger, runs, log, reports, replays, pc, call>>
    BY <1>2 DEF vars, world, stored
  <2>2. Stable /\ RunsRest' /\ LinksOK'
    BY <2>1, StillStep
  <2>3. \A run : ReplaysMaking(run)' = ReplaysMaking(run)
    BY <2>1 DEF ReplaysMaking
  <2>4. \A c \in Clients : ClientInv(c)'
    <3> SUFFICES ASSUME NEW c \in Clients PROVE ClientInv(c)'
      OBVIOUS
    <3>1. pc'[c] = pc[c] /\ call'[c] = call[c]
      BY <2>1
    <3>2. /\ pc[c] = "basis" => ~Has(call[c].run, "basis")'
          /\ pc[c] \in Created \ {"link"} => ReplaysMaking(call[c].run)' = {}
      BY <2>1, <2>3, RunKnown, SameLogs DEF Created
    <3>3. QED
      BY <2>2, <3>1, <3>2, ClientStays DEF IInv
  <2>5. \A report \in reports' : ReportOK(report)'
    BY <2>1, <2>2, ReportStays DEF IInv
  <2>6. \A record \in replays' : RecordOK(record)'
    BY <2>1, <2>2, <2>3, RecordStays
  <2>7. RunsAreApart'
    BY <2>1 DEF IInv, RunsAreApart
  <2>8. QED
    BY <1>1, <2>2, <2>4, <2>5, <2>6, <2>7 DEF IInv
<1>3. CASE OracleAppends \/ OracleRepairs \/ NewSnapshot \/ Lose
  BY <1>1, <1>3, WorldStep
<1>4. CASE RecordModelState
  BY <1>1, <1>4, RecordModelStateKeeps
<1>5. ASSUME NEW c \in Clients, AskStep(c) PROVE IInv'
  BY <1>1, <1>5, AskKeeps, QueryOracleKeeps, CreateRunKeeps, RecordBasisKeeps,
     RecordMoreKeeps, OtherCallsKeep DEF AskStep
<1>6. ASSUME NEW c \in Clients, ReplayStep(c) \/ Fail(c) PROVE IInv'
  <2>1. CASE ReplayRefused(c)
    BY <1>2, <2>1 DEF ReplayRefused
  <2>2. CASE Compare(c) \/ Fail(c)
    BY <1>1, <2>2, OtherCallsKeep
  <2>3. CASE Replay(c) \/ Reask(c) \/ WriteReport(c) \/ WriteReplay(c) \/ Link(c)
    BY <1>1, <2>3, ReplayKeeps, ReaskKeeps, WriteReportKeeps, WriteReplayKeeps, LinkKeeps
  <2>4. QED
    BY <1>6, <2>1, <2>2, <2>3 DEF ReplayStep
<1>7. QED
  BY <1>2, <1>3, <1>4, <1>5, <1>6 DEF Next

\* The inductive invariant: what the ledger said of each run, whose run a call
\* makes, and what a replay knows of its original at each of its steps, whatever
\* the other processes and ORACLE do in between (ask, replay_execute).
THEOREM AskReplayInvariant == Spec => []IInv
<1>1. Init => IInv
  BY InitOK
<1>2. IInv /\ [Next]_vars => IInv'
  BY IInvStep
<1>3. QED
  BY <1>1, <1>2, PTL DEF Spec

\* Every variable has its type; in particular every state a run records is one
\* the interaction store knows and every link names a report that was written.
THEOREM AskReplayTypes == Spec => []TypeOK
<1>1. IInv => TypeOK
  BY DEF IInv
<1>2. QED
  BY <1>1, AskReplayInvariant, PTL

\* What runs and their evidence say of ORACLE was said by its ledger, and a cached
\* response that verifies is one that ledger gave (query_evidence, ask,
\* _verify_cached_query_response), however the ledger grew during the ask.
THEOREM RunsRestOnTheLedger == Spec => []StatesRestOnTheLedger
<1>1. IInv => StatesRestOnTheLedger
  <2> SUFFICES ASSUME IInv PROVE StatesRestOnTheLedger
    OBVIOUS
  <2>1. ledger \in Seq(Events) /\ RunsRest
    BY DEF IInv, TypeOK
  <2>2. ASSUME NEW response \in Cached, CachedVerifies(response, ledger)
        PROVE  \E n \in DOMAIN ledger : response = Response(SubSeq(ledger, 1, n))
    <3>1. response \in Answers /\ response.available
      BY AskReplayAssumption
    <3>2. QED
      BY <2>1, <2>2, <3>1, CachedIsResponse
  <2>3. QED
    BY <2>1, <2>2 DEF StatesRestOnTheLedger, RunsRest
<1>2. QED
  BY <1>1, AskReplayInvariant, PTL

\* No replay reports that evidence was lost unless ORACLE could not be read
\* (_build_replay_report), because a ledger that verifies answers with every
\* event any earlier verified ledger answered with.
THEOREM ReplaysKeepEvidence == Spec => []ReplaysLoseNoEvidence
<1>1. IInv => ReplaysLoseNoEvidence
  BY DEF IInv, ReportOK, ReplaysLoseNoEvidence
<1>2. QED
  BY <1>1, AskReplayInvariant, PTL

\* A replay that was not allowed to change the Council asked the original's own
\* members when these had been recorded by the time it was classified
\* (replay_classify, replay_execute), although the question is asked later and the
\* original may still grow until then.
THEOREM ReplaysKeepTheCouncil == Spec => []UnallowedReplaysKeepTheCouncil
<1>1. IInv => UnallowedReplaysKeepTheCouncil
  BY DEF IInv, RecordOK, KeptCouncil, UnallowedReplaysKeepTheCouncil
<1>2. QED
  BY <1>1, AskReplayInvariant, PTL

\* list_replays reads every record, each run is the replay of one earlier run at
\* most, and no link lacks its record (replay_execute, research_timeline).
THEOREM ReplaysFormAForest == Spec => []TimelineIsAForest
<1>1. IInv => TimelineIsAForest
  <2> SUFFICES ASSUME IInv PROVE TimelineIsAForest
    OBVIOUS
  <2>1. ASSUME NEW record \in replays
        PROVE  /\ RecordValid(record) /\ record.original < record.run
               /\ ReplaysMaking(record.run) = {record}
               /\ runs[record.original].mode = runs[record.run].mode /\ record.kept
    <3>1. RecordOK(record) /\ ReportOK(record.report)
      BY DEF IInv, RecordOK
    <3>2. record.report.original \in Nat /\ record.report.run \in Nat
      BY <3>1 DEF IInv, TypeOK, Reports, RecordOK
    <3>3. record.report.original # record.report.run
      BY <3>1, <3>2 DEF ReportOK
    <3>4. QED
      BY <3>1, <3>3 DEF RecordOK, ReportOK, RecordValid, ReportValid
  <2>2. ASSUME NEW run \in DOMAIN runs, NEW i \in DOMAIN log[run], log[run][i].kind = "link"
        PROVE  \E record \in ReplaysMaking(run) :
                 record.report = log[run][i].report /\ record.original = log[run][i].original
    <3>1. LinkOK(run, log[run][i])
      BY <2>2 DEF IInv, LinksOK
    <3>2. QED
      BY <3>1 DEF LinkOK, ReplaysMaking
  <2>3. QED
    BY <2>1, <2>2 DEF TimelineIsAForest, TimelineReads
<1>2. QED
  BY <1>1, AskReplayInvariant, PTL
=============================================================================
