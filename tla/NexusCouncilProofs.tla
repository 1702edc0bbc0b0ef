------------------------ MODULE NexusCouncilProofs ------------------------
(***************************************************************************)
(* Proofs about NexusCouncil for every world, every answer NEXUS may give  *)
(* and every number of councils and runs.                                  *)
(***************************************************************************)
EXTENDS NexusCouncil, FiniteSetTheorems, TLAPS

-----------------------------------------------------------------------------
(* The count of _validate_and_render, for every session.                   *)

\* The members of the roster, and those of them that sealed a ballot for c.
Seats(s) == {s.roster[i].member : i \in DOMAIN s.roster}
For(s, c) == {m \in Seats(s) : \E i \in DOMAIN s.commitments :
                s.commitments[i].member = m /\ s.commitments[i].choice = c}

\* An image under an operation without collisions has the size of what it is of.
LEMMA ImageSize ==
  ASSUME NEW S, NEW T, IsFiniteSet(S), NEW f \in [S -> T],
         \A x, y \in S : f[x] = f[y] => x = y,
         \A t \in T : \E x \in S : f[x] = t
  PROVE  IsFiniteSet(T) /\ Cardinality(T) = Cardinality(S)
<1>1. f \in Bijection(S, T)
  BY DEF Bijection, Injection, Surjection, IsInjective
<1>2. ExistsBijection(S, T)
  BY <1>1 DEF ExistsBijection
<1>3. QED
  BY <1>2, FS_Bijection

\* The ballots follow the roster: as many, and one of each member.
LEMMA BallotsFollowRoster ==
  ASSUME NEW s, RosterIsOrdinary(s), BallotsOpenCommitments(s)
  PROVE  /\ DOMAIN s.revealed = DOMAIN s.roster
         /\ \A i \in DOMAIN s.roster : s.revealed[i].member = s.roster[i].member
         /\ \A i, j \in DOMAIN s.roster : s.roster[i].member = s.roster[j].member => i = j
         /\ s.commitments = s.revealed
         /\ IsFiniteSet(DOMAIN s.roster)
         /\ Cardinality(DOMAIN s.roster) = Total(s)
<1>1. Voters(s.revealed) = Members(s) /\ s.commitments = s.revealed
  BY DEF BallotsOpenCommitments
<1>2. DOMAIN s.revealed = DOMAIN s.roster
  BY <1>1 DEF Voters, Members
<1>3. ASSUME NEW i \in DOMAIN s.roster
      PROVE  s.revealed[i].member = s.roster[i].member
  <2>1. Voters(s.revealed)[i] = s.revealed[i].member
    BY <1>2, <1>3 DEF Voters
  <2>2. Members(s)[i] = s.roster[i].member
    BY <1>3 DEF Members
  <2>3. QED
    BY <1>1, <2>1, <2>2
<1>4. Len(s.revealed) \in Nat /\ DOMAIN s.roster = 1 .. Len(s.revealed)
  BY <1>2 DEF BallotsOpenCommitments, IsList
<1>5. IsFiniteSet(DOMAIN s.roster) /\ Cardinality(DOMAIN s.roster) = Total(s)
  BY <1>4, FS_Interval DEF Total
<1>6. QED
  BY <1>1, <1>2, <1>3, <1>5 DEF RosterIsOrdinary

\* Votes counts members, not ballots: a member is counted once.
LEMMA VotesCountMembers ==
  ASSUME NEW s, NEW c, RosterIsOrdinary(s), BallotsOpenCommitments(s)
  PROVE  /\ Cardinality(For(s, c)) = Votes(s, c) /\ Votes(s, c) \in Nat
         /\ Cardinality(Seats(s)) = Total(s)
<1> DEFINE I == {i \in DOMAIN s.revealed : s.revealed[i].choice = c}
           f == [i \in I |-> s.revealed[i].member]
           g == [i \in DOMAIN s.roster |-> s.roster[i].member]
<1>1. /\ DOMAIN s.revealed = DOMAIN s.roster
      /\ \A i \in DOMAIN s.roster : s.revealed[i].member = s.roster[i].member
      /\ \A i, j \in DOMAIN s.roster : s.roster[i].member = s.roster[j].member => i = j
      /\ s.commitments = s.revealed
      /\ IsFiniteSet(DOMAIN s.roster) /\ Cardinality(DOMAIN s.roster) = Total(s)
  BY BallotsFollowRoster
<1>2. IsFiniteSet(I) /\ Cardinality(I) \in Nat
  <2>1. I \in SUBSET DOMAIN s.roster
    BY <1>1
  <2>2. QED
    BY <1>1, <2>1, FS_Subset, FS_CardinalityType
<1>3. Cardinality(For(s, c)) = Cardinality(I)
  <2>1. f \in [I -> For(s, c)]
    BY <1>1 DEF For, Seats
  <2>2. \A i, j \in I : f[i] = f[j] => i = j
    BY <1>1
  <2>3. \A m \in For(s, c) : \E i \in I : f[i] = m
    BY <1>1 DEF For
  <2> HIDE DEF I, f
  <2>4. QED
    BY <1>2, <2>1, <2>2, <2>3, ImageSize
<1>4. Cardinality(Seats(s)) = Cardinality(DOMAIN s.roster)
  <2>1. g \in [DOMAIN s.roster -> Seats(s)]
    BY DEF Seats
  <2>2. \A i, j \in DOMAIN s.roster : g[i] = g[j] => i = j
    BY <1>1
  <2>3. \A m \in Seats(s) : \E i \in DOMAIN s.roster : g[i] = m
    BY DEF Seats
  <2>4. IsFiniteSet(DOMAIN s.roster)
    BY <1>1
  <2> HIDE DEF g
  <2>5. QED
    BY <2>1, <2>2, <2>3, <2>4, ImageSize
<1>5. QED
  BY <1>1, <1>2, <1>3, <1>4 DEF Votes

\* A single winner has more votes than any other choice.
LEMMA WinnerLeads ==
  ASSUME NEW s, RosterIsOrdinary(s), BallotsOpenCommitments(s), SingleWinner(s)
  PROVE  /\ Disposition(s) \in Winners(s) /\ Top(s) = Votes(s, Disposition(s))
         /\ \A c \in Choices(s) \ {Disposition(s)} : Votes(s, c) < Top(s)
<1>1. \A c : Votes(s, c) \in Nat
  BY VotesCountMembers
<1>2. IsFiniteSet(Winners(s))
  <2> DEFINE f == [i \in DOMAIN s.revealed |-> s.revealed[i].choice]
  <2>1. f \in Surjection(DOMAIN s.revealed, Choices(s))
    BY DEF Surjection, Choices
  <2>2. IsFiniteSet(DOMAIN s.revealed)
    BY BallotsFollowRoster
  <2>3. IsFiniteSet(Choices(s))
    BY <2>1, <2>2, FS_Surjection
  <2>4. Winners(s) \in SUBSET Choices(s)
    BY DEF Winners
  <2>5. QED
    BY <2>3, <2>4, FS_Subset
<1>3. PICK w : Winners(s) = {w}
  BY <1>2, FS_Singleton DEF SingleWinner
<1>4. (CHOOSE c \in Winners(s) : TRUE) = w
  BY <1>3
<1>5. Disposition(s) = w /\ Top(s) = Votes(s, w)
  BY <1>4 DEF Disposition, Top
<1>6. ASSUME NEW c \in Choices(s), c # w
      PROVE  Votes(s, c) < Votes(s, w)
  <2>1. c \notin Winners(s)
    BY <1>3, <1>6
  <2>2. PICK d \in Choices(s) : ~(Votes(s, d) <= Votes(s, c))
    BY <2>1 DEF Winners
  <2>3. Votes(s, d) <= Votes(s, w)
    BY <1>3 DEF Winners
  <2>4. QED
    BY <1>1, <2>2, <2>3
<1>7. QED
  BY <1>3, <1>5, <1>6

\* An outcome other than NO_CONSENSUS has the share of the members that the
\* policy demands, and more members behind it than any other choice.
THEOREM OutcomeIsMajority ==
  ASSUME NEW s, RosterIsOrdinary(s), BallotsOpenCommitments(s), Outcome(s) # NoConsensus
  PROVE  /\ Cardinality(For(s, Outcome(s))) * s.denominator
              >= Cardinality(Seats(s)) * s.numerator
         /\ \A c \in Choices(s) \ {Outcome(s)} :
              Cardinality(For(s, c)) < Cardinality(For(s, Outcome(s)))
<1>1. ThresholdMet(s) /\ Outcome(s) = Disposition(s)
  BY DEF Outcome
<1>2. SingleWinner(s) /\ Top(s) * s.denominator >= Total(s) * s.numerator
  BY <1>1 DEF ThresholdMet
<1>3. \A c : Cardinality(For(s, c)) = Votes(s, c)
  BY VotesCountMembers
<1>4. Cardinality(Seats(s)) = Total(s)
  BY VotesCountMembers
<1>5. Top(s) = Votes(s, Outcome(s))
      /\ \A c \in Choices(s) \ {Outcome(s)} : Votes(s, c) < Top(s)
  BY <1>1, <1>2, WinnerLeads
<1>6. QED
  BY <1>2, <1>3, <1>4, <1>5

-----------------------------------------------------------------------------
(* Types                                                                   *)

ArtifactNames ==
  {"council-run-response", "council-session", "council-receipt",
   "council-receipt-verification", "council-render"}
EpochNames == {"epoch-admission-receipt", "epoch-admission-verification"}
Stored == (ArtifactNames \cup EpochNames) \X DOMAIN RunAnswers

Line == [op : Requesting, id : Nat, ref : Refs \cup {NoRef}]
Reply ==
  {r \in [op : Requesting, id : Nat, status : {"ok"}, ref : Refs \cup {NoRef},
          good : BOOLEAN, epochs : BOOLEAN,
          body : DOMAIN RunAnswers \cup Refs \cup {NoRef}] :
     r.op = "run" => r.body \in DOMAIN RunAnswers}
Refusal == [op : Requesting, id : Nat, status : {"error"}]

Renders == [session : Refs, receipt : Refs, outcome : {OutcomeOf[s] : s \in Sound}]
Event ==
  [kind : {"other"}]
  \cup [kind : {"receipt"}, render : Renders, files : SUBSET Stored]
  \cup [kind : {"response"}, render : Renders, parent : Nat, files : SUBSET Stored]

\* TypeOK, with what the sequences hold.
TransportTyped ==
  /\ process \in {"none", "running", "exited"} /\ counter \in Nat
  /\ inbox \in Seq(Line) /\ outbox \in Seq(Reply \cup Refusal)
ControlTyped ==
  /\ pc \in Steps
  /\ exchange \in {"none", "write", "read"} /\ (exchange # "none" => pc \in Requesting)
  /\ call \in Requests \cup {NoCall} /\ (pc # "idle" => call \in Requests)
  /\ got \in [Requesting -> Reply \cup Refusal \cup {Nothing}]
  /\ placed \in 0 .. 7 /\ receiptAt \in Nat /\ calls \in 0 .. MaxCalls
StoreTyped == events \in [Runs -> Seq(Event)] /\ files \subseteq Stored
Typed == TransportTyped /\ ControlTyped /\ StoreTyped

-----------------------------------------------------------------------------
(* What run_council knows at each step: everything it has checked so far   *)
(* is still so of the answers it keeps.                                    *)

AfterEvidence == {"target", "put", "receiptEvent", "responseEvent"}
AfterPresence == AfterEvidence \cup {"evidence"}
AfterQuestion == AfterPresence \cup {"presence"}
AfterVerify == AfterQuestion \cup {"question"}
AfterReceipt == AfterVerify \cup {"verify", "epoch", "epochVerify"}
AfterSession == AfterReceipt \cup {"receipt"}
AfterRun == AfterSession \cup {"session"}

Matches(g) ==
  /\ WorldObject("evidence", g) /\ EvidenceMatches(g)
  /\ ReceiptMatches(g) /\ GovernanceMatches(g)

KnownAt(step, g) ==
  /\ step \in AfterRun => g["run"].body \in DOMAIN RunAnswers
  /\ step \in AfterSession => WorldObject("session", g)
  /\ step \in AfterReceipt => WorldObject("receipt", g)
  /\ step \in {"epoch", "epochVerify"} => Answer(g).epoch # NoRef
  /\ step \in AfterVerify \cup {"epochVerify"} /\ Answer(g).epoch # NoRef =>
       WorldObject("epoch", g)
  /\ step \in AfterVerify => AnswersClean(g)
  /\ step \in AfterQuestion => WorldObject("question", g) /\ QuestionMatches(g)
  /\ step \in AfterPresence => PresenceMatches(g)
  /\ step \in AfterEvidence => Matches(g)
Known == KnownAt(pc, got)

\* How far _persist_artifacts is.
Persisting ==
  /\ pc \notin {"put", "receiptEvent", "responseEvent"} => placed = 0
  /\ pc = "put" => \A i \in 1 .. placed : <<Artifacts[i], got["run"].body>> \in files
  /\ pc \in {"put", "receiptEvent", "responseEvent"} => TargetMatches
  /\ pc \in {"receiptEvent", "responseEvent"} =>
       call.run \in Runs /\ FilesOf(got) \subseteq files
  /\ pc = "responseEvent" =>
       /\ receiptAt \in DOMAIN events[call.run]
       /\ events[call.run][receiptAt].kind = "receipt"
       /\ events[call.run][receiptAt].render = Render

\* What a response of a run rests on.
RestsOnReceipt(r, i) ==
  LET e == events[r][i] IN
    /\ e.parent \in DOMAIN events[r] /\ e.parent < i
    /\ events[r][e.parent].kind = "receipt"
    /\ events[r][e.parent].render = e.render
    /\ e.files \subseteq files

Rests == \A r \in Runs : \A i \in Responses(r) : RestsOnReceipt(r, i)

\* A render of a sound session, validated against this question and evidence
\* state.
Answers(render, question, state) ==
  LET s == World[render.session] IN
    /\ render.session \in Sound /\ render.outcome = Outcome(s)
    /\ World[s.question].text = question
    /\ World[s.evidence].state = state
    /\ World[render.receipt].result = render.session

RendersAnswer ==
  /\ \A x \in returned : Answers(x.render, x.request.question, x.request.state)
  /\ \A r \in Runs : \A i \in Responses(r) :
       Answers(events[r][i].render, Target[r].question, Target[r].state)

IInv ==
  /\ Typed /\ Known /\ Persisting
  /\ Rests /\ ArtifactsAreClean /\ RendersAnswer

-----------------------------------------------------------------------------
(* Lemmas                                                                  *)

\* What a request asks for is a reference that NEXUS named, or none.
LEMMA WantedIsNamed ==
  ASSUME Typed, Known, pc \in Requesting
  PROVE  Wanted(pc, got) \in Refs \cup {NoRef}
<1>1. CASE pc \in AfterRun
  <2>1. got["run"].body \in DOMAIN RunAnswers
    BY <1>1 DEF Known, KnownAt
  <2>2. QED
    BY <2>1, CouncilAssumption DEF Wanted, Answer
<1>2. CASE pc \notin AfterRun
  <2>1. pc \in {"health", "operations", "run"}
    BY <1>2 DEF Requesting, Verifies, Inspects, AfterRun, AfterSession, AfterReceipt,
                AfterVerify, AfterQuestion, AfterPresence, AfterEvidence
  <2>2. QED
    BY <2>1 DEF Wanted
<1>3. QED
  BY <1>1, <1>2

\* Whatever NEXUS answers is a line of the form assumed.
LEMMA RepliesTyped ==
  ASSUME NEW q \in Line, NEW r \in Replies(q)
  PROVE  r \in Reply \cup Refusal
<1>1. q.op \in Requesting /\ q.id \in Nat /\ q.ref \in Refs \cup {NoRef}
  BY DEF Line
<1>2. CASE r = [op |-> q.op, id |-> q.id, status |-> "error"]
  BY <1>1, <1>2 DEF Refusal
<1>3. CASE r # [op |-> q.op, id |-> q.id, status |-> "error"]
  <2> DEFINE G == IF q.op \in {"health", "operations"} \cup Verifies THEN BOOLEAN ELSE {TRUE}
             E == IF q.op = "operations" THEN BOOLEAN ELSE {FALSE}
             B == IF q.op = "run" THEN DOMAIN RunAnswers
                  ELSE IF q.op \in DOMAIN Inspects THEN Forged \cup {q.ref} ELSE {NoRef}
  <2>1. r \in [op : {q.op}, id : {0, q.id}, status : {"ok"}, ref : {q.ref},
               good : G, epochs : E, body : B]
    BY <1>3 DEF Replies
  <2>2. G \subseteq BOOLEAN /\ E \subseteq BOOLEAN
    OBVIOUS
  <2>3. B \subseteq DOMAIN RunAnswers \cup Refs \cup {NoRef}
    BY <1>1, CouncilAssumption
  <2>4. q.op = "run" => B = DOMAIN RunAnswers
    OBVIOUS
  <2> HIDE DEF G, E, B
  <2>5. QED
    BY <1>1, <2>1, <2>2, <2>3, <2>4 DEF Reply
<1>4. QED
  BY <1>2, <1>3

\* The first five artifacts are always put, the last two with an epoch only.
LEMMA ArtifactsListed ==
  /\ Artifacts \in Seq(ArtifactNames \cup EpochNames)
  /\ Len(Artifacts) \in 5 .. 7
  /\ \A i \in DOMAIN Artifacts : Artifacts[i] \in EpochNames => Answer(got).epoch # NoRef
<1> DEFINE First == <<"council-run-response", "council-session", "council-receipt",
                      "council-receipt-verification", "council-render">>
           Last == IF Answer(got).epoch = NoRef THEN <<>>
                   ELSE <<"epoch-admission-receipt", "epoch-admission-verification">>
<1>1. First \in Seq(ArtifactNames) /\ Len(First) = 5
  BY DEF ArtifactNames
<1>2. Last \in Seq(EpochNames) /\ Len(Last) \in {0, 2}
      /\ (Answer(got).epoch = NoRef => Len(Last) = 0)
  <2>1. CASE Answer(got).epoch = NoRef
    <3>1. Last = <<>>
      BY <2>1
    <3>2. QED
      BY <3>1
  <2>2. CASE Answer(got).epoch # NoRef
    <3>1. Last = <<"epoch-admission-receipt", "epoch-admission-verification">>
      BY <2>2
    <3>2. QED
      BY <2>2, <3>1 DEF EpochNames
  <2>3. QED
    BY <2>1, <2>2
<1>3. Artifacts = First \o Last
  BY DEF Artifacts
<1>4. \A i \in 1 .. 5 : First[i] \in ArtifactNames
  BY <1>1
<1>5. \A x \in ArtifactNames : x \notin EpochNames
  BY DEF ArtifactNames, EpochNames
<1> HIDE DEF First, Last
<1>6. First \in Seq(ArtifactNames \cup EpochNames) /\ Last \in Seq(ArtifactNames \cup EpochNames)
  BY <1>1, <1>2
<1>7. /\ Artifacts \in Seq(ArtifactNames \cup EpochNames)
      /\ Len(Artifacts) = Len(First) + Len(Last)
      /\ \A i \in DOMAIN First : Artifacts[i] = First[i]
      /\ DOMAIN Artifacts = 1 .. Len(Artifacts)
  BY <1>3, <1>6
<1>8. DOMAIN First = 1 .. 5 /\ Len(First) = 5 /\ Len(Last) \in {0, 2}
  BY <1>1, <1>2
<1>9. Len(Artifacts) \in 5 .. 7
  <2>1. Len(Artifacts) = 5 + Len(Last)
    BY <1>7, <1>8
  <2>2. Len(Last) = 0 \/ Len(Last) = 2
    BY <1>8
  <2>3. \A n, m : n = 5 + m /\ (m = 0 \/ m = 2) => n \in 5 .. 7
    OBVIOUS
  <2>4. QED
    BY <2>1, <2>2, <2>3
<1>10. ASSUME NEW i \in DOMAIN Artifacts, Artifacts[i] \in EpochNames
       PROVE  Answer(got).epoch # NoRef
  <2>1. i \notin 1 .. 5
    BY <1>4, <1>5, <1>7, <1>8, <1>10
  <2>2. i \in 1 .. Len(Artifacts)
    BY <1>7
  <2>3. Len(Last) # 0
    BY <1>7, <1>8, <2>1, <2>2
  <2>4. QED
    BY <1>2, <2>3
<1>11. QED
  BY <1>7, <1>9, <1>10

-----------------------------------------------------------------------------
(* The invariant is inductive                                              *)

LEMMA InitInv ==
  ASSUME Init
  PROVE  IInv
<1>1. pc = "idle" /\ exchange = "none" /\ files = {} /\ returned = {}
  BY DEF Init
<1>2. Typed
  <2>1. TransportTyped
    <3>1. inbox \in Seq(Line) /\ outbox \in Seq(Reply \cup Refusal)
      BY DEF Init
    <3>2. QED
      BY <3>1 DEF Init, TransportTyped
  <2>2. ControlTyped
    <3>1. got \in [Requesting -> Reply \cup Refusal \cup {Nothing}]
      BY DEF Init
    <3>2. placed \in 0 .. 7 /\ receiptAt \in Nat /\ calls \in 0 .. MaxCalls
      BY CouncilAssumption DEF Init
    <3>3. call = NoCall /\ exchange = "none" /\ pc = "idle"
      BY DEF Init
    <3>4. QED
      BY <3>1, <3>2, <3>3 DEF ControlTyped, Steps
  <2>3. StoreTyped
    BY <1>1 DEF Init, StoreTyped
  <2>4. QED
    BY <2>1, <2>2, <2>3 DEF Typed
<1>3. Known
  BY <1>1 DEF Known, KnownAt, AfterRun, AfterSession, AfterReceipt, AfterVerify, AfterQuestion,
              AfterPresence, AfterEvidence
<1>4. Persisting
  BY <1>1 DEF Init, Persisting
<1>5. \A r \in Runs : Responses(r) = {}
  <2>1. \A r \in Runs : events[r] = <<>>
    BY DEF Init
  <2>2. QED
    BY <2>1 DEF Responses
<1>6. Rests /\ ArtifactsAreClean /\ RendersAnswer
  BY <1>1, <1>5 DEF Rests, ArtifactsAreClean, RendersAnswer
<1>7. QED
  BY <1>2, <1>3, <1>4, <1>6 DEF IInv

\* Typed has all that TypeOK asks for.
LEMMA TypedIsTypeOK ==
  ASSUME Typed
  PROVE  TypeOK
<1>1. \A q \in Line : q.op \in Requesting
  BY DEF Line
<1>2. \A q \in Reply \cup Refusal : q.op \in Requesting
  BY DEF Reply, Refusal
<1>3. \A i \in DOMAIN inbox : inbox[i].op \in Requesting
  BY <1>1 DEF Typed, TransportTyped
<1>4. \A i \in DOMAIN outbox : outbox[i].op \in Requesting
  BY <1>2 DEF Typed, TransportTyped
<1>5. DOMAIN got = Requesting /\ DOMAIN events = Runs
  BY DEF Typed, ControlTyped, StoreTyped
<1>6. QED
  BY <1>3, <1>4, <1>5 DEF Typed, TransportTyped, ControlTyped, TypeOK

\* Leave forgets the council.
LEMMA LeaveTyped ==
  ASSUME Typed, Leave, calls' = calls
  PROVE  ControlTyped' /\ pc' = "idle"
<1>1. got' = [step \in Requesting |-> Nothing] /\ call' = NoCall /\ placed' = 0
      /\ receiptAt' = 0 /\ pc' = "idle"
  BY DEF Leave
<1>2. got' \in [Requesting -> Reply \cup Refusal \cup {Nothing}]
  BY <1>1
<1>3. exchange' = "none" /\ "idle" \in Steps
  BY DEF Leave, Steps
<1>4. placed' \in 0 .. 7 /\ receiptAt' \in Nat /\ calls' \in 0 .. MaxCalls
  BY <1>1 DEF Typed, ControlTyped
<1>5. QED
  BY <1>1, <1>2, <1>3, <1>4 DEF ControlTyped

LEMMA TransportStep ==
  ASSUME Typed, Known, Next
  PROVE  TransportTyped'
<1> USE DEF Typed, TransportTyped
<1>1. CASE NexusAnswers
  <2>1. Head(inbox) \in Line /\ Tail(inbox) \in Seq(Line)
    BY <1>1 DEF NexusAnswers
  <2>2. PICK reply \in Replies(Head(inbox)) : outbox' = Append(outbox, reply)
    BY <1>1 DEF NexusAnswers
  <2>3. reply \in Reply \cup Refusal
    BY <2>1, <2>2, RepliesTyped
  <2>4. outbox' \in Seq(Reply \cup Refusal)
    BY <2>2, <2>3
  <2>5. QED
    BY <1>1, <2>1, <2>4 DEF NexusAnswers
<1>2. CASE NexusExits
  <2>1. <<>> \in Seq(Line)
    OBVIOUS
  <2>2. QED
    BY <1>2, <2>1 DEF NexusExits
<1>3. CASE Close
  <2>1. <<>> \in Seq(Line) /\ <<>> \in Seq(Reply \cup Refusal)
    OBVIOUS
  <2>2. QED
    BY <1>3, <2>1 DEF Close
<1>4. CASE Send
  BY <1>4 DEF Send
<1>9. CASE WriteEnds \/ NexusReads
  <2>1. writing /\ Written
    BY <1>9 DEF WriteEnds, NexusReads
  <2>2. pc \in Requesting
    BY <2>1 DEF writing, ControlTyped
  <2>3. Wanted(pc, got) \in Refs \cup {NoRef}
    BY <2>2, WantedIsNamed
  <2>4. [op |-> pc, id |-> counter, ref |-> Wanted(pc, got)] \in Line
    BY <2>2, <2>3 DEF Line
  <2>5. inbox' \in Seq(Line)
    BY <2>1, <2>4 DEF Written
  <2>6. QED
    BY <2>1, <2>5 DEF Written
<1>5. CASE Read \/ Reject
  <2>1. outbox' = Tail(outbox) /\ outbox # <<>> /\ UNCHANGED <<process, inbox, counter>>
    BY <1>5 DEF Read, Reject
  <2>2. Tail(outbox) \in Seq(Reply \cup Refusal)
    BY <2>1
  <2>3. QED
    BY <2>1, <2>2
<1>6. CASE SendFails \/ WriteBreaks
  BY <1>6 DEF SendFails, WriteBreaks, transport
<1>7. CASE \/ \E q \in Requests : Council(q)
           \/ \E r \in Runs : OtherEvent(r)
           \/ NoLine \/ Admit \/ ReachTarget \/ Put \/ AllPut \/ ReceiptEvent
           \/ ResponseEvent \/ StoreFails
  <2>1. UNCHANGED <<process, inbox, outbox, counter>>
    BY <1>7 DEF Council, OtherEvent, NoLine, Admit, ReachTarget, Put, AllPut,
                ReceiptEvent, ResponseEvent, StoreFails, transport
  <2>2. QED
    BY <2>1
<1>8. QED
  BY <1>1, <1>2, <1>3, <1>4, <1>5, <1>6, <1>7, <1>9 DEF Next, Adapter

\* What Read keeps of an answer it accepted.
LEMMA NotedTyped ==
  ASSUME Typed, Read
  PROVE  /\ Head(outbox) \in Reply /\ pc \in Requesting
         /\ Noted \in [Requesting -> Reply \cup Refusal \cup {Nothing}]
<1>1. outbox # <<>> /\ Accepts(Head(outbox)) /\ exchange = "read"
  BY DEF Read, waiting
<1>2. Head(outbox) \in Reply \cup Refusal
  BY <1>1 DEF Typed, TransportTyped
<1>3. Head(outbox).status = "ok"
  BY <1>1 DEF Accepts
<1>4. Head(outbox) \in Reply
  BY <1>2, <1>3 DEF Refusal
<1>5. [Head(outbox) EXCEPT !.id = 0] \in Reply
  BY <1>4 DEF Reply
<1>6. pc \in Requesting
  BY <1>1 DEF Typed, ControlTyped
<1>7. QED
  BY <1>4, <1>5, <1>6 DEF Typed, ControlTyped, Noted

LEMMA ControlStep ==
  ASSUME Typed, Known, Persisting, Next
  PROVE  ControlTyped'
<1>1. CASE \/ SendFails \/ WriteBreaks \/ NoLine \/ Reject \/ ResponseEvent \/ StoreFails
  <2>1. Leave /\ calls' = calls
    BY <1>1 DEF SendFails, WriteBreaks, NoLine, Reject, ResponseEvent, StoreFails
  <2>2. QED
    BY <2>1, LeaveTyped
<1>2. CASE \/ NexusAnswers \/ NexusExits \/ Close \/ \E r \in Runs : OtherEvent(r)
  <2>1. UNCHANGED <<pc, exchange, call, got, placed, receiptAt, calls>>
    BY <1>2 DEF NexusAnswers, NexusExits, Close, OtherEvent
  <2>2. QED
    BY <2>1 DEF Typed, ControlTyped
<1>3. ASSUME NEW q \in Requests, Council(q)
      PROVE  ControlTyped'
  <2>1. pc' = "health" /\ call' = q /\ calls' = calls + 1 /\ calls < MaxCalls
        /\ UNCHANGED <<exchange, got, placed, receiptAt>> /\ pc = "idle"
    BY <1>3 DEF Council
  <2>2. calls' \in 0 .. MaxCalls
    BY <2>1, CouncilAssumption DEF Typed, ControlTyped
  <2>3. pc' \in Steps /\ pc' \in Requesting
    BY <2>1 DEF Steps, Requesting
  <2>4. QED
    BY <2>1, <2>2, <2>3 DEF Typed, ControlTyped
<1>4. CASE Send \/ WriteEnds \/ NexusReads
  <2>1. exchange' \in {"write", "read"} /\ pc \in Requesting
        /\ UNCHANGED <<pc, call, got, placed, receiptAt, calls>>
    BY <1>4 DEF Send, WriteEnds, NexusReads, Written, writing, Typed, ControlTyped
  <2>2. QED
    BY <2>1 DEF Typed, ControlTyped
<1>5. CASE Read
  <2>1. /\ got' = Noted /\ pc' = Following(pc, Noted) /\ exchange' = "none"
        /\ UNCHANGED <<call, placed, receiptAt, calls>>
    BY <1>5 DEF Read
  <2>2. pc \in Requesting /\ got' \in [Requesting -> Reply \cup Refusal \cup {Nothing}]
    BY <1>5, <2>1, NotedTyped
  <2>3. pc' \in Steps
    BY <2>1, <2>2 DEF Following, Requesting, Verifies, Inspects, Steps
  <2>4. pc # "idle"
    BY <2>2 DEF Requesting, Verifies, Inspects
  <2>5. QED
    BY <2>1, <2>2, <2>3, <2>4 DEF Typed, ControlTyped
<1>6. CASE Admit
  <2>1. CASE Admissible(call)
    <3>1. pc' = "run" /\ UNCHANGED <<exchange, call, got, placed, receiptAt, calls>>
          /\ pc = "admit"
      BY <1>6, <2>1 DEF Admit
    <3>2. pc' \in Steps /\ pc' \in Requesting
      BY <3>1 DEF Steps, Requesting
    <3>3. QED
      BY <3>1, <3>2 DEF Typed, ControlTyped
  <2>2. CASE ~Admissible(call)
    BY <1>6, <2>2, LeaveTyped DEF Admit
  <2>3. QED
    BY <2>1, <2>2
<1>7. CASE ReachTarget
  <2>1. CASE call.kept /\ TargetMatches
    <3>1. pc' = "put" /\ UNCHANGED <<exchange, call, got, placed, receiptAt, calls>>
          /\ pc = "target"
      BY <1>7, <2>1 DEF ReachTarget
    <3>2. exchange = "none"
      BY <3>1 DEF Typed, ControlTyped, Requesting, Verifies, Inspects
    <3>3. QED
      BY <3>1, <3>2 DEF Typed, ControlTyped, Steps
  <2>2. CASE ~(call.kept /\ TargetMatches)
    BY <1>7, <2>2, LeaveTyped DEF ReachTarget
  <2>3. QED
    BY <2>1, <2>2
<1>8. CASE Put
  <2>1. placed' = placed + 1 /\ placed < Len(Artifacts)
        /\ UNCHANGED <<pc, exchange, call, got, receiptAt, calls>>
    BY <1>8 DEF Put
  <2>2. ControlTyped /\ Len(Artifacts) \in 5 .. 7
    BY ArtifactsListed DEF Typed
  <2>3. placed \in Nat /\ placed < Len(Artifacts) /\ Len(Artifacts) \in 5 .. 7
    BY <2>1, <2>2 DEF ControlTyped
  <2>4. placed' \in 0 .. 7
    <3> DEFINE n == Len(Artifacts)
    <3>1. placed \in Nat /\ placed < n /\ n \in 5 .. 7 /\ placed' = placed + 1
      BY <2>1, <2>3
    <3> HIDE DEF n
    <3>2. QED
      BY <3>1
  <2>5. QED
    BY <2>1, <2>2, <2>4 DEF ControlTyped
<1>9. CASE AllPut
  <2>1. CASE call.run = NoRun
    BY <1>9, <2>1, LeaveTyped DEF AllPut
  <2>2. CASE call.run # NoRun
    <3>1. pc' = "receiptEvent" /\ UNCHANGED <<exchange, call, got, placed, receiptAt, calls>>
          /\ pc = "put"
      BY <1>9, <2>2 DEF AllPut
    <3>2. exchange = "none"
      BY <3>1 DEF Typed, ControlTyped, Requesting, Verifies, Inspects
    <3>3. QED
      BY <3>1, <3>2 DEF Typed, ControlTyped, Steps
  <2>3. QED
    BY <2>1, <2>2
<1>10. CASE ReceiptEvent
  <2>1. pc' = "responseEvent" /\ pc = "receiptEvent"
        /\ receiptAt' = Len(events[call.run]) + 1
        /\ UNCHANGED <<exchange, call, got, placed, calls>>
    BY <1>10 DEF ReceiptEvent
  <2>2. exchange = "none"
    BY <2>1 DEF Typed, ControlTyped, Requesting, Verifies, Inspects
  <2>3. receiptAt' \in Nat
    BY <2>1 DEF Persisting, Typed, StoreTyped
  <2>4. QED
    BY <2>1, <2>2, <2>3 DEF Typed, ControlTyped, Steps
<1>11. QED
  BY <1>1, <1>2, <1>3, <1>4, <1>5, <1>6, <1>7, <1>8, <1>9, <1>10 DEF Next, Adapter

-----------------------------------------------------------------------------
(* What is known of the answers kept is not disturbed by the next one      *)

\* The checks see nothing else of an answer.
Same(g, h, step) ==
  /\ g[step].op = h[step].op /\ g[step].ref = h[step].ref
  /\ g[step].body = h[step].body /\ g[step].good = h[step].good

LEMMA SameObjects ==
  ASSUME NEW g, NEW h, Same(g, h, "run")
  PROVE  /\ Answer(g) = Answer(h)
         /\ \A step \in Requesting : Wanted(step, g) = Wanted(step, h)
         /\ \A step : Same(g, h, step) => Object(g, step) = Object(h, step)
         /\ \A step \in DOMAIN Inspects :
              Same(g, h, step) => (WorldObject(step, g) <=> WorldObject(step, h))
<1>1. Answer(g) = Answer(h)
  BY DEF Answer, Same
<1>2. \A step : Wanted(step, g) = Wanted(step, h)
  BY <1>1 DEF Wanted
<1>3. \A step : Same(g, h, step) => Object(g, step) = Object(h, step)
  BY DEF Same, Object
<1>4. \A step \in DOMAIN Inspects :
        Same(g, h, step) => (WorldObject(step, g) <=> WorldObject(step, h))
  BY <1>2 DEF Same, WorldObject
<1>5. QED
  BY <1>1, <1>2, <1>3, <1>4

LEMMA SameAnswersClean ==
  ASSUME NEW g, NEW h, Same(g, h, "run"), Same(g, h, "session"), Same(g, h, "receipt"),
         AnswersClean(g)
  PROVE  AnswersClean(h)
<1>1. Answer(g) = Answer(h) /\ Object(g, "session") = Object(h, "session")
      /\ Object(g, "receipt") = Object(h, "receipt")
  BY SameObjects
<1>2. QED
  BY <1>1 DEF AnswersClean, Session

LEMMA SameQuestion ==
  ASSUME NEW g, NEW h, Same(g, h, "run"), Same(g, h, "session"), Same(g, h, "question"),
         QuestionMatches(g)
  PROVE  QuestionMatches(h)
<1>1. Answer(g) = Answer(h) /\ Object(g, "session") = Object(h, "session")
      /\ Object(g, "question") = Object(h, "question")
  BY SameObjects
<1>2. QED
  BY <1>1 DEF QuestionMatches, Session

LEMMA SamePresence ==
  ASSUME NEW g, NEW h, Same(g, h, "run"), Same(g, h, "session"), Same(g, h, "presence"),
         PresenceMatches(g)
  PROVE  PresenceMatches(h)
<1>1. Answer(g) = Answer(h) /\ Object(g, "session") = Object(h, "session")
      /\ Object(g, "presence") = Object(h, "presence")
  BY SameObjects
<1>2. g["session"].body = h["session"].body
  BY DEF Same
<1>3. QED
  BY <1>1, <1>2 DEF PresenceMatches, Session

LEMMA SameMatches ==
  ASSUME NEW g, NEW h, \A step \in Requesting : Same(g, h, step), Matches(g)
  PROVE  Matches(h)
<1>1. {"run", "session", "receipt", "verify", "epoch", "epochVerify", "evidence"}
        \subseteq Requesting
  BY DEF Requesting, Verifies, Inspects
<1>2. Answer(g) = Answer(h) /\ Object(g, "session") = Object(h, "session")
      /\ Object(g, "receipt") = Object(h, "receipt") /\ Object(g, "epoch") = Object(h, "epoch")
      /\ Object(g, "evidence") = Object(h, "evidence")
  BY <1>1, SameObjects
<1>3. WorldObject("evidence", h)
  BY <1>1, SameObjects DEF Matches, Inspects
<1>4. EvidenceMatches(h)
  BY <1>2 DEF Matches, EvidenceMatches
<1>5. (Verified("verify", g) <=> Verified("verify", h))
      /\ (Verified("epochVerify", g) <=> Verified("epochVerify", h))
  BY <1>1 DEF Same, Verified
<1>6. ReceiptMatches(h)
  BY <1>2, <1>5 DEF Matches, ReceiptMatches, Session
<1>7. GovernanceMatches(h)
  BY <1>2, <1>5 DEF Matches, GovernanceMatches, Session
<1>8. QED
  BY <1>3, <1>4, <1>6, <1>7 DEF Matches

\* What an accepted answer was checked for holds of the answers as kept.
LEMMA ReadChecked ==
  ASSUME Typed, Read
  PROVE  /\ \A step \in Requesting \ {pc} : Same(got, Noted, step)
         /\ Noted["run"] \in Reply \/ pc # "run"
         /\ pc = "run" => Noted["run"].op = "run"
         /\ pc \in {"session", "receipt", "epoch", "question", "presence", "evidence"} =>
              WorldObject(pc, Noted)
         /\ pc = "verify" => Answer(Noted).epoch # NoRef \/ AnswersClean(Noted)
         /\ pc = "epochVerify" => AnswersClean(Noted)
         /\ pc = "question" => QuestionMatches(Noted)
         /\ pc = "presence" => PresenceMatches(Noted)
         /\ pc = "evidence" => Matches(Noted)
<1> DEFINE raw == [got EXCEPT ![pc] = Head(outbox)]
<1>1. Head(outbox) \in Reply /\ pc \in Requesting
  BY NotedTyped
<1>2. Checks(pc, raw)
  BY DEF Read, Accepts
<1>3. got \in [Requesting -> Reply \cup Refusal \cup {Nothing}]
  BY DEF Typed, ControlTyped
<1>4. \A step \in Requesting \ {pc} : Noted[step] = got[step] /\ raw[step] = got[step]
  BY <1>1, <1>3 DEF Noted
<1>5. raw[pc] = Head(outbox) /\ Noted[pc] = [Head(outbox) EXCEPT !.id = 0]
  BY <1>1, <1>3 DEF Noted
<1>6. Noted[pc] \in Reply /\ Noted[pc].op = Head(outbox).op
      /\ Noted[pc].ref = Head(outbox).ref /\ Noted[pc].body = Head(outbox).body
      /\ Noted[pc].good = Head(outbox).good
  BY <1>1, <1>5 DEF Reply
<1> HIDE DEF raw
<1>7. \A step \in Requesting : Same(raw, Noted, step)
  BY <1>4, <1>5, <1>6 DEF Same
<1>8. \A step \in Requesting \ {pc} : Same(got, Noted, step)
  BY <1>4 DEF Same
<1>9. {"run", "session", "receipt", "question", "presence", "evidence"} \subseteq Requesting
  BY DEF Requesting, Inspects
<1>10. Answer(raw) = Answer(Noted)
  BY <1>7, <1>9, SameObjects
<1>11. CASE pc = "run"
  BY <1>2, <1>5, <1>6, <1>8, <1>11 DEF Checks
<1>12. CASE pc \in {"session", "receipt", "epoch", "question", "presence", "evidence"}
  <2>1. WorldObject(pc, raw)
    BY <1>2, <1>12 DEF Checks
  <2>2. pc \in DOMAIN Inspects
    BY <1>12 DEF Inspects
  <2>3. WorldObject(pc, Noted)
    BY <1>1, <1>7, <1>9, <2>1, <2>2, SameObjects
  <2>4. pc = "question" => QuestionMatches(Noted)
    <3>1. pc = "question" => QuestionMatches(raw)
      BY <1>2 DEF Checks
    <3>2. QED
      BY <1>7, <1>9, <3>1, SameQuestion
  <2>5. pc = "presence" => PresenceMatches(Noted)
    <3>1. pc = "presence" => PresenceMatches(raw)
      BY <1>2 DEF Checks
    <3>2. QED
      BY <1>7, <1>9, <3>1, SamePresence
  <2>6. pc = "evidence" => Matches(Noted)
    <3>1. pc = "evidence" => Matches(raw)
      BY <1>2 DEF Checks, Matches
    <3>2. QED
      BY <1>7, <3>1, SameMatches
  <2>7. QED
    BY <1>8, <1>12, <2>3, <2>4, <2>5, <2>6
<1>13. CASE pc = "verify"
  <2>1. Answer(raw).epoch # NoRef \/ AnswersClean(raw)
    BY <1>2, <1>13 DEF Checks
  <2>2. Answer(Noted).epoch # NoRef \/ AnswersClean(Noted)
    BY <1>7, <1>9, <1>10, <2>1, SameAnswersClean
  <2>3. QED
    BY <1>8, <1>13, <2>2
<1>14. CASE pc = "epochVerify"
  <2>1. AnswersClean(raw)
    BY <1>2, <1>14 DEF Checks
  <2>2. AnswersClean(Noted)
    BY <1>7, <1>9, <2>1, SameAnswersClean
  <2>3. QED
    BY <1>8, <1>14, <2>2
<1>15. CASE pc \in {"health", "operations"}
  BY <1>8, <1>15
<1>16. QED
  BY <1>1, <1>11, <1>12, <1>13, <1>14, <1>15 DEF Requesting, Verifies, Inspects

LEMMA KnownAfterRead ==
  ASSUME Typed, Known, Read
  PROVE  KnownAt(Following(pc, Noted), Noted)
<1> USE DEF AfterRun, AfterSession, AfterReceipt, AfterVerify, AfterQuestion,
            AfterPresence, AfterEvidence
<1>1. pc \in Requesting /\ \A step \in Requesting \ {pc} : Same(got, Noted, step)
  BY NotedTyped, ReadChecked
<1>2. {"run", "session", "receipt", "verify", "epoch", "epochVerify", "question",
       "presence", "evidence"} \subseteq Requesting
  BY DEF Requesting, Verifies, Inspects
<1>3. CASE pc \in {"health", "operations"}
  <2>1. Following(pc, Noted) \in {"operations", "admit"}
    BY <1>3 DEF Following
  <2>2. QED
    BY <2>1 DEF KnownAt
<1>4. CASE pc = "run"
  <2>1. Noted["run"].body \in DOMAIN RunAnswers
    BY <1>4, ReadChecked DEF Reply
  <2>2. QED
    BY <1>4, <2>1 DEF KnownAt, Following
<1>5. CASE pc \in AfterRun
  <2>1. Same(got, Noted, "run") /\ Answer(got) = Answer(Noted)
    <3>1. Same(got, Noted, "run")
      BY <1>1, <1>2, <1>5
    <3>2. QED
      BY <3>1, SameObjects
  <2>2. Noted["run"].body \in DOMAIN RunAnswers
    BY <1>5, <2>1 DEF Same, Known, KnownAt
  <2>3. ASSUME NEW step \in DOMAIN Inspects, step # pc, WorldObject(step, got)
        PROVE  WorldObject(step, Noted)
    <3>1. Same(got, Noted, step)
      BY <1>1, <2>3 DEF Requesting
    <3>2. QED
      BY <2>1, <2>3, <3>1, SameObjects
  <2>4. {"session", "receipt", "epoch", "question", "presence"} \subseteq DOMAIN Inspects
    BY DEF Inspects
  <2>5. CASE pc = "session"
    <3>1. WorldObject("session", Noted)
      BY <2>5, ReadChecked
    <3>2. QED
      BY <2>2, <2>5, <3>1 DEF KnownAt, Following
  <2>6. CASE pc = "receipt"
    <3>1. WorldObject("receipt", Noted) /\ WorldObject("session", Noted)
      BY <2>3, <2>4, <2>6, ReadChecked DEF Known, KnownAt
    <3>2. QED
      BY <2>2, <2>6, <3>1 DEF KnownAt, Following
  <2>7. CASE pc = "verify"
    <3>1. WorldObject("receipt", Noted) /\ WorldObject("session", Noted)
      BY <2>3, <2>4, <2>7 DEF Known, KnownAt
    <3>2. CASE Answer(Noted).epoch = NoRef
      <4>1. AnswersClean(Noted)
        BY <2>7, <3>2, ReadChecked
      <4>2. QED
        BY <2>2, <2>7, <3>1, <3>2, <4>1 DEF KnownAt, Following
    <3>3. CASE Answer(Noted).epoch # NoRef
      BY <2>2, <2>7, <3>1, <3>3 DEF KnownAt, Following
    <3>4. QED
      BY <3>2, <3>3
  <2>8. CASE pc = "epoch"
    <3>1. WorldObject("receipt", Noted) /\ WorldObject("session", Noted)
          /\ Answer(Noted).epoch # NoRef /\ WorldObject("epoch", Noted)
      BY <2>1, <2>3, <2>4, <2>8, ReadChecked DEF Known, KnownAt
    <3>2. QED
      BY <2>2, <2>8, <3>1 DEF KnownAt, Following
  <2>9. CASE pc = "epochVerify"
    <3>1. WorldObject("receipt", Noted) /\ WorldObject("session", Noted)
          /\ WorldObject("epoch", Noted) /\ AnswersClean(Noted)
      BY <2>1, <2>3, <2>4, <2>9, ReadChecked DEF Known, KnownAt
    <3>2. QED
      BY <2>2, <2>9, <3>1 DEF KnownAt, Following
  <2>10. CASE pc \in AfterVerify
    <3>1. WorldObject("receipt", Noted) /\ WorldObject("session", Noted)
          /\ (Answer(Noted).epoch # NoRef => WorldObject("epoch", Noted))
      BY <2>1, <2>3, <2>4, <2>10 DEF Known, KnownAt
    <3>2. Same(got, Noted, "session") /\ Same(got, Noted, "receipt")
      BY <1>1, <1>2, <2>10
    <3>3. AnswersClean(Noted)
      BY <2>1, <2>10, <3>2, SameAnswersClean DEF Known, KnownAt
    <3>4. CASE pc = "question"
      <4>1. WorldObject("question", Noted) /\ QuestionMatches(Noted)
        BY <3>4, ReadChecked
      <4>2. QED
        BY <2>2, <3>1, <3>3, <3>4, <4>1 DEF KnownAt, Following
    <3>5. CASE pc \in {"presence", "evidence"}
      <4>1. Same(got, Noted, "question")
        BY <1>1, <1>2, <3>5
      <4>2. WorldObject("question", Noted) /\ QuestionMatches(Noted)
        BY <2>1, <2>3, <2>4, <3>2, <3>5, <4>1, SameQuestion DEF Known, KnownAt
      <4>3. PresenceMatches(Noted)
        <5>1. CASE pc = "presence"
          BY <5>1, ReadChecked
        <5>2. CASE pc = "evidence"
          <6>1. Same(got, Noted, "presence")
            BY <1>1, <1>2, <5>2
          <6>2. QED
            BY <2>1, <3>2, <5>2, <6>1, SamePresence DEF Known, KnownAt
        <5>3. QED
          BY <3>5, <5>1, <5>2
      <4>4. pc = "evidence" => Matches(Noted)
        BY ReadChecked
      <4>5. Following(pc, Noted) = IF pc = "presence" THEN "evidence" ELSE "target"
        BY <3>5 DEF Following
      <4>6. QED
        BY <2>2, <3>1, <3>3, <3>5, <4>2, <4>3, <4>4, <4>5 DEF KnownAt
    <3>6. QED
      BY <1>1, <2>10, <3>4, <3>5 DEF Requesting, Verifies, Inspects
  <2>11. QED
    BY <1>5, <2>5, <2>6, <2>7, <2>8, <2>9, <2>10
<1>6. QED
  BY <1>1, <1>3, <1>4, <1>5 DEF Requesting, Verifies, Inspects

LEMMA KnownStep ==
  ASSUME Typed, Known, Next
  PROVE  Known'
<1> USE DEF AfterRun, AfterSession, AfterReceipt, AfterVerify, AfterQuestion,
            AfterPresence, AfterEvidence
<1>1. ASSUME pc' \notin AfterRun
      PROVE  Known'
  BY <1>1 DEF Known, KnownAt
<1>2. ASSUME got' = got, call' = call,
             pc' = pc \/ (pc \in AfterEvidence /\ pc' \in AfterEvidence)
      PROVE  Known'
  <2>1. KnownAt(pc', got)
    BY <1>2 DEF Known, KnownAt
  <2>2. QED
    BY <1>2, <2>1 DEF Known, KnownAt, QuestionMatches, PresenceMatches, Matches,
                      EvidenceMatches
<1>3. CASE Read
  <2>1. KnownAt(Following(pc, Noted), Noted) /\ got' = Noted
        /\ pc' = Following(pc, Noted) /\ call' = call
    BY <1>3, KnownAfterRead DEF Read
  <2>2. KnownAt(pc', got')
    BY <2>1
  <2>3. QED
    BY <2>1, <2>2 DEF Known, KnownAt, QuestionMatches, PresenceMatches, Matches,
                      EvidenceMatches
<1>4. CASE \/ NexusAnswers \/ NexusExits \/ Close \/ Put
           \/ Send \/ WriteEnds \/ NexusReads
           \/ \E r \in Runs : OtherEvent(r)
  BY <1>2, <1>4 DEF NexusAnswers, NexusExits, Close, Put, Send, WriteEnds, NexusReads, Written,
                   OtherEvent
<1>5. CASE \/ SendFails \/ WriteBreaks \/ NoLine \/ Reject \/ ResponseEvent \/ StoreFails
           \/ \E q \in Requests : Council(q)
  <2>1. pc' \in {"idle", "health"}
    BY <1>5 DEF SendFails, WriteBreaks, NoLine, Reject, ResponseEvent, StoreFails, Council,
                Leave
  <2>2. QED
    BY <1>1, <2>1
<1>6. CASE Admit
  <2>1. pc' \in {"run", "idle"}
    BY <1>6 DEF Admit, Leave
  <2>2. QED
    BY <1>1, <2>1
<1>7. CASE ReachTarget \/ AllPut \/ ReceiptEvent
  <2>1. pc' = "idle" \/ (got' = got /\ call' = call /\ pc \in AfterEvidence /\ pc' \in AfterEvidence)
    BY <1>7 DEF ReachTarget, AllPut, ReceiptEvent, Leave
  <2>2. QED
    BY <1>1, <1>2, <2>1
<1>8. QED
  BY <1>3, <1>4, <1>5, <1>6, <1>7 DEF Next, Adapter

-----------------------------------------------------------------------------
(* What is stored and returned                                             *)

\* Once the evidence is accepted, a render answers the call.
LEMMA RenderSound ==
  ASSUME Known, pc \in AfterEvidence
  PROVE  /\ Render \in Renders
         /\ Answers(Render, call.question, call.state)
         /\ AnswersClean(got)
         /\ Answer(got).epoch # NoRef => Clean(World[Answer(got).epoch])
<1> USE DEF AfterRun, AfterSession, AfterReceipt, AfterVerify, AfterQuestion,
            AfterPresence, AfterEvidence
<1>1. got["run"].body \in DOMAIN RunAnswers
  BY DEF Known, KnownAt
<1>2. /\ WorldObject("session", got) /\ WorldObject("receipt", got)
      /\ WorldObject("question", got) /\ WorldObject("evidence", got)
      /\ Answer(got).epoch # NoRef => WorldObject("epoch", got)
  BY DEF Known, KnownAt, Matches
<1>3. /\ got["session"].body = Answer(got).session
      /\ got["receipt"].body = Answer(got).receipt
      /\ got["question"].body = Answer(got).question
      /\ got["evidence"].body = Answer(got).evidence
      /\ Answer(got).epoch # NoRef => got["epoch"].body = Answer(got).epoch
  BY <1>2 DEF WorldObject, Wanted
<1>4. QuestionMatches(got) /\ PresenceMatches(got) /\ EvidenceMatches(got)
      /\ ReceiptMatches(got) /\ GovernanceMatches(got) /\ AnswersClean(got)
  BY DEF Known, KnownAt, Matches
<1>5. Answer(got).session \in Refs /\ Answer(got).receipt \in Refs
  BY <1>1, CouncilAssumption DEF Answer
<1>6. Answer(got).session \in Sound
  BY <1>3, <1>4 DEF PresenceMatches
<1>7. Render \in Renders
  BY <1>5, <1>6 DEF Render, Renders
<1>8. /\ World[World[Answer(got).session].question].text = call.question
      /\ World[World[Answer(got).session].evidence].state = call.state
      /\ World[Answer(got).receipt].result = Answer(got).session
  BY <1>3, <1>4 DEF QuestionMatches, PresenceMatches, EvidenceMatches, ReceiptMatches,
                    Session, Object
<1>9. Answers(Render, call.question, call.state)
  BY <1>6, <1>8 DEF Answers, Render, OutcomeOf
<1>10. Answer(got).epoch # NoRef => Clean(World[Answer(got).epoch])
  BY <1>3, <1>4 DEF GovernanceMatches, Object
<1>11. QED
  BY <1>4, <1>7, <1>9, <1>10

LEMMA FilesStored ==
  ASSUME Known, pc \in AfterEvidence
  PROVE  /\ FilesOf(got) \subseteq Stored
         /\ \A i \in DOMAIN Artifacts : <<Artifacts[i], got["run"].body>> \in Stored
<1>1. got["run"].body \in DOMAIN RunAnswers
  BY DEF Known, KnownAt, AfterRun, AfterSession, AfterReceipt, AfterVerify, AfterQuestion,
         AfterPresence, AfterEvidence
<1>2. \A i \in DOMAIN Artifacts : Artifacts[i] \in ArtifactNames \cup EpochNames
  BY ArtifactsListed
<1>3. QED
  BY <1>1, <1>2 DEF FilesOf, Stored

\* The event of one's own that a run gains.
LEMMA EventAppended ==
  ASSUME Typed, NEW r \in Runs, NEW e \in Event,
         events' = [events EXCEPT ![r] = Append(@, e)]
  PROVE  /\ events' \in [Runs -> Seq(Event)]
         /\ \A q \in Runs : \A i \in DOMAIN events[q] :
              i \in DOMAIN events'[q] /\ events'[q][i] = events[q][i]
         /\ \A q \in Runs : \A i \in DOMAIN events'[q] :
              i \in DOMAIN events[q] \/ (q = r /\ i = Len(events[r]) + 1)
         /\ Len(events[r]) + 1 \in DOMAIN events'[r]
         /\ events'[r][Len(events[r]) + 1] = e
<1>1. events \in [Runs -> Seq(Event)]
  BY DEF Typed, StoreTyped
<1>2. events'[r] = Append(events[r], e) /\ \A q \in Runs \ {r} : events'[q] = events[q]
  BY <1>1
<1>3. events[r] \in Seq(Event)
  BY <1>1
<1>4. Append(events[r], e) \in Seq(Event)
  BY <1>3
<1>5. \A i \in DOMAIN events[r] :
        i \in DOMAIN events'[r] /\ events'[r][i] = events[r][i]
  BY <1>2, <1>3
<1>6. \A i \in DOMAIN events'[r] : i \in DOMAIN events[r] \/ i = Len(events[r]) + 1
  BY <1>2, <1>3
<1>7. Len(events[r]) + 1 \in DOMAIN events'[r] /\ events'[r][Len(events[r]) + 1] = e
  BY <1>2, <1>3
<1>8. events' \in [Runs -> Seq(Event)]
  BY <1>1, <1>4
<1>9. QED
  BY <1>2, <1>5, <1>6, <1>7, <1>8

ReceiptOf == [kind |-> "receipt", render |-> Render, files |-> FilesOf(got)]
ResponseOf == [kind |-> "response", render |-> Render, parent |-> receiptAt,
               files |-> FilesOf(got)]

\* The run that an append of run_council reaches, and what is appended.
LEMMA AppendsAreEvents ==
  ASSUME Typed, Known, Persisting, pc \in {"receiptEvent", "responseEvent"}
  PROVE  call.run \in Runs /\ ReceiptOf \in Event /\ ResponseOf \in Event
<1>1. Render \in Renders /\ FilesOf(got) \subseteq Stored
  BY RenderSound, FilesStored DEF AfterEvidence
<1>2. receiptAt \in Nat
  BY DEF Typed, ControlTyped
<1>3. QED
  BY <1>1, <1>2 DEF Persisting, ReceiptOf, ResponseOf, Event

LEMMA StoreStep ==
  ASSUME Typed, Known, Persisting, Next
  PROVE  StoreTyped'
<1>1. CASE Put
  <2>1. placed + 1 \in DOMAIN Artifacts
    BY <1>1, ArtifactsListed DEF Put, Typed, ControlTyped
  <2>2. <<Artifacts[placed + 1], got["run"].body>> \in Stored
    BY <1>1, <2>1, FilesStored DEF Put, AfterEvidence
  <2>3. QED
    BY <1>1, <2>2 DEF Put, Typed, StoreTyped
<1>2. ASSUME NEW r \in Runs, OtherEvent(r)
      PROVE  StoreTyped'
  <2>1. [kind |-> "other"] \in Event
    BY DEF Event
  <2>2. events' \in [Runs -> Seq(Event)] /\ files' = files
    BY <1>2, <2>1, EventAppended DEF OtherEvent
  <2>3. QED
    BY <2>2 DEF Typed, StoreTyped
<1>3. CASE ReceiptEvent
  <2>1. pc = "receiptEvent" /\ files' = files
        /\ events' = [events EXCEPT ![call.run] = Append(@, ReceiptOf)]
    BY <1>3 DEF ReceiptEvent, ReceiptOf
  <2>2. events' \in [Runs -> Seq(Event)]
    BY <2>1, AppendsAreEvents, EventAppended
  <2>3. QED
    BY <2>1, <2>2 DEF Typed, StoreTyped
<1>4. CASE ResponseEvent
  <2>1. pc = "responseEvent" /\ files' = files
        /\ events' = [events EXCEPT ![call.run] = Append(@, ResponseOf)]
    BY <1>4 DEF ResponseEvent, AppendResponse, ResponseOf
  <2>2. events' \in [Runs -> Seq(Event)]
    BY <2>1, AppendsAreEvents, EventAppended
  <2>3. QED
    BY <2>1, <2>2 DEF Typed, StoreTyped
<1>5. CASE \/ NexusAnswers \/ NexusExits \/ Close \/ \E q \in Requests : Council(q)
           \/ Send \/ SendFails \/ WriteEnds \/ NexusReads \/ WriteBreaks
           \/ NoLine \/ Read \/ Reject \/ Admit
           \/ ReachTarget \/ AllPut \/ StoreFails
  <2>1. UNCHANGED <<files, events>>
    BY <1>5 DEF NexusAnswers, NexusExits, Close, Council, Send, SendFails, WriteEnds,
                NexusReads, WriteBreaks, Written, NoLine, Read, Reject, Admit,
                ReachTarget, AllPut, StoreFails, store
  <2>2. QED
    BY <2>1 DEF Typed, StoreTyped
<1>6. QED
  BY <1>1, <1>2, <1>3, <1>4, <1>5 DEF Next, Adapter

-----------------------------------------------------------------------------
LEMMA PersistingStep ==
  ASSUME Typed, Known, Persisting, Next
  PROVE  Persisting'
<1>1. ASSUME pc' \notin {"put", "receiptEvent", "responseEvent"}, placed' = 0
      PROVE  Persisting'
  BY <1>1 DEF Persisting
<1>2. ASSUME UNCHANGED <<pc, got, call, placed, receiptAt, store>>
      PROVE  Persisting'
  BY <1>2 DEF Persisting, store, TargetMatches, Artifacts, Answer, FilesOf, Render
<1>3. ASSUME NEW r \in Runs, OtherEvent(r)
      PROVE  Persisting'
  <2>1. [kind |-> "other"] \in Event
    BY DEF Event
  <2>2. events' = [events EXCEPT ![r] = Append(@, [kind |-> "other"])]
        /\ UNCHANGED <<pc, got, call, placed, receiptAt, files>>
    BY <1>3 DEF OtherEvent
  <2>3. \A q \in Runs : \A i \in DOMAIN events[q] :
          i \in DOMAIN events'[q] /\ events'[q][i] = events[q][i]
    BY <2>1, <2>2, EventAppended
  <2>4. UNCHANGED <<Artifacts, Render, FilesOf(got), TargetMatches>>
    BY <2>2 DEF Artifacts, Render, FilesOf, TargetMatches, Answer
  <2>5. pc = "responseEvent" => call.run \in Runs
    BY DEF Persisting
  <2>6. QED
    BY <2>2, <2>3, <2>4, <2>5 DEF Persisting
<1>4. CASE Put
  <2>1. pc = "put" /\ placed' = placed + 1
        /\ files' = files \cup {<<Artifacts[placed + 1], got["run"].body>>}
        /\ UNCHANGED <<pc, got, call, receiptAt, events>>
    BY <1>4 DEF Put
  <2>2. UNCHANGED <<Artifacts, TargetMatches>>
    BY <2>1 DEF Artifacts, TargetMatches, Answer
  <2>3. \A i \in 1 .. placed' : i \in 1 .. placed \/ i = placed + 1
    BY <2>1 DEF Typed, ControlTyped
  <2>4. \A i \in 1 .. placed' : <<Artifacts[i], got["run"].body>> \in files'
    BY <2>1, <2>3 DEF Persisting
  <2>5. QED
    BY <2>1, <2>2, <2>4 DEF Persisting
<1>5. CASE AllPut
  <2>1. CASE call.run = NoRun
    BY <1>1, <1>5, <2>1 DEF AllPut, Leave
  <2>2. CASE call.run # NoRun
    <3>1. pc = "put" /\ pc' = "receiptEvent" /\ placed = Len(Artifacts)
          /\ UNCHANGED <<got, call, placed, receiptAt, files, events>>
      BY <1>5, <2>2 DEF AllPut, store
    <3>2. UNCHANGED <<Artifacts, FilesOf(got), TargetMatches>>
      BY <3>1 DEF Artifacts, TargetMatches, Answer, FilesOf
    <3>3. call.run \in Runs
      BY <2>2, <3>1, CouncilAssumption DEF Typed, ControlTyped
    <3>4. \A i \in DOMAIN Artifacts : i \in 1 .. placed
      BY <3>1, ArtifactsListed
    <3>5. FilesOf(got) \subseteq files
      BY <3>1, <3>4 DEF FilesOf, Persisting
    <3>6. TargetMatches
      BY <3>1 DEF Persisting
    <3>7. QED
      BY <3>1, <3>2, <3>3, <3>5, <3>6 DEF Persisting
  <2>3. QED
    BY <2>1, <2>2
<1>6. CASE ReceiptEvent
  <2>1. pc = "receiptEvent" /\ pc' = "responseEvent"
        /\ receiptAt' = Len(events[call.run]) + 1
        /\ events' = [events EXCEPT ![call.run] = Append(@, ReceiptOf)]
        /\ UNCHANGED <<got, call, placed, files>>
    BY <1>6 DEF ReceiptEvent, ReceiptOf
  <2>2. UNCHANGED <<Render, FilesOf(got), TargetMatches>>
    BY <2>1 DEF Render, TargetMatches, Answer, FilesOf, Artifacts
  <2>3. call.run \in Runs /\ FilesOf(got) \subseteq files /\ TargetMatches
    BY <2>1 DEF Persisting
  <2>4. receiptAt' \in DOMAIN events'[call.run] /\ events'[call.run][receiptAt'] = ReceiptOf
    BY <2>1, <2>3, AppendsAreEvents, EventAppended
  <2>5. ReceiptOf.kind = "receipt" /\ ReceiptOf.render = Render
    BY DEF ReceiptOf
  <2>6. QED
    BY <2>1, <2>2, <2>3, <2>4, <2>5 DEF Persisting
<1>7. CASE ReachTarget
  <2>1. CASE call.kept /\ TargetMatches
    <3>1. pc' = "put" /\ pc = "target" /\ UNCHANGED <<got, call, placed, files>> /\ TargetMatches
      BY <1>7, <2>1 DEF ReachTarget, store
    <3>2. placed = 0
      BY <3>1 DEF Persisting
    <3>3. UNCHANGED TargetMatches
      BY <3>1 DEF TargetMatches
    <3>4. 1 .. placed' = {}
      BY <3>1, <3>2
    <3>5. QED
      BY <3>1, <3>3, <3>4 DEF Persisting
  <2>2. CASE ~(call.kept /\ TargetMatches)
    BY <1>1, <1>7, <2>2 DEF ReachTarget, Leave
  <2>3. QED
    BY <2>1, <2>2
<1>8. CASE \/ SendFails \/ WriteBreaks \/ NoLine \/ Reject \/ ResponseEvent \/ StoreFails
           \/ \E q \in Requests : Council(q)
  <2>1. pc' \in {"idle", "health"} /\ placed' = 0
    BY <1>8 DEF SendFails, WriteBreaks, NoLine, Reject, ResponseEvent, StoreFails, Council,
                Leave, Persisting
  <2>2. QED
    BY <1>1, <2>1
<1>9. CASE Admit
  <2>1. pc' \in {"run", "idle"} /\ placed' = 0
    BY <1>9 DEF Admit, Leave, Persisting
  <2>2. QED
    BY <1>1, <2>1
<1>10. CASE Read
  <2>1. pc \in Requesting /\ pc' = Following(pc, Noted)
    BY <1>10, NotedTyped DEF Read
  <2>2. pc' \notin {"put", "receiptEvent", "responseEvent"}
    BY <2>1 DEF Following, Requesting, Verifies, Inspects
  <2>3. placed' = 0
    BY <1>10, <2>1 DEF Read, Persisting, Requesting, Verifies, Inspects
  <2>4. QED
    BY <1>1, <2>2, <2>3
<1>11. CASE \/ NexusAnswers \/ NexusExits \/ Close \/ Send \/ WriteEnds \/ NexusReads
  BY <1>2, <1>11 DEF NexusAnswers, NexusExits, Close, Send, WriteEnds, NexusReads, Written, store
<1>12. QED
  BY <1>3, <1>4, <1>5, <1>6, <1>7, <1>8, <1>9, <1>10, <1>11 DEF Next, Adapter

-----------------------------------------------------------------------------
\* What a step does to the store: nothing, a put, or one event at one run's end,
\* which is a response only where the response is appended.
LEMMA StoreChanges ==
  ASSUME Typed, Known, Persisting, Next
  PROVE  \/ UNCHANGED events /\ files \subseteq files'
         \/ \E r \in Runs, e \in Event :
              /\ events' = [events EXCEPT ![r] = Append(@, e)]
              /\ files' = files
              /\ e.kind = "response" =>
                   pc = "responseEvent" /\ r = call.run /\ e = ResponseOf
<1>1. CASE Put
  BY <1>1 DEF Put
<1>2. ASSUME NEW r \in Runs, OtherEvent(r)
      PROVE  \E q \in Runs, e \in Event :
               /\ events' = [events EXCEPT ![q] = Append(@, e)]
               /\ files' = files
               /\ e.kind # "response"
  <2>1. [kind |-> "other"] \in Event /\ [kind |-> "other"].kind # "response"
    BY DEF Event
  <2>2. events' = [events EXCEPT ![r] = Append(@, [kind |-> "other"])] /\ files' = files
    BY <1>2 DEF OtherEvent
  <2>3. QED
    BY <2>1, <2>2
<1>3. CASE ReceiptEvent
  <2>1. pc = "receiptEvent" /\ files' = files
        /\ events' = [events EXCEPT ![call.run] = Append(@, ReceiptOf)]
    BY <1>3 DEF ReceiptEvent, ReceiptOf
  <2>2. ReceiptOf.kind # "response"
    BY DEF ReceiptOf
  <2>3. QED
    BY <2>1, <2>2, AppendsAreEvents
<1>4. CASE ResponseEvent
  <2>1. pc = "responseEvent" /\ files' = files
        /\ events' = [events EXCEPT ![call.run] = Append(@, ResponseOf)]
    BY <1>4 DEF ResponseEvent, AppendResponse, ResponseOf
  <2>2. QED
    BY <2>1, AppendsAreEvents
<1>5. CASE \/ NexusAnswers \/ NexusExits \/ Close \/ \E q \in Requests : Council(q)
           \/ Send \/ SendFails \/ WriteEnds \/ NexusReads \/ WriteBreaks
           \/ NoLine \/ Read \/ Reject \/ Admit
           \/ ReachTarget \/ AllPut \/ StoreFails
  BY <1>5 DEF NexusAnswers, NexusExits, Close, Council, Send, SendFails, WriteEnds,
              NexusReads, WriteBreaks, Written, NoLine, Read, Reject, Admit,
              ReachTarget, AllPut, StoreFails, store
<1>6. QED
  BY <1>1, <1>2, <1>3, <1>4, <1>5 DEF Next, Adapter

\* A response in a run was there before, or is the one appended now.
LEMMA ResponseOrigin ==
  ASSUME Typed, Known, Persisting, Next, NEW r \in Runs, NEW i \in Responses(r)'
  PROVE  /\ \A j \in DOMAIN events[r] :
              j \in DOMAIN events'[r] /\ events'[r][j] = events[r][j]
         /\ files \subseteq files'
         /\ \/ i \in Responses(r)
            \/ /\ pc = "responseEvent" /\ r = call.run /\ events'[r][i] = ResponseOf
               /\ i = Len(events[r]) + 1
<1>1. CASE UNCHANGED events /\ files \subseteq files'
  BY <1>1 DEF Responses
<1>2. CASE \E q \in Runs, e \in Event :
             /\ events' = [events EXCEPT ![q] = Append(@, e)]
             /\ files' = files
             /\ e.kind = "response" =>
                  pc = "responseEvent" /\ q = call.run /\ e = ResponseOf
  <2>1. PICK q \in Runs, e \in Event :
          /\ events' = [events EXCEPT ![q] = Append(@, e)]
          /\ files' = files
          /\ e.kind = "response" =>
               pc = "responseEvent" /\ q = call.run /\ e = ResponseOf
    BY <1>2
  <2>2. /\ \A j \in DOMAIN events[r] :
             j \in DOMAIN events'[r] /\ events'[r][j] = events[r][j]
        /\ \A j \in DOMAIN events'[r] :
             j \in DOMAIN events[r] \/ (r = q /\ j = Len(events[q]) + 1)
        /\ events'[q][Len(events[q]) + 1] = e
    BY <2>1, EventAppended
  <2>3. i \in DOMAIN events'[r] /\ events'[r][i].kind = "response"
    BY DEF Responses
  <2>4. CASE i \in DOMAIN events[r]
    BY <2>1, <2>2, <2>3, <2>4 DEF Responses
  <2>5. CASE r = q /\ i = Len(events[q]) + 1
    BY <2>1, <2>2, <2>3, <2>5
  <2>6. QED
    BY <2>2, <2>3, <2>4, <2>5
<1>3. QED
  BY <1>1, <1>2, StoreChanges

LEMMA RestsStep ==
  ASSUME Typed, Known, Persisting, Rests, Next
  PROVE  Rests'
<1> SUFFICES ASSUME NEW r \in Runs, NEW i \in Responses(r)'
             PROVE  RestsOnReceipt(r, i)'
  BY DEF Rests
<1>1. /\ \A j \in DOMAIN events[r] :
           j \in DOMAIN events'[r] /\ events'[r][j] = events[r][j]
      /\ files \subseteq files'
  BY ResponseOrigin
<1>2. CASE i \in Responses(r)
  <2>1. RestsOnReceipt(r, i) /\ i \in DOMAIN events[r]
    BY <1>2 DEF Rests, Responses
  <2>2. QED
    BY <1>1, <2>1 DEF RestsOnReceipt
<1>3. CASE /\ pc = "responseEvent" /\ r = call.run /\ events'[r][i] = ResponseOf
           /\ i = Len(events[r]) + 1
  <2>1. /\ receiptAt \in DOMAIN events[r] /\ events[r][receiptAt].kind = "receipt"
        /\ events[r][receiptAt].render = Render /\ FilesOf(got) \subseteq files
    BY <1>3 DEF Persisting
  <2>2. receiptAt < i
    BY <1>3, <2>1 DEF Typed, StoreTyped
  <2>3. /\ events'[r][i].parent = receiptAt /\ events'[r][i].render = Render
        /\ events'[r][i].files = FilesOf(got)
    BY <1>3 DEF ResponseOf
  <2>4. QED
    BY <1>1, <2>1, <2>2, <2>3 DEF RestsOnReceipt
<1>4. QED
  BY <1>2, <1>3, ResponseOrigin

LEMMA CleanStep ==
  ASSUME Typed, Known, Persisting, ArtifactsAreClean, Next
  PROVE  ArtifactsAreClean'
<1>1. CASE Put
  <2>1. pc = "put" /\ files' = files \cup {<<Artifacts[placed + 1], got["run"].body>>}
        /\ placed + 1 \in DOMAIN Artifacts
    BY <1>1, ArtifactsListed DEF Put, Typed, ControlTyped
  <2>2. AnswersClean(got) /\ (Answer(got).epoch # NoRef => Clean(World[Answer(got).epoch]))
    BY <2>1, RenderSound DEF AfterEvidence
  <2>3. got["session"].body = Answer(got).session /\ got["receipt"].body = Answer(got).receipt
    BY <2>1 DEF Known, KnownAt, AfterSession, AfterReceipt, AfterVerify, AfterQuestion,
                AfterPresence, AfterEvidence, WorldObject, Wanted
  <2>4. /\ RunAnswers[got["run"].body].clean
        /\ World[RunAnswers[got["run"].body].session].clean
        /\ World[RunAnswers[got["run"].body].receipt].clean
    BY <2>2, <2>3 DEF AnswersClean, Clean, Session, Object, Answer
  <2>5. Artifacts[placed + 1] \in EpochNames => World[RunAnswers[got["run"].body].epoch].clean
    BY <2>1, <2>2, ArtifactsListed DEF Clean, Answer
  <2>6. QED
    BY <2>1, <2>4, <2>5 DEF ArtifactsAreClean, EpochNames
<1>2. CASE files' = files
  BY <1>2 DEF ArtifactsAreClean
<1>3. CASE ~Put
  <2>1. files' = files
    BY <1>3 DEF Next, Adapter, NexusAnswers, NexusExits, Close, Council, OtherEvent,
                Send, SendFails, WriteEnds, NexusReads, WriteBreaks, Written, NoLine,
                Read, Reject, Admit, ReachTarget, AllPut, ReceiptEvent, ResponseEvent,
                StoreFails, store
  <2>2. QED
    BY <1>2, <2>1
<1>4. QED
  BY <1>1, <1>3

LEMMA RendersStep ==
  ASSUME Typed, Known, Persisting, RendersAnswer, Next
  PROVE  RendersAnswer'
<1>1. \A x \in returned' : Answers(x.render, x.request.question, x.request.state)
  <2>1. CASE UNCHANGED returned
    BY <2>1 DEF RendersAnswer
  <2>2. CASE Returned /\ pc \in AfterEvidence
    <3>1. Answers(Render, call.question, call.state)
      BY <2>2, RenderSound
    <3>2. \A x \in returned' : x \in returned \/ x = [request |-> call, render |-> Render]
      BY <2>2 DEF Returned
    <3>3. QED
      BY <3>1, <3>2 DEF RendersAnswer
  <2>3. UNCHANGED returned \/ (Returned /\ pc \in AfterEvidence)
    BY DEF Next, Adapter, NexusAnswers, NexusExits, Close, Council, OtherEvent, Send,
           SendFails, WriteEnds, NexusReads, WriteBreaks, Written, NoLine, Read, Reject,
           Admit, ReachTarget, Put, AllPut, ReceiptEvent, ResponseEvent, StoreFails,
           AfterEvidence
  <2>4. QED
    BY <2>1, <2>2, <2>3
<1>2. ASSUME NEW r \in Runs, NEW i \in Responses(r)'
      PROVE  Answers(events'[r][i].render, Target[r].question, Target[r].state)
  <2>1. CASE i \in Responses(r)
    <3>1. events'[r][i] = events[r][i]
      BY <1>2, <2>1, ResponseOrigin DEF Responses
    <3>2. QED
      BY <2>1, <3>1 DEF RendersAnswer
  <2>2. CASE pc = "responseEvent" /\ r = call.run /\ events'[r][i] = ResponseOf
    <3>1. Answers(Render, call.question, call.state)
      BY <2>2, RenderSound DEF AfterEvidence
    <3>2. Target[r].question = call.question /\ Target[r].state = call.state
      BY <2>2, CouncilAssumption DEF Persisting, TargetMatches
    <3>3. events'[r][i].render = Render
      BY <2>2 DEF ResponseOf
    <3>4. QED
      BY <3>1, <3>2, <3>3
  <2>3. QED
    BY <1>2, <2>1, <2>2, ResponseOrigin
<1>3. QED
  BY <1>1, <1>2 DEF RendersAnswer

-----------------------------------------------------------------------------
LEMMA InvStep ==
  ASSUME IInv, [Next]_vars
  PROVE  IInv'
<1>1. CASE Next
  <2>1. Typed'
    BY <1>1, TransportStep, ControlStep, StoreStep DEF IInv, Typed
  <2>2. Known' /\ Persisting' /\ Rests' /\ ArtifactsAreClean' /\ RendersAnswer'
    BY <1>1, KnownStep, PersistingStep, RestsStep, CleanStep, RendersStep DEF IInv
  <2>3. QED
    BY <2>1, <2>2 DEF IInv
<1>2. CASE UNCHANGED vars
  <2>1. UNCHANGED <<process, inbox, outbox, counter, pc, exchange, call, got, placed,
                    receiptAt, calls, files, events, returned>>
    BY <1>2 DEF vars, transport, store
  <2>2. Typed'
    BY <2>1 DEF IInv, Typed, TransportTyped, ControlTyped, StoreTyped
  <2>3. Known'
    BY <2>1 DEF IInv, Known, KnownAt, QuestionMatches, PresenceMatches, Matches,
                EvidenceMatches
  <2>4. Persisting'
    BY <2>1 DEF IInv, Persisting, TargetMatches, Artifacts, Answer, FilesOf, Render
  <2>5. Rests'
    BY <2>1 DEF IInv, Rests, RestsOnReceipt, Responses
  <2>6. ArtifactsAreClean'
    BY <2>1 DEF IInv, ArtifactsAreClean
  <2>7. RendersAnswer'
    BY <2>1 DEF IInv, RendersAnswer, Responses
  <2>8. QED
    BY <2>2, <2>3, <2>4, <2>5, <2>6, <2>7 DEF IInv
<1>3. QED
  BY <1>1, <1>2

\* The inductive invariant of the adapter: what each request of a council may
\* rely on of the answers before it, and what the store holds at each put.
THEOREM CouncilInvariance == Spec => []IInv
<1>1. Init => IInv
  BY InitInv
<1>2. IInv /\ [Next]_vars => IInv'
  BY InvStep
<1>3. QED
  BY <1>1, <1>2, PTL DEF Spec

\* Every variable has its type, for any world, requests and runs.
THEOREM CouncilTypeCorrect == Spec => []TypeOK
<1>1. IInv => TypeOK
  BY TypedIsTypeOK DEF IInv
<1>2. QED
  BY <1>1, CouncilInvariance, PTL

\* No artifact with a credential or hidden reasoning reaches the store: the
\* scans of _validate_and_render come before every put of _persist_artifacts,
\* for every answer NEXUS may give.
THEOREM ArtifactsAlwaysClean == Spec => []ArtifactsAreClean
<1>1. IInv => ArtifactsAreClean
  BY DEF IInv
<1>2. QED
  BY <1>1, CouncilInvariance, PTL

\* A response of a run follows its own receipt event and its artifacts are in
\* the store, whoever else appends: _persist_artifacts.
THEOREM ResponsesAlwaysRest == Spec => []ResponseRestsOnReceipt
<1>1. IInv => ResponseRestsOnReceipt
  BY DEF IInv, Rests, RestsOnReceipt, ResponseRestsOnReceipt
<1>2. QED
  BY <1>1, CouncilInvariance, PTL

\* What has been rendered, in a run or to the caller, answers what was asked.
LEMMA RenderedAnswers ==
  ASSUME IInv, NEW x \in Rendered
  PROVE  Answers(x.render, x.question, x.state)
<1>1. CASE \E y \in returned :
             x = [question |-> y.request.question, state |-> y.request.state,
                  render |-> y.render]
  BY <1>1 DEF IInv, RendersAnswer
<1>2. CASE \E r \in Runs : \E i \in Responses(r) :
             x = [question |-> Target[r].question, state |-> Target[r].state,
                  render |-> events[r][i].render]
  BY <1>2 DEF IInv, RendersAnswer
<1>3. QED
  BY <1>1, <1>2 DEF Rendered

\* A render answers the question that was asked, from evidence in the state
\* admitted, whatever late, foreign or unnamed answers were read: _read_line,
\* _validate_world_object, _validate_and_render.
THEOREM RendersAlwaysAnswer == Spec => []RenderAnswersItsRequest
<1>1. IInv => RenderAnswersItsRequest
  BY RenderedAnswers DEF RenderAnswersItsRequest, Answers
<1>2. QED
  BY <1>1, CouncilInvariance, PTL

\* A rendered outcome has the share of the members that its policy demands and
\* more of them than any other choice, whatever session NEXUS committed.
THEOREM OutcomesAlwaysMajority == Spec => []OutcomeHasItsMajority
<1>1. ASSUME IInv
      PROVE  OutcomeHasItsMajority
  <2>1. ASSUME NEW x \in Rendered, x.render.outcome # NoConsensus
        PROVE  LET s == World[x.render.session] IN
                 /\ Cardinality(For(s, x.render.outcome)) * s.denominator
                      >= Cardinality(Seats(s)) * s.numerator
                 /\ \A c \in Choices(s) \ {x.render.outcome} :
                      Cardinality(For(s, c)) < Cardinality(For(s, x.render.outcome))
    <3>1. x.render.session \in Sound /\ x.render.outcome = Outcome(World[x.render.session])
      BY <1>1, <2>1, RenderedAnswers DEF Answers
    <3>2. RosterIsOrdinary(World[x.render.session])
          /\ BallotsOpenCommitments(World[x.render.session])
      BY <3>1 DEF Sound
    <3>3. QED
      BY <2>1, <3>1, <3>2, OutcomeIsMajority
  <2>2. QED
    BY <2>1 DEF OutcomeHasItsMajority, For, Seats
<1>2. QED
  BY <1>1, CouncilInvariance, PTL
=============================================================================
