---------------------- MODULE ModelStateRegistryProofs ----------------------
(***************************************************************************)
(* Proofs about ModelStateRegistry for every number of clients, states and *)
(* events.  Whatever a capture or anybody else does to the run is a step of *)
(* the interaction store, so that all theorems about the store hold here,  *)
(* and what is proved of the links rests on them.                          *)
(***************************************************************************)
EXTENDS ModelStateRegistry, InteractionStoreProofs

\* A capture has stored its record before it does anything else.
CapturingInv == \A c \in Clients : step[c] # "idle" => capturing[c] \in states

\* A capture appends the link it is for, and knows at the end whether it did.
LinkedInv ==
  \A c \in Clients : step[c] = "appending" =>
    /\ pc[c] \in {"append_read", "append_event", "append_head", "unlock"}
    /\ pc[c] # "unlock" => request[c].payload = capturing[c]
    /\ pc[c] \in {"append_read", "append_event"} => written[c] = <<>>
    /\ pc[c] = "unlock" /\ written[c] # <<>> => Linked(capturing[c])

RegistryInv == IInv /\ RegistryTypeOK /\ CapturingInv

-----------------------------------------------------------------------------
(* Lemmas                                                                  *)

\* A registry step is a step of the interaction store, or leaves it alone.
LEMMA StoreStep ==
  ASSUME RegistryTypeOK, CapturingInv, [RegistryNext]_allVars
  PROVE  [Next]_vars
<1>1. CASE UNCHANGED allVars \/ OperatorUnlock
  BY <1>1 DEF allVars, Next
<1>2. ASSUME NEW c \in Clients, Capture(c) PROVE [Next]_vars
  <2>1. CASE Link(c)
    <3>1. capturing[c] \in Payloads
      BY <2>1, RegistryAssumption DEF Link, Proceed, CapturingInv, RegistryTypeOK
    <3>2. QED
      BY <2>1, <3>1 DEF Link, Next
  <2>2. CASE LinkStep(c) \/ LinkUnlock(c) \/ LinkFails(c) \/ KillCapture(c)
    BY <2>2 DEF LinkStep, LinkUnlock, LinkFails, KillCapture, Next
  <2>3. QED
    BY <1>2, <2>1, <2>2
    DEF Capture, BeginCapture, CaptureUnlinked, AlreadyLinked, NotYetLinked, CaptureRaises
<1>3. ASSUME NEW c \in Clients, Otherwise(c) PROVE [Next]_vars
  BY <1>3, RegistryAssumption DEF Otherwise, Next
<1>4. QED
  BY <1>1, <1>2, <1>3 DEF RegistryNext

LEMMA RegistryInitInv == RegistryInit => RegistryInv
<1> SUFFICES ASSUME RegistryInit PROVE RegistryInv
  OBVIOUS
<1>1. IInv
  BY InitInv DEF RegistryInit
<1>2. RegistryTypeOK /\ CapturingInv
  BY DEF RegistryInit, RegistryTypeOK, CapturingInv
<1>3. QED
  BY <1>1, <1>2 DEF RegistryInv

\* Records are never deleted, and a client's place in its capture is its own.
LEMMA RegistryStep ==
  ASSUME RegistryTypeOK, CapturingInv, [RegistryNext]_allVars
  PROVE  RegistryTypeOK' /\ CapturingInv' /\ states \subseteq states'
<1> USE DEF RegistryTypeOK, CapturingInv
<1>1. CASE UNCHANGED registryVars
  BY <1>1 DEF registryVars
<1>2. ASSUME NEW c \in Clients, NEW m \in States, BeginCapture(c, m) \/ CaptureUnlinked(c, m)
      PROVE  RegistryTypeOK' /\ CapturingInv' /\ states \subseteq states'
  BY <1>2 DEF BeginCapture, CaptureUnlinked, Proceed
<1>3. ASSUME NEW c \in Clients, End(c), UNCHANGED states,
             captured' = captured \/ (step[c] # "idle" /\ captured' = captured \cup {capturing[c]})
      PROVE  RegistryTypeOK' /\ CapturingInv' /\ states \subseteq states'
  BY <1>3 DEF End
<1>4. ASSUME NEW c \in Clients, NotYetLinked(c) \/ Link(c)
      PROVE  RegistryTypeOK' /\ CapturingInv' /\ states \subseteq states'
  BY <1>4 DEF NotYetLinked, Link, Proceed
<1>5. ASSUME NEW c \in Clients, AlreadyLinked(c) \/ CaptureRaises(c) \/ LinkUnlock(c) \/ KillCapture(c)
      PROVE  RegistryTypeOK' /\ CapturingInv' /\ states \subseteq states'
  BY <1>3, <1>5 DEF AlreadyLinked, CaptureRaises, LinkUnlock, KillCapture, Return, Raise
<1>6. QED
  BY <1>1, <1>2, <1>4, <1>5
  DEF RegistryNext, Capture, Otherwise, LinkStep, LinkFails, allVars, registryVars

\* A link that the history shows is shown for ever.
LEMMA LinkedStays ==
  ASSUME IInv, WritingInv, [Next]_vars, NEW m, Linked(m)
  PROVE  \E i \in DOMAIN History' : events'[History'[i]].payload = m
<1>1. PICK i \in DOMAIN History : events[History[i]].payload = m
  BY DEF Linked
<1>2. History[i] \in DOMAIN events
  BY EventsChained DEF IInv, IsPath
<1>3. i \in DOMAIN History' /\ History'[i] = History[i]
  BY HistoryGrows
<1>4. events'[History[i]] = events[History[i]]
  BY <1>2, EventsGrow DEF WritingInv
<1>5. QED
  BY <1>1, <1>3, <1>4

\* The HEAD that an append writes shows what it appended.
LEMMA AppendLinks ==
  ASSUME IInv, WritingInv, NEW c \in Clients, AppendHead(c)
  PROVE  \E i \in DOMAIN History' : events'[History'[i]].payload = request[c].payload
<1>1. /\ events[written[c][1]].payload = request[c].payload /\ written[c][1] \in DOMAIN events
      /\ events' = events
  BY DEF AppendHead, Goto, IInv, AppendingInv, WritingInv
<1>2. History' = Append(History, written[c][1])
  BY AppendedHistory
<1>3. History \in Seq(DOMAIN events)
  BY EventsChained DEF IInv, IsPath
<1>4. PICK old \in Seq(DOMAIN events), new \in DOMAIN events : old = History /\ new = written[c][1]
  BY <1>1, <1>3
<1>5. Len(old) + 1 \in DOMAIN Append(old, new) /\ Append(old, new)[Len(old) + 1] = new
  OBVIOUS
<1>6. QED
  BY <1>1, <1>2, <1>4, <1>5

\* A client that is at no step of its own capture's keeps its place in both.
LEMMA CaptureKept ==
  ASSUME RegistryInv, [RegistryNext]_allVars, NEW d \in Clients, step'[d] = "appending"
  PROVE  \/ Kept(d) /\ step[d] = "appending" /\ capturing'[d] = capturing[d]
         \/ Link(d) \/ LinkStep(d) \/ LinkFails(d)
<1> USE DEF RegistryInv, RegistryTypeOK, IInv
<1>1. ASSUME NEW c \in Clients, c # d, ClientStep(c), step'[d] = step[d], capturing'[d] = capturing[d]
      PROVE  Kept(d) /\ step[d] = "appending" /\ capturing'[d] = capturing[d]
  BY <1>1, OthersKept
<1>2. ASSUME UNCHANGED <<pc, locals>>, step'[d] = step[d], capturing'[d] = capturing[d]
      PROVE  Kept(d) /\ step[d] = "appending" /\ capturing'[d] = capturing[d]
  BY <1>2 DEF locals, Kept
<1>3. ASSUME NEW c \in Clients, Capture(c), c # d
      PROVE  Kept(d) /\ step[d] = "appending" /\ capturing'[d] = capturing[d]
  <2>1. step'[d] = step[d] /\ capturing'[d] = capturing[d]
    BY <1>3 DEF Capture, BeginCapture, CaptureUnlinked, AlreadyLinked, NotYetLinked, Link, CaptureRaises, LinkStep,
       LinkUnlock, LinkFails, KillCapture, Return, Raise, End, Proceed, registryVars
  <2>2. UNCHANGED <<pc, locals>> \/ ClientStep(c)
    <3>1. CASE Link(c)
      <4>1. capturing[c] \in Payloads
        BY <3>1, RegistryAssumption DEF Link, Proceed, CapturingInv
      <4>2. QED
        BY <3>1, <4>1 DEF Link, ClientStep
    <3>2. QED
      BY <1>3, <3>1 DEF Capture, BeginCapture, CaptureUnlinked, AlreadyLinked, NotYetLinked, CaptureRaises, LinkStep,
         LinkUnlock, LinkFails, KillCapture, ClientStep, vars
  <2>3. QED
    BY <1>1, <1>2, <1>3, <2>1, <2>2
<1>4. ASSUME Capture(d)
      PROVE  Link(d) \/ LinkStep(d) \/ LinkFails(d)
  BY <1>4 DEF Capture, BeginCapture, CaptureUnlinked, AlreadyLinked, NotYetLinked, CaptureRaises,
     LinkUnlock, KillCapture, Return, Raise, End, Proceed
<1>5. ASSUME NEW c \in Clients, Otherwise(c)
      PROVE  Kept(d) /\ step[d] = "appending" /\ capturing'[d] = capturing[d]
  <2>1. UNCHANGED registryVars /\ c # d
    BY <1>5 DEF Otherwise, registryVars
  <2>2. UNCHANGED <<pc, locals>> \/ ClientStep(c)
    BY <1>5, RegistryAssumption DEF Otherwise, ClientStep, AcquireFails
  <2>3. QED
    BY <1>1, <1>2, <2>1, <2>2 DEF registryVars
<1>6. QED
  BY <1>2, <1>3, <1>4, <1>5 DEF RegistryNext, OperatorUnlock, allVars, vars, registryVars

\* Every step keeps the captures linked to the events that are appended for them.
LEMMA LinkedStep ==
  ASSUME RegistryInv, WritingInv, LinkedInv, [RegistryNext]_allVars
  PROVE  LinkedInv'
<1> SUFFICES ASSUME NEW d \in Clients, step'[d] = "appending"
             PROVE  /\ pc'[d] \in {"append_read", "append_event", "append_head", "unlock"}
                    /\ pc'[d] # "unlock" => request'[d].payload = capturing'[d]
                    /\ pc'[d] \in {"append_read", "append_event"} => written'[d] = <<>>
                    /\ pc'[d] = "unlock" /\ written'[d] # <<>> =>
                         \E i \in DOMAIN History' : events'[History'[i]].payload = capturing'[d]
  BY DEF LinkedInv, Linked
<1>1. [Next]_vars /\ IInv /\ TypeOK
  BY StoreStep DEF RegistryInv, IInv
<1>2. CASE Kept(d) /\ step[d] = "appending" /\ capturing'[d] = capturing[d]
  BY <1>1, <1>2, LinkedStays DEF Kept, LinkedInv
<1>3. CASE Link(d)
  BY <1>1, <1>3 DEF Link, Proceed, BeginAppend, Goto, IInv, ImportingInv, TypeOK
<1>4. CASE LinkFails(d)
  BY <1>1, <1>4 DEF LinkFails, Fail, Forget, TypeOK
<1>5. CASE LinkStep(d)
  <2>1. /\ step[d] = "appending" /\ capturing' = capturing
        /\ AppendRefused(d) \/ AppendAccepted(d) \/ AppendEvent(d) \/ AppendHead(d)
    BY <1>5 DEF LinkStep, Appending, registryVars
  <2>2. CASE AppendRefused(d)
    BY <1>1, <2>1, <2>2 DEF AppendRefused, Goto, locals, TypeOK, LinkedInv
  <2>3. CASE AppendAccepted(d)
    BY <1>1, <2>1, <2>3 DEF AppendAccepted, Goto, TypeOK, LinkedInv
  <2>4. CASE AppendEvent(d)
    BY <1>1, <2>1, <2>4 DEF AppendEvent, Goto, TypeOK, LinkedInv
  <2>5. CASE AppendHead(d)
    <3>1. /\ pc[d] = "append_head" /\ pc'[d] = "unlock"
      BY <1>1, <2>5 DEF AppendHead, Goto, TypeOK
    <3>2. request[d].payload = capturing[d]
      BY <2>1, <3>1 DEF LinkedInv
    <3>3. QED
      BY <1>1, <2>1, <2>5, <3>1, <3>2, AppendLinks
  <2>6. QED
    BY <2>1, <2>2, <2>3, <2>4, <2>5
<1>6. QED
  BY <1>2, <1>3, <1>4, <1>5, CaptureKept

\* A capture returns only where its link is shown.
LEMMA CapturedStep ==
  ASSUME RegistryInv, WritingInv, LinkedInv, CapturedIsLinked, [RegistryNext]_allVars
  PROVE  CapturedIsLinked'
<1>1. [Next]_vars /\ IInv
  BY StoreStep DEF RegistryInv
<1>2. \A m : Linked(m) => \E i \in DOMAIN History' : events'[History'[i]].payload = m
  BY <1>1, LinkedStays
<1>3. ASSUME NEW m \in captured', m \notin captured PROVE Linked(m)
  <2>1. PICK c \in Clients :
          /\ m = capturing[c]
          /\ AlreadyLinked(c) \/ (LinkUnlock(c) /\ written[c] # <<>>)
    BY <1>3 DEF RegistryNext, Capture, Otherwise, BeginCapture, CaptureUnlinked, AlreadyLinked, NotYetLinked,
       Link, CaptureRaises, LinkStep, LinkUnlock, LinkFails, KillCapture, Return, Raise, End,
       registryVars, allVars
  <2>2. CASE AlreadyLinked(c)
    BY <2>1, <2>2 DEF AlreadyLinked
  <2>3. CASE LinkUnlock(c) /\ written[c] # <<>>
    BY <2>1, <2>3 DEF LinkUnlock, Unlock, Goto, LinkedInv
  <2>4. QED
    BY <2>1, <2>2, <2>3
<1>4. \A m \in captured' : Linked(m)
  BY <1>3 DEF CapturedIsLinked
<1>5. ASSUME NEW m \in captured' PROVE m \in states'
  <2>1. states \subseteq states' /\ (m \in captured \/ m \in states)
    <3>1. CASE m \in captured
      BY <3>1, RegistryStep DEF RegistryInv, CapturedIsLinked
    <3>2. CASE m \notin captured
      <4>1. PICK c \in Clients : m = capturing[c] /\ step[c] # "idle"
        BY <1>5, <3>2 DEF RegistryNext, Capture, Otherwise, BeginCapture, CaptureUnlinked,
           AlreadyLinked, NotYetLinked, Link, CaptureRaises, LinkStep, LinkUnlock, LinkFails,
           KillCapture, Return, Raise, End, registryVars, allVars
      <4>2. QED
        BY <4>1, RegistryStep DEF RegistryInv, CapturingInv
    <3>3. QED
      BY <3>1, <3>2
  <2>2. QED
    BY <2>1 DEF CapturedIsLinked
<1>6. QED
  BY <1>2, <1>4, <1>5 DEF CapturedIsLinked, Linked

-----------------------------------------------------------------------------
(* Theorems                                                                *)

\* The invariant of the store and of the registry holds always.
THEOREM RegistryInvariance == RegistrySpec => []RegistryInv
<1>1. RegistryInv /\ [RegistryNext]_allVars => IInv'
  BY StoreStep, TypeStep, HistoryListableStep, ExclusionStep, RunFirstStep, CreatingStep,
     AppendingStep, ImportingStep DEF IInv, RegistryInv
<1>2. RegistryInv /\ [RegistryNext]_allVars => RegistryInv'
  BY <1>1, RegistryStep DEF RegistryInv
<1>3. QED
  BY RegistryInitInv, <1>2, PTL DEF RegistrySpec

\* Every variable of the registry keeps its type.
THEOREM RegistryTypeCorrect == RegistrySpec => []RegistryTypeOK
BY RegistryInvariance, PTL DEF RegistryInv

\* Captures do nothing to a run that its other clients could not do: everything
\* proved of the interaction store holds under captures as well.
THEOREM RegistryImplementsStore == RegistrySpec => Spec
<1>1. RegistryInit => Init
  BY DEF RegistryInit
<1>2. RegistryInv /\ [RegistryNext]_allVars => [Next]_vars
  BY StoreStep DEF RegistryInv
<1>3. QED
  BY <1>1, <1>2, RegistryInvariance, PTL DEF RegistrySpec, Spec

\* A run in which states are captured can always be listed.
THEOREM CapturedRunListable == RegistrySpec => []HistoryListable
BY RegistryImplementsStore, RunAlwaysListable, PTL

\* A run in which states are captured is still an append-only log.
THEOREM CapturedRunImplementsLog == RegistrySpec => LogSpec
BY RegistryImplementsStore, StoreImplementsLog, PTL

\* Once a capture has returned, its record is stored and the run's history shows its
\* link for ever, whatever other captures, appends, imports, failures and kills do (capture, append_event).
THEOREM CapturedAlwaysLinked == RegistrySpec => []CapturedIsLinked
<1> DEFINE Inv == RegistryInv /\ WritingInv /\ LinkedInv /\ CapturedIsLinked
<1>1. RegistryInit => Inv
  BY RegistryInitInv, WritingInitially DEF RegistryInit, LinkedInv, CapturedIsLinked
<1>2. Inv /\ [RegistryNext]_allVars => Inv'
  <2> SUFFICES ASSUME Inv, [RegistryNext]_allVars PROVE Inv'
    OBVIOUS
  <2>1. [Next]_vars /\ IInv
    BY StoreStep DEF RegistryInv
  <2>2. WritingInv'
    BY <2>1, WritingStep
  <2>3. RegistryInv'
    BY <2>1, StepInv, RegistryStep DEF RegistryInv
  <2>4. QED
    BY <2>2, <2>3, LinkedStep, CapturedStep
<1>3. QED
  BY <1>1, <1>2, PTL DEF RegistrySpec
=============================================================================
