------------------------- MODULE ModelStateRegistry -------------------------
(***************************************************************************)
(* storage/model_state_registry.py: capture() over the interaction store.  *)
(* A capture stores an immutable model-state record and then links it to   *)
(* its run: it lists the run's events without the run's lock and, if none  *)
(* names the state, calls append_event, which takes the lock.  Others use  *)
(* the run as they like: append_event and import_record_set check the form *)
(* of a model_state event and not that its record is stored.               *)
(***************************************************************************)
EXTENDS InteractionStore

CONSTANTS States,  \* model states a caller captures: the payload of a
                   \* model_state event names one state
          Foreign  \* what is appended otherwise, model_state events included

ASSUME RegistryAssumption == States \subseteq Payloads /\ Foreign \subseteq Payloads

VARIABLES states,    \* records/model-states/: records stored
          step,      \* where each client's capture is
          capturing, \* the state it captures
          captured   \* history: states whose capture has returned

registryVars == <<states, step, capturing, captured>>
allVars == <<vars, registryVars>>

RegistryTypeOK ==
  /\ states \subseteq States
  /\ step \in [Clients -> {"idle", "list", "append", "appending"}]
  /\ capturing \in [Clients -> States \cup {Free}]
  /\ captured \subseteq States

RegistryInit ==
  /\ Init
  /\ states = {} /\ captured = {}
  /\ step = [c \in Clients |-> "idle"]
  /\ capturing = [c \in Clients |-> Free]

Proceed(c, from, to) == step[c] = from /\ step' = [step EXCEPT ![c] = to]

End(c) ==
  /\ step' = [step EXCEPT ![c] = "idle"]
  /\ capturing' = [capturing EXCEPT ![c] = Free]

ReturnForgotten(c) == End(c) /\ captured' = captured \cup {capturing'[c]}

Return(c) == End(c) /\ captured' = captured \cup {capturing[c]}

Raise(c) == End(c) /\ UNCHANGED captured

-----------------------------------------------------------------------------

\* The run exists; the record is written unless it is stored already.
BeginCapture(c, m) ==
  /\ run
  /\ pc[c] = "idle"
  /\ Proceed(c, "idle", "list")
  /\ capturing' = [capturing EXCEPT ![c] = m]
  /\ states' = states \cup {m}
  /\ UNCHANGED <<captured, vars>>

\* capture(link_run_event=False): the record is written and nothing linked.
CaptureUnlinked(c, m) ==
  /\ run
  /\ pc[c] = "idle" /\ step[c] = "idle"
  /\ states' = states \cup {m}
  /\ UNCHANGED <<step, capturing, captured, vars>>

LinkedAnywhere(m) == \E n \in DOMAIN events : events[n].payload = m

\* list_events shows a model_state event that names m.
Linked(m) == \E i \in DOMAIN History : events[History[i]].payload = m

AlreadyLinkedAnywhere(c) ==
  /\ step[c] = "list"
  /\ headed /\ LinkedAnywhere(capturing[c])
  /\ Return(c)
  /\ UNCHANGED <<states, vars>>

AlreadyLinked(c) ==
  /\ step[c] = "list"
  /\ headed /\ Linked(capturing[c])
  /\ Return(c)
  /\ UNCHANGED <<states, vars>>

NotYetLinked(c) ==
  /\ headed /\ ~Linked(capturing[c])
  /\ Proceed(c, "list", "append")
  /\ UNCHANGED <<states, capturing, captured, vars>>

Link(c) ==
  /\ Proceed(c, "append", "appending")
  /\ BeginAppend(c, capturing[c])
  /\ UNCHANGED <<states, capturing, captured>>

\* A read or write raises, HEAD is missing, or another writer has the lock.
CaptureRaises(c) ==
  /\ step[c] \in {"list", "append"}
  /\ Raise(c)
  /\ UNCHANGED <<states, vars>>

\* The append of a capture names HEAD's event as its one parent.
LinkParents(c) ==
  pc'[c] = "append_event" => basis'[c].parents = DefaultParents

LinkStep(c) ==
  /\ step[c] = "appending" /\ Appending(c) /\ LinkParents(c)
  /\ UNCHANGED registryVars

\* append_event returns or raises, and so does the capture.
LinkUnlock(c) ==
  /\ step[c] = "appending" /\ Unlock(c)
  /\ IF written[c] # <<>> THEN Return(c) ELSE Raise(c)
  /\ UNCHANGED states

LinkFails(c) == step[c] = "appending" /\ Fail(c) /\ UNCHANGED registryVars

KillCapture(c) ==
  /\ step[c] # "idle"
  /\ IF pc[c] = "idle" THEN UNCHANGED vars ELSE Kill(c)
  /\ Raise(c)
  /\ UNCHANGED states

Capture(c) ==
  \/ \E m \in States : BeginCapture(c, m) \/ CaptureUnlinked(c, m)
  \/ AlreadyLinked(c) \/ NotYetLinked(c) \/ Link(c) \/ CaptureRaises(c)
  \/ LinkStep(c) \/ LinkUnlock(c) \/ LinkFails(c) \/ KillCapture(c)

\* What else happens to the run (tools/interaction_cli.py among others).
Otherwise(c) ==
  /\ step[c] = "idle"
  /\ \/ Create(c) \/ Appending(c) \/ Import(c) \/ Verify(c)
     \/ \E p \in Foreign : BeginAppend(c, p)
     \/ Unlock(c) \/ Fail(c) \/ Kill(c) \/ AcquireFails(c)
  /\ UNCHANGED registryVars

RegistryNext ==
  \/ \E c \in Clients : Capture(c) \/ Otherwise(c)
  \/ OperatorUnlock /\ UNCHANGED registryVars

RegistrySpec == RegistryInit /\ [][RegistryNext]_allVars

-----------------------------------------------------------------------------
(* Properties                                                              *)

\* Once a capture of a state has returned, to whichever client, its record is
\* stored and the run's history shows a link to it, then and in every later state,
\* however other captures, appends, imports, failures and kills interleave.
CapturedIsLinked == \A m \in captured : m \in states /\ Linked(m)

\* "Capture is idempotent: re-capturing the same canonical state does not append
\* a duplicate run-event link" (docs/MODEL-STATE.md:62).  It does when two clients
\* list the events before either has appended, even if nobody but captures appends
\* model_state events.
NoDuplicateLink ==
  \A i, j \in DOMAIN History :
    /\ events[History[i]].payload = events[History[j]].payload
    /\ events[History[i]].payload \in States
    => i = j
=============================================================================
