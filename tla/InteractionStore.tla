-------------------------- MODULE InteractionStore --------------------------
(***************************************************************************)
(* storage/interaction_store.py: one interaction run, its events and its   *)
(* HEAD, used by several clients at once.  Run records, event records and  *)
(* HEAD files are replaced whole, so each write is one step; every         *)
(* operation that writes holds the run's lock file.  All paths but the     *)
(* event records' contain the run's identity, and an event's identity      *)
(* covers its run, so one run stands for all of them.                      *)
(*                                                                         *)
(* An event's identity is the hash of its content.  Events are numbered in *)
(* the order they are first written; a stored event keeps its number.      *)
(* Callers' arguments are validated before the lock is taken and a call    *)
(* refused there changes nothing: the requests below are valid ones.       *)
(***************************************************************************)
EXTENDS Naturals, Sequences

CONSTANTS Clients,     \* processes and threads that use the store
          Payloads,    \* what an event records
          RecordSets,  \* the record sets callers import
          Free, Dead,  \* lock states: no lock file; its owner is gone
          MaxEvents    \* bound: no append or import starts past this many events

\* An event of a record set; its parents by sequence number.
Entry == [payload : Payloads, parents : SUBSET Nat]

\* What import_record_set checks of a set before it takes the lock: sequence
\* numbers 0, 1, ... and every lineage parent earlier in the set.
ASSUME RunAssumption ==
  /\ \A s \in RecordSets :
       /\ s \in Seq(Entry)
       /\ \A i \in DOMAIN s : s[i].parents \subseteq 0 .. i - 2
  /\ Free \notin Clients /\ Dead \notin Clients /\ Free # Dead
  /\ MaxEvents \in Nat

VARIABLES run,       \* the run record exists
          events,    \* the run's event records, by identity
          headed,    \* the HEAD file exists
          head,      \* the event HEAD names, NoEvent if it is empty
          lock,      \* the lock file of the run
          pc,        \* what each client does next
          request,   \* the arguments of its append_event or import
          basis,     \* the event an appender computed from HEAD
          written    \* the identities of the events its call has stored

store == <<run, events, headed, head>>
locals == <<request, basis, written>>
vars == <<store, lock, pc, locals>>

NoEvent == 0
Event == [sequence : Nat, previous : Nat, parents : SUBSET Nat, payload : Payloads]

Locked == {"create_check", "create_run", "create_head", "append_read",
           "append_event", "append_head", "import_check", "import_run",
           "import_events", "import_head", "import_unlock", "verify", "unlock"}

NoRequest == [kind |-> "none"]
AppendRequest == [kind : {"append"}, payload : Payloads]
ImportRequest == [kind : {"import"}, entries : RecordSets]

TypeOK ==
  /\ run \in BOOLEAN
  /\ events \in Seq(Event)
  /\ headed \in BOOLEAN
  /\ head \in Nat
  /\ lock \in Clients \cup {Free, Dead}
  /\ pc \in [Clients -> Locked \cup {"idle", "import_verify"}]
  /\ request \in [Clients -> AppendRequest \cup ImportRequest \cup {NoRequest}]
  /\ basis \in [Clients -> Event \cup {NoRequest}]
  /\ written \in [Clients -> Seq(Nat)]

Init ==
  /\ run = FALSE /\ events = <<>>
  /\ headed = FALSE /\ head = NoEvent
  /\ lock = Free
  /\ pc = [c \in Clients |-> "idle"]
  /\ request = [c \in Clients |-> NoRequest]
  /\ basis = [c \in Clients |-> NoRequest]
  /\ written = [c \in Clients |-> <<>>]

Goto(c, from, to) == pc[c] = from /\ pc' = [pc EXCEPT ![c] = to]

Forget(c) ==
  /\ request' = [request EXCEPT ![c] = NoRequest]
  /\ basis' = [basis EXCEPT ![c] = NoRequest]
  /\ written' = [written EXCEPT ![c] = <<>>]

-----------------------------------------------------------------------------
(* _exclusive_run_lock                                                     *)

\* A client that finds the lock file raises at once, which changes nothing.
Acquire(c) == lock = Free /\ lock' = c

\* os.write or os.fsync on the new file raises: nobody unlinks it.
AcquireFails(c) ==
  /\ pc[c] = "idle"
  /\ lock = Free /\ lock' = Dead
  /\ UNCHANGED <<store, pc, locals>>

Unlock(c) ==
  /\ Goto(c, "unlock", "idle")
  /\ lock' = Free
  /\ Forget(c)
  /\ UNCHANGED store

-----------------------------------------------------------------------------
(* What HEAD leads to                                                      *)

\* _list_events_from_head: the identities from sequence 0 to event n.
Walk(records) ==
  LET upTo[n \in 0 .. Len(records)] ==
        IF n = NoEvent THEN <<>> ELSE Append(upTo[records[n].previous], n)
  IN  upTo

Lineage == Walk(events)

History == Lineage[head]

EmptyHead == headed' = TRUE /\ head' = NoEvent

WriteHead(n) == headed' = TRUE /\ head' = n

\* n is the identity of event e; an event already stored is not written again.
WriteEvent(e, n) ==
  \/ /\ n \in DOMAIN events
     /\ events[n] = e
     /\ UNCHANGED events
  \/ /\ \A k \in DOMAIN events : events[k] # e
     /\ n = Len(events) + 1
     /\ events' = Append(events, e)

-----------------------------------------------------------------------------
(* create_run                                                              *)

BeginCreate(c) ==
  /\ Goto(c, "idle", "create_check")
  /\ Acquire(c)
  /\ UNCHANGED <<store, locals>>

CreateRunMissing(c) ==
  /\ Goto(c, "create_check", "create_run")
  /\ ~run
  /\ UNCHANGED <<store, lock, locals>>

\* The stored HEAD is read, or it is missing while event records exist, which
\* raises: nothing is written.
CreateRunKept(c) ==
  /\ Goto(c, "create_check", "unlock")
  /\ run
  /\ headed \/ events # <<>>
  /\ UNCHANGED <<store, lock, locals>>

CreateRunRepairedBlindly(c) ==
  /\ Goto(c, "create_check", "create_head")
  /\ run
  /\ ~headed
  /\ UNCHANGED <<store, lock, locals>>

\* A run record that lost its first HEAD, and has no events, gets one.
CreateRunRepaired(c) ==
  /\ Goto(c, "create_check", "create_head")
  /\ run
  /\ ~headed /\ events = <<>>
  /\ UNCHANGED <<store, lock, locals>>

CreateRunRecord(c) ==
  /\ Goto(c, "create_run", "create_head")
  /\ run' = TRUE
  /\ UNCHANGED <<events, headed, head, lock, locals>>

CreateRunHead(c) ==
  /\ Goto(c, "create_head", "unlock")
  /\ EmptyHead
  /\ UNCHANGED <<run, events, lock, locals>>

-----------------------------------------------------------------------------
(* append_event                                                            *)

BeginAppendUnlocked(c, payload) ==
  /\ run
  /\ Len(events) < MaxEvents
  /\ Goto(c, "idle", "append_read")
  /\ request' = [request EXCEPT ![c] = [kind |-> "append", payload |-> payload]]
  /\ UNCHANGED <<store, lock, basis, written>>

\* get_run before the lock finds the run record.
BeginAppend(c, payload) ==
  /\ run
  /\ Len(events) < MaxEvents
  /\ Goto(c, "idle", "append_read")
  /\ Acquire(c)
  /\ request' = [request EXCEPT ![c] = [kind |-> "append", payload |-> payload]]
  /\ UNCHANGED <<store, basis, written>>

NextSequenceOfEmptyHead == IF head = NoEvent THEN 0 - 1 ELSE events[head].sequence + 1

NextSequence == IF head = NoEvent THEN 0 ELSE events[head].sequence + 1

AcceptableParentsUnordered(parents) == parents \subseteq DOMAIN events

\* Every parent is a stored event of the run with a lower sequence number; it
\* need not be one that HEAD leads to.
AcceptableParents(parents) ==
  \A p \in parents : p \in DOMAIN events /\ events[p].sequence < NextSequence

DefaultParents == IF head = NoEvent THEN {} ELSE {head}

\* HEAD cannot be read, or a parent is not acceptable.
AppendRefused(c) ==
  /\ Goto(c, "append_read", "unlock")
  /\ \/ ~headed
     \/ \E p \in DOMAIN events : ~AcceptableParents({p})
  /\ UNCHANGED <<store, lock, locals>>

\* The caller leaves the parents to the store, or names none or one.
AppendAccepted(c) ==
  /\ Goto(c, "append_read", "append_event")
  /\ headed
  /\ \E parents \in {DefaultParents, {}} \cup {{p} : p \in DOMAIN events} :
       /\ AcceptableParents(parents)
       /\ basis' = [basis EXCEPT ![c] =
            [sequence |-> NextSequence, previous |-> head,
             parents |-> parents, payload |-> request[c].payload]]
  /\ UNCHANGED <<store, lock, request, written>>

AppendEvent(c) ==
  /\ Goto(c, "append_event", "append_head")
  /\ \E n \in 1 .. Len(events) + 1 :
       /\ WriteEvent(basis[c], n)
       /\ written' = [written EXCEPT ![c] = <<n>>]
  /\ UNCHANGED <<run, headed, head, lock, request, basis>>

AppendHead(c) ==
  /\ Goto(c, "append_head", "unlock")
  /\ WriteHead(written[c][1])
  /\ UNCHANGED <<run, events, lock, locals>>

-----------------------------------------------------------------------------
(* import_record_set                                                       *)

BeginImport(c, s) ==
  /\ Len(events) < MaxEvents
  /\ Goto(c, "idle", "import_check")
  /\ Acquire(c)
  /\ request' = [request EXCEPT ![c] = [kind |-> "import", entries |-> s]]
  /\ UNCHANGED <<store, basis, written>>

\* The event that entry s[i] describes when ids are the identities before it.
Described(s, i, ids) ==
  [sequence |-> i - 1,
   previous |-> IF i = 1 THEN NoEvent ELSE ids[i - 1],
   parents |-> {ids[q + 1] : q \in s[i].parents},
   payload |-> s[i].payload]

ExtendsSomewhat(s) == Len(History) <= Len(s)

\* The imported identities begin with those of the stored history.
ExtendsHistory(s) ==
  /\ Len(History) <= Len(s)
  /\ \A i \in DOMAIN History : events[History[i]] = Described(s, i, History)

ImportRefused(c) ==
  /\ Goto(c, "import_check", "unlock")
  /\ run
  /\ ~headed \/ ~ExtendsHistory(request[c].entries)
  /\ UNCHANGED <<store, lock, locals>>

ImportKnownRun(c) ==
  /\ Goto(c, "import_check", "import_events")
  /\ run
  /\ headed /\ ExtendsHistory(request[c].entries)
  /\ UNCHANGED <<store, lock, locals>>

ImportNewRun(c) ==
  /\ Goto(c, "import_check", "import_run")
  /\ ~run
  /\ UNCHANGED <<store, lock, locals>>

ImportRun(c) ==
  /\ Goto(c, "import_run", "import_events")
  /\ run' = TRUE
  /\ UNCHANGED <<events, headed, head, lock, locals>>

ImportEvent(c) ==
  LET s == request[c].entries
      i == Len(written[c]) + 1
  IN  /\ pc[c] = "import_events" /\ i <= Len(s)
      /\ \E n \in 1 .. Len(events) + 1 :
           /\ WriteEvent(Described(s, i, written[c]), n)
           /\ written' = [written EXCEPT ![c] = Append(@, n)]
      /\ UNCHANGED <<run, headed, head, lock, pc, request, basis>>

ImportEventsDone(c) ==
  /\ pc[c] = "import_events" /\ Len(written[c]) = Len(request[c].entries)
  /\ Goto(c, "import_events", "import_head")
  /\ UNCHANGED <<store, lock, locals>>

ImportHead(c) ==
  /\ Goto(c, "import_head", "import_unlock")
  /\ IF written[c] = <<>> THEN EmptyHead
     ELSE WriteHead(written[c][Len(written[c])])
  /\ UNCHANGED <<run, events, lock, locals>>

\* The lock is given up before verify_run, which takes it again.
ImportUnlock(c) ==
  /\ Goto(c, "import_unlock", "import_verify")
  /\ lock' = Free
  /\ Forget(c)
  /\ UNCHANGED store

-----------------------------------------------------------------------------
(* verify_run, fingerprint_run, export_record_set: they write nothing but  *)
(* hold the lock while they read.                                          *)

BeginVerify(c) ==
  /\ Goto(c, "idle", "verify") \/ Goto(c, "import_verify", "verify")
  /\ Acquire(c)
  /\ UNCHANGED <<store, locals>>

\* Somebody else holds the lock: the import raises although it took effect.
ImportUnverified(c) ==
  /\ lock # Free
  /\ Goto(c, "import_verify", "idle")
  /\ UNCHANGED <<store, lock, locals>>

EndVerify(c) ==
  /\ Goto(c, "verify", "unlock")
  /\ UNCHANGED <<store, lock, locals>>

-----------------------------------------------------------------------------
(* Failures                                                                *)

\* A read, a write or a check on data abstracted away raises: the finally of
\* the lock runs next.
Fail(c) ==
  /\ pc[c] \in Locked \ {"unlock", "import_unlock"}
  /\ pc' = [pc EXCEPT ![c] = "unlock"]
  /\ Forget(c)
  /\ UNCHANGED <<store, lock>>

Kill(c) ==
  /\ pc[c] # "idle"
  /\ pc' = [pc EXCEPT ![c] = "idle"]
  /\ lock' = IF lock = c THEN Dead ELSE lock
  /\ Forget(c)
  /\ UNCHANGED store

\* The operator removes a leftover lock after making sure its owner is gone
\* (docs/STORAGE-HARDENING.md section 4).
OperatorUnlock ==
  /\ lock = Dead /\ lock' = Free
  /\ UNCHANGED <<store, pc, locals>>

Create(c) ==
  \/ BeginCreate(c) \/ CreateRunMissing(c) \/ CreateRunKept(c)
  \/ CreateRunRepaired(c) \/ CreateRunRecord(c) \/ CreateRunHead(c)

\* An append that has its lock.
Appending(c) ==
  AppendRefused(c) \/ AppendAccepted(c) \/ AppendEvent(c) \/ AppendHead(c)

Import(c) ==
  \/ \E s \in RecordSets : BeginImport(c, s)
  \/ ImportRefused(c) \/ ImportKnownRun(c) \/ ImportNewRun(c) \/ ImportRun(c)
  \/ ImportEvent(c) \/ ImportEventsDone(c) \/ ImportHead(c) \/ ImportUnlock(c)
  \/ ImportUnverified(c)

Verify(c) == BeginVerify(c) \/ EndVerify(c)

Next ==
  \/ \E c \in Clients :
       \/ Create(c)
       \/ \E p \in Payloads : BeginAppend(c, p)
       \/ Appending(c) \/ Import(c) \/ Verify(c)
       \/ Unlock(c) \/ Fail(c) \/ Kill(c) \/ AcquireFails(c)
  \/ OperatorUnlock

Spec == Init /\ [][Next]_vars

-----------------------------------------------------------------------------
(* Properties                                                              *)

\* In every state, whatever failed, list_events can follow HEAD: it names a
\* stored event and each event names the one with the sequence number before
\* its own, down to 0; and lineage parents are stored events of lower sequence,
\* so the parent graph has no cycle.
HistoryListable ==
  /\ headed => run
  /\ head \in DOMAIN events \cup {NoEvent}
  /\ \A n \in DOMAIN events :
       /\ IF events[n].sequence = 0 THEN events[n].previous = NoEvent
          ELSE /\ events[n].previous \in DOMAIN events
               /\ events[events[n].previous].sequence + 1 = events[n].sequence
       /\ \A p \in events[n].parents :
            p \in DOMAIN events /\ events[p].sequence < events[n].sequence

Wedged ==
  /\ run /\ ~headed /\ events # <<>>
  /\ \A c \in Clients : pc[c] \notin {"import_events", "import_head"}

\* A run whose first import stopped after an event record and before HEAD is
\* never given a HEAD: create_run, append_event and a second import all raise.
WedgedStaysHeadless == [][Wedged => Wedged']_vars

\* _verify_snapshot raises: an event HEAD leads to names a lineage parent that
\* HEAD does not lead to.
Unverifiable ==
  \E i \in DOMAIN History :
    ~(events[History[i]].parents \subseteq {History[k] : k \in DOMAIN History})

\* A run with such a parent fails verify_run, export_record_set and every
\* recovery bundle from then on: no later append or import mends it.
UnverifiableForever == [][Unverifiable => Unverifiable']_vars

(***************************************************************************)
(* The inductive strengthening: what each client knows at each step.       *)
(***************************************************************************)

\* The lock file names the one client that is inside the locked region.
Exclusion == \A c \in Clients : pc[c] \in Locked <=> lock = c

\* The run record is the first file of a run.
RunFirst ==
  /\ headed \/ events # <<>> => run
  /\ ~headed => head = NoEvent

CreatingInv ==
  \A c \in Clients :
    /\ pc[c] = "create_run" => ~run
    /\ pc[c] = "create_head" => run /\ ~headed /\ events = <<>>

\* What an appender computed from HEAD is still so when it writes.
AppendingInv ==
  \A c \in Clients :
    /\ pc[c] \in {"append_read", "append_event", "append_head"} =>
         request[c] \in AppendRequest
    /\ pc[c] \in {"append_event", "append_head"} => run /\ headed
    /\ pc[c] = "append_event" =>
         /\ basis[c] \in Event
         /\ basis[c].sequence = NextSequence /\ basis[c].previous = head
         /\ AcceptableParents(basis[c].parents)
    /\ pc[c] = "append_head" =>
         Len(written[c]) = 1 /\ written[c][1] \in DOMAIN events

\* What an import has stored so far is the beginning of a chain.
ImportingInv ==
  \A c \in Clients :
    /\ pc[c] \in {"import_check", "import_run", "import_events", "import_head"} =>
         request[c] \in ImportRequest
    /\ pc[c] \in {"idle", "import_verify", "import_check", "import_run"} =>
         written[c] = <<>>
    /\ pc[c] = "import_run" => ~run
    /\ pc[c] \in {"import_events", "import_head"} =>
         /\ run /\ Len(written[c]) <= Len(request[c].entries)
         /\ \A i \in DOMAIN written[c] :
              /\ written[c][i] \in DOMAIN events
              /\ events[written[c][i]].sequence = i - 1

IInv ==
  /\ TypeOK /\ HistoryListable
  /\ Exclusion /\ RunFirst /\ CreatingInv /\ AppendingInv /\ ImportingInv

\* The store implements the append-only log: what a reader of HEAD is shown, and
\* the requests of the calls that have not taken effect.
Places(ids) == {events[n].sequence : n \in ids}

Shown == [i \in DOMAIN History |->
            [payload |-> events[History[i]].payload,
             parents |-> Places(events[History[i]].parents)]]

Requested == {"append_read", "append_event", "append_head",
              "import_check", "import_run", "import_events", "import_head"}

Pending == [c \in Clients |-> IF pc[c] \in Requested THEN {request[c]} ELSE {}]

Log == INSTANCE RunLog WITH created <- headed, log <- Shown, pending <- Pending

LogSpec == Log!Spec
=============================================================================
