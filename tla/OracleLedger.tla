----------------------------- MODULE OracleLedger -----------------------------
(***************************************************************************)
(* adapters/oracle.py: what CONTROL reads from a QSOL-ORACLE ledger.  The  *)
(* ledger is a file of hash-chained events that ORACLE alone appends to;   *)
(* the adapter verifies all of it at every use and never writes.           *)
(*                                                                         *)
(* An event's hash is a value that determines the event: here the event's  *)
(* own hash field, with genuine FALSE where it is not the hash of the      *)
(* rest.  Relevant(ledger) is the events on the subject asked about: in a  *)
(* ledger that verifies no two events are alike.                           *)
(***************************************************************************)
EXTENDS Integers, Sequences, FiniteSets

CONSTANTS Subject  \* the question asked, which is the subject queried

Hashes(ledger) == {ledger[i].hash : i \in DOMAIN ledger}

\* _verified_ledger: one chain from a genesis event, of events whose ids are
\* new, whose hashes are theirs and which derive from earlier events only.
Verified(ledger) ==
  /\ ledger # <<>>
  /\ \A i \in DOMAIN ledger :
       LET event == ledger[i] IN
         /\ event.sequence = i - 1
         /\ \A j \in 1 .. i - 1 : ledger[j].id # event.id
         /\ event.previous = IF i = 1 THEN "none" ELSE ledger[i - 1].hash
         /\ event.from \subseteq Hashes(SubSeq(ledger, 1, i - 1))
         /\ event.genuine

Relevant(ledger) ==
  {event \in {ledger[i] : i \in DOMAIN ledger} : event.subject = Subject}

States(events) == {event.state : event \in events}

StateUncorrected(events) ==
  IF "conflict" \in States(events) THEN "conflict"
  ELSE IF "observed" \in States(events) THEN "known" ELSE "unknown"

\* _response_state: a correction makes what was observed unknown again.
ResponseState(events) ==
  IF "conflict" \in States(events) THEN "conflict"
  ELSE IF \E event \in events : event.kind \in {"correction", "supersession"}
    THEN "unknown"
  ELSE IF "observed" \in States(events) THEN "known" ELSE "unknown"

LastRef(events) ==
  {event.id : event \in {e \in events : \A f \in events : f.sequence <= e.sequence}}

Refs(events) == {event.id : event \in events}

\* query_evidence over a ledger that verifies.
Response(ledger) ==
  [available |-> TRUE, state |-> ResponseState(Relevant(ledger)),
   refs |-> Refs(Relevant(ledger)), head |-> ledger[Len(ledger)].hash]

UnavailableNamed ==
  [available |-> FALSE, state |-> "unavailable", refs |-> {}, head |-> "none"]

\* What ask records when the adapter raises, or when there is no ORACLE.
Unavailable == [available |-> FALSE, state |-> "unknown", refs |-> {}, head |-> "none"]

\* _verify_cached_query_response: the response is what the ledger said when the
\* response's head was its last event.
CachedVerifies(response, ledger) ==
  /\ Verified(ledger)
  /\ \E n \in DOMAIN ledger :
       /\ ledger[n].hash = response.head
       /\ response.refs = Refs(Relevant(SubSeq(ledger, 1, n)))
       /\ response.state = ResponseState(Relevant(SubSeq(ledger, 1, n)))
=============================================================================
