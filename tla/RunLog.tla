------------------------------- MODULE RunLog -------------------------------
(***************************************************************************)
(* What an interaction run promises its callers: one append-only log.  An  *)
(* append adds one entry to whatever log it finds; an import brings a      *)
(* whole record set, takes effect at once, and only if the set extends the *)
(* log.  InteractionStore implements this with immutable event files and a *)
(* HEAD file (the class's docstring: "Append-only run/event persistence"). *)
(***************************************************************************)
EXTENDS Naturals, Sequences

CONSTANTS Clients,    \* processes and threads that use the run
          Payloads,   \* what an event records
          RecordSets  \* the record sets callers import

VARIABLES created,  \* the log can be read
          log,      \* what a reader is shown, in order
          pending   \* each client's request under way: {} or {request}

vars == <<created, log, pending>>

Init ==
  /\ created = FALSE
  /\ log = <<>>
  /\ pending = [c \in Clients |-> {}]

Create == ~created /\ created' = TRUE /\ UNCHANGED <<log, pending>>

\* An append names its payload, an import its entries.
Submit(c) ==
  /\ pending[c] = {}
  /\ \E r \in pending'[c] :
       /\ \/ r.kind = "append" /\ r.payload \in Payloads
          \/ r.kind = "import" /\ r.entries \in RecordSets
       /\ pending' = [pending EXCEPT ![c] = {r}]
  /\ UNCHANGED <<created, log>>

Drop(c) ==
  /\ pending[c] # {}
  /\ pending' = [pending EXCEPT ![c] = {}]
  /\ UNCHANGED <<created, log>>

\* The parents of the new entry are places earlier in the log's numbering.
Append1(c) ==
  /\ created
  /\ \E r \in pending[c], parents \in SUBSET (0 .. Len(log) - 1) :
       /\ r.kind = "append"
       /\ log' = Append(log, [payload |-> r.payload, parents |-> parents])
  /\ pending' = [pending EXCEPT ![c] = {}]
  /\ UNCHANGED created

Import(c) ==
  /\ \E r \in pending[c] :
       /\ r.kind = "import"
       /\ Len(log) <= Len(r.entries)
       /\ log = SubSeq(r.entries, 1, Len(log))
       /\ log' = r.entries
  /\ created' = TRUE
  /\ pending' = [pending EXCEPT ![c] = {}]

Next ==
  \/ Create
  \/ \E c \in Clients : Submit(c) \/ Drop(c) \/ Append1(c) \/ Import(c)

Spec == Init /\ [][Next]_vars
=============================================================================
