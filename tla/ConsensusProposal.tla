-------------------------- MODULE ConsensusProposal --------------------------
(***************************************************************************)
(* adapters/consensus.py with tools/consensus_adapter.py: a mutation that  *)
(* is meant for the store is put to an external consensus provider first.  *)
(* The intent binds the operation to the fingerprint of the store it was   *)
(* read from, an inventory that is read without a lock, registry by        *)
(* registry; the provider's receipt is checked against the intent, and     *)
(* then put back to the provider.                                          *)
(*                                                                         *)
(* Each call of the provider is a process of its own, given its request,   *)
(* read up to a limit and killed at its timeout.  The provider is not in   *)
(* the repository: here it commits a request at any time while the process *)
(* lives, answers commit.propose with anything at all or not at all, and   *)
(* answers receipt.verify by what it has committed.                        *)
(***************************************************************************)
EXTENDS RecoverableStore

CONSTANTS Mutations,      \* MUTATION_OPERATIONS, with their params
          Proposers,      \* invocations of the command
          Votes,          \* what a quorum can count
          MaxCommits      \* bound: length of the provider's log

ASSUME ConsensusAssumption == MaxCommits \in Nat

VARIABLES proposals,    \* what each invocation holds
          providerLog,  \* receipts of what the provider committed, in order
          accepted      \* what each invocation printed

consensusVars == <<proposals, providerLog, accepted>>

\* intent_id is the digest of the other fields: the intent itself.
Intent(operation, fingerprint) ==
  [operation |-> operation, expected |-> fingerprint]

Receipt(intent, state, required, observed, verified, index) ==
  [intent |-> intent, state |-> state, required |-> required,
   observed |-> observed, verified |-> verified, index |-> index]

NoIntent == Intent("none", {})
NoReceipt == Receipt(NoIntent, {}, 0, 0, FALSE, 0)
NoProposal == [at |-> "new", intent |-> NoIntent, next |-> 0, read |-> {},
               receipt |-> NoReceipt]

ProposalStep(p, call) == proposals' = [proposals EXCEPT ![p] = call]

\* A faulty form: the objects before the records
InventoryObjectsFirst == <<"object", "file", "head">>

\* ControlStore.fingerprint: the File records, the HEAD of each Collection and
\* the objects, listed in this order.
Inventory == <<"file", "head", "object">>

-----------------------------------------------------------------------------
(* The checks.                                                             *)

\* validate_intent
ValidIntent(intent) ==
  /\ intent.operation \in Mutations

\* validate_receipt on its own, and with the intent it answers.
WellFormedReceipt(r) ==
  /\ r.required >= 1 /\ r.observed >= r.required
  /\ r.verified

AnswersIntent(r, intent) ==
  /\ r.intent = intent
  /\ r.state = intent.expected

\* The provider's answer to receipt.verify; what it answers with names the
\* intent of the receipt it was given.
ProviderVerifies(r) == \E n \in DOMAIN providerLog : providerLog[n] = r

-----------------------------------------------------------------------------
(* The command                                                             *)

StartProposal(p, operation) ==
  /\ proposals[p].at = "new"
  /\ ProposalStep(p, [NoProposal EXCEPT !.at = "fingerprint", !.next = 1,
                                        !.intent.operation = operation])
  /\ UNCHANGED <<providerLog, accepted>>

ReadInventory(p) ==
  /\ proposals[p].at = "fingerprint" /\ proposals[p].next <= Len(Inventory)
  /\ LET registry == Inventory[proposals[p].next]
     IN  ProposalStep(p, [proposals[p] EXCEPT
           !.next = @ + 1, !.read = @ \cup In(registry, Names(live, registry))])
  /\ UNCHANGED <<providerLog, accepted>>

BuildIntent(p) ==
  /\ proposals[p].at = "fingerprint" /\ proposals[p].next > Len(Inventory)
  /\ LET intent == Intent(proposals[p].intent.operation, proposals[p].read)
     IN  /\ ValidIntent(intent)
         /\ ProposalStep(p, [proposals[p] EXCEPT !.at = "propose", !.intent = intent,
                                                 !.next = 0])
  /\ UNCHANGED <<providerLog, accepted>>

\* The provider commits the request: nothing ties it to an earlier one.
Commit(p) ==
  /\ proposals[p].at = "propose" /\ Len(providerLog) < MaxCommits
  /\ \E required \in Votes \ {0}, observed \in Votes :
       /\ observed >= required
       /\ providerLog' = Append(providerLog,
            Receipt(proposals[p].intent, proposals[p].intent.expected,
                    required, observed, TRUE, Len(providerLog)))
  /\ UNCHANGED <<proposals, accepted>>

IntentsAbout(intent) ==
  {intent} \cup {proposals[q].intent : q \in Proposers}
  \cup {providerLog[n].intent : n \in DOMAIN providerLog}

\* Everything that can be said of one intent.
Variants(i) ==
  [intent : {i}, state : {i.expected}, required : Votes, observed : Votes,
   verified : BOOLEAN, index : 0..MaxCommits]

\* What the process may print: a receipt of the log, or one that differs from
\* such a receipt or from the one that is due in any of its fields.
Answers(intent) ==
  {Receipt(intent, i.expected, 1, 1, TRUE, 0) : i \in IntentsAbout(intent)}
  \cup UNION {Variants(i) : i \in IntentsAbout(intent)}

\* _call and validate_receipt, given what the process printed; where it does
\* not pass the command ends.
CheckReceipt(p) ==
  /\ proposals[p].at = "propose"
  /\ \E r \in Answers(proposals[p].intent) :
       /\ WellFormedReceipt(r)
       /\ AnswersIntent(r, proposals[p].intent)
       /\ ProposalStep(p, [proposals[p] EXCEPT !.at = "verify", !.receipt = r])
  /\ UNCHANGED <<providerLog, accepted>>

\* The second call, and what the command prints.
PostVerify(p) ==
  /\ proposals[p].at = "verify"
  /\ ProviderVerifies(proposals[p].receipt)
  /\ accepted' = [accepted EXCEPT ![p] = @ \cup {proposals[p].receipt}]
  /\ ProposalStep(p, [proposals[p] EXCEPT !.at = "ended"])
  /\ UNCHANGED providerLog

\* verify: a receipt that somebody kept.
VerifyReceipt(p) ==
  /\ proposals[p].at = "new"
  /\ \E r \in Answers(NoIntent) :
       /\ WellFormedReceipt(r)
       /\ ProviderVerifies(r)
       /\ accepted' = [accepted EXCEPT ![p] = @ \cup {r}]
  /\ ProposalStep(p, [NoProposal EXCEPT !.at = "ended"])
  /\ UNCHANGED providerLog

\* A timeout, too much output, a failure, an answer that does not pass: the
\* process is killed and the command ends, whatever was committed; the next
\* invocation starts over.
GiveUp(p) ==
  /\ proposals[p].at \in {"propose", "verify"}
  /\ ProposalStep(p, NoProposal)
  /\ UNCHANGED <<providerLog, accepted>>

ConsensusInit ==
  /\ proposals = [p \in Proposers |-> NoProposal]
  /\ providerLog = <<>>
  /\ accepted = [p \in Proposers |-> {}]

ConsensusNext ==
  \E p \in Proposers :
    \/ \E operation \in Mutations : StartProposal(p, operation)
    \/ ReadInventory(p) \/ BuildIntent(p)
    \/ Commit(p) \/ CheckReceipt(p) \/ PostVerify(p) \/ VerifyReceipt(p) \/ GiveUp(p)

-----------------------------------------------------------------------------
ConsensusTypeOK ==
  /\ \A p \in Proposers :
       /\ proposals[p].at \in {"new", "fingerprint", "propose", "verify", "ended"}
       /\ proposals[p].at \in {"propose", "verify"} => ValidIntent(proposals[p].intent)
  /\ Len(providerLog) <= MaxCommits

(* A receipt the command prints is of something the provider committed,    *)
(* with its quorum, and a proposal prints only the receipt of its own      *)
(* intent, bound to the inventory that invocation read: whatever the       *)
(* process answers, however often a proposal that was committed is given   *)
(* up and made again, and whatever another invocation proposes meanwhile.  *)
(* The inventory may be of no moment of the store, but it never lists a    *)
(* File without its object (adapters/consensus.py:393-423,                 *)
(* storage/control_store.py:811-836).                                      *)
ReceiptsAreCommitted ==
  \A p \in Proposers : \A r \in accepted[p] :
    /\ \E n \in DOMAIN providerLog : providerLog[n] = r
    /\ r.required >= 1 /\ r.observed >= r.required
    /\ proposals[p].intent # NoIntent
         => r.intent = proposals[p].intent /\ r.state = proposals[p].read
    /\ Readable(r.state, Names(r.state, "file"))
=============================================================================
