------------------------- MODULE OperatorToolsProofs -------------------------
(***************************************************************************)
(* Proofs about the operator's tools for every store, every number of      *)
(* jobs, builds and proposals, every export specification and any ledger   *)
(* of the consensus provider.                                              *)
(***************************************************************************)
EXTENDS OperatorTools, FiniteSetTheorems, SequenceTheorems, TLAPS

-----------------------------------------------------------------------------
(* The live store                                                          *)

\* The one thing the store promises at every moment: a record is written after
\* its bytes, and a Collection's HEAD and snapshots after its own record.
LiveOK ==
  /\ live \subseteq StoreItems
  /\ Readable(live, Names(live, "file"))
  /\ (\E i \in live : i[1] \in {"head", "snapshot"}) => Collection \in live

\* Files but the two HEADs are there for good.
Grows == Lasting(live) \subseteq Lasting(live')

LEMMA NamesIn ==
  ASSUME NEW store, NEW registry
  PROVE  /\ \A n : n \in Names(store, registry) =>
              \E i \in store : i[1] = registry /\ i[2] = n
         /\ \A n : <<registry, n>> \in store => n \in Names(store, registry)
BY DEF Names

LEMMA ItemIs ==
  ASSUME NEW i \in StoreItems
  PROVE  i = <<i[1], i[2]>>
BY DEF StoreItems, In, Collection, Run

\* In a store of such items a name is a file.
LEMMA NamedIsThere ==
  ASSUME NEW store, store \subseteq StoreItems, NEW registry, NEW n \in Names(store, registry)
  PROVE  <<registry, n>> \in store
BY ItemIs, NamesIn

LEMMA LiveInit == Start = live => LiveOK
<1> SUFFICES ASSUME live = Start PROVE LiveOK
  OBVIOUS
<1>1. Start \subseteq StoreItems /\ FilesValid(Start) /\ CollectionValid(Start)
  BY StoreAssumption DEF StoreAssumption, ValidStore
<1>2. (\E i \in Start : i[1] \in {"head", "snapshot"}) => Collection \in Start
  BY <1>1 DEF CollectionValid
<1>3. QED
  BY <1>1, <1>2 DEF LiveOK, FilesValid

\* Every write adds one file and, when it moves a HEAD, takes that HEAD's old one.
LEMMA WriteIs ==
  ASSUME LiveOK, LiveNext
  PROVE  \E i \in StoreItems : \E gone :
           /\ live' = (live \ gone) \cup {i}
           /\ \A g \in gone : g[1] \in {"head", "run-head"}
           /\ i[1] = "file" => ObjectOf[i[2]] \in Names(live, "object")
           /\ i[1] \in {"head", "snapshot"} => Collection \in live
<1> DEFINE Adds(i, gone) ==
             /\ live' = (live \ gone) \cup {i}
             /\ \A g \in gone : g[1] \in {"head", "run-head"}
             /\ i[1] = "file" => ObjectOf[i[2]] \in Names(live, "object")
             /\ i[1] \in {"head", "snapshot"} => Collection \in live
<1>1. ASSUME NEW f \in Files, PutObject(f) \/ PutRecord(f)
      PROVE  \E i \in StoreItems : \E gone : Adds(i, gone)
  <2>1. CASE PutObject(f)
    <3>1. <<"object", ObjectOf[f]>> \in StoreItems
      BY DEF StoreItems, In
    <3>2. Adds(<<"object", ObjectOf[f]>>, {})
      BY <2>1 DEF PutObject
    <3> HIDE DEF Adds
    <3>3. QED
      BY <3>1, <3>2
  <2>2. CASE PutRecord(f)
    <3>1. <<"file", f>> \in StoreItems
      BY DEF StoreItems, In
    <3>2. Adds(<<"file", f>>, {})
      BY <2>2 DEF PutRecord
    <3> HIDE DEF Adds
    <3>3. QED
      BY <3>1, <3>2
  <2>3. QED
    BY <1>1, <2>1, <2>2
<1>2. ASSUME NEW s \in Snapshots, WriteSnapshot(s) \/ AdvanceHead(s)
      PROVE  \E i \in StoreItems : \E gone : Adds(i, gone)
  <2>1. Collection \in live
    BY <1>2, NamesIn DEF LiveOK, WriteSnapshot, AdvanceHead
  <2>2. <<"snapshot", s>> \in StoreItems /\ <<"head", s>> \in StoreItems
    BY DEF StoreItems, In
  <2>3. CASE WriteSnapshot(s)
    <3>1. Adds(<<"snapshot", s>>, {})
      BY <2>1, <2>3 DEF WriteSnapshot
    <3> HIDE DEF Adds
    <3>2. QED
      BY <2>2, <3>1
  <2>4. CASE AdvanceHead(s)
    <3>1. Adds(<<"head", s>>, {<<"head", Before[s]>>})
      BY <2>1, <2>4 DEF AdvanceHead
    <3> HIDE DEF Adds
    <3>2. QED
      BY <2>2, <3>1
  <2>5. QED
    BY <1>2, <2>3, <2>4
<1>3. ASSUME NEW e \in Events, WriteEvent(e) \/ AdvanceRunHead(e)
      PROVE  \E i \in StoreItems : \E gone : Adds(i, gone)
  <2>1. <<"event", e>> \in StoreItems /\ <<"run-head", e>> \in StoreItems
    BY DEF StoreItems, In
  <2>2. CASE WriteEvent(e)
    <3>1. Adds(<<"event", e>>, {})
      BY <2>2 DEF WriteEvent
    <3> HIDE DEF Adds
    <3>2. QED
      BY <2>1, <3>1
  <2>3. CASE AdvanceRunHead(e)
    <3>1. Adds(<<"run-head", e>>, {<<"run-head", Before[e]>>})
      BY <2>3 DEF AdvanceRunHead
    <3> HIDE DEF Adds
    <3>2. QED
      BY <2>1, <3>1
  <2>4. QED
    BY <1>3, <2>2, <2>3
<1>4. ASSUME NEW r \in Replays, WriteReport(r) \/ WriteReplay(r)
      PROVE  \E i \in StoreItems : \E gone : Adds(i, gone)
  <2>1. <<"report", r>> \in StoreItems /\ <<"replay", r>> \in StoreItems
    BY DEF StoreItems, In
  <2>2. Adds(<<"report", r>>, {}) \/ Adds(<<"replay", r>>, {})
    BY <1>4 DEF WriteReport, WriteReplay
  <2> HIDE DEF Adds
  <2>3. QED
    BY <2>1, <2>2
<1>5. QED
  BY <1>1, <1>2, <1>3, <1>4 DEF LiveNext

LEMMA LiveStays ==
  ASSUME LiveOK, LiveNext
  PROVE  LiveOK' /\ Grows
<1>1. PICK i, gone :
        /\ i \in StoreItems
        /\ live' = (live \ gone) \cup {i}
        /\ \A g \in gone : g[1] \in {"head", "run-head"}
        /\ i[1] = "file" => ObjectOf[i[2]] \in Names(live, "object")
        /\ i[1] \in {"head", "snapshot"} => Collection \in live
  BY WriteIs
<1>2. Grows
  BY <1>1 DEF Grows, Lasting
<1>3. live' \subseteq StoreItems
  BY <1>1 DEF LiveOK
<1>4. Names(live, "object") \subseteq Names(live', "object")
  BY <1>1 DEF Names
<1>5. \A f \in Names(live', "file") : ObjectOf[f] \in Names(live', "object")
  <2> SUFFICES ASSUME NEW f \in Names(live', "file") PROVE ObjectOf[f] \in Names(live, "object")
    BY <1>4
  <2>1. PICK x \in live' : x[1] = "file" /\ x[2] = f
    BY NamesIn
  <2>2. CASE x \in live
    BY <2>1, <2>2 DEF LiveOK, Readable, Names
  <2>3. CASE x = i
    BY <1>1, <2>1, <2>3
  <2>4. QED
    BY <1>1, <2>2, <2>3
<1>6. (\E x \in live' : x[1] \in {"head", "snapshot"}) => Collection \in live'
  <2>1. Collection \in live => Collection \in live'
    BY <1>1 DEF Collection
  <2>2. QED
    BY <1>1, <2>1 DEF LiveOK
<1>7. QED
  BY <1>2, <1>3, <1>5, <1>6 DEF LiveOK, Readable

-----------------------------------------------------------------------------
(* Consensus proposals                                                     *)

Intents == [operation : Mutations \cup {"none"}, expected : SUBSET StoreItems]
Receipts == [intent : Intents, state : SUBSET StoreItems, required : Votes \cup {0, 1},
             observed : Votes \cup {0, 1}, verified : BOOLEAN, index : 0..MaxCommits]
Proposals == [at : {"new", "fingerprint", "propose", "verify", "ended"}, intent : Intents,
              next : 0..4, read : SUBSET StoreItems, receipt : Receipts]

\* No File without its object.
Sound(inventory) == Readable(inventory, Names(inventory, "file"))

ProposalOK(p) ==
  LET call == proposals[p] IN
    /\ Sound(call.intent.expected)
    /\ call.at # "ended" => accepted[p] = {}
    /\ call.at = "fingerprint" =>
         /\ call.next \in 1..4
         /\ call.next = 1 => call.read = {}
         /\ Names(call.read, "file") \subseteq Names(live, "file")
         /\ call.next = 4 => Sound(call.read)
    /\ call.at \in {"propose", "verify"} =>
         ValidIntent(call.intent) /\ call.intent.expected = call.read
    /\ call.at = "verify" =>
         WellFormedReceipt(call.receipt) /\ AnswersIntent(call.receipt, call.intent)

ConsensusInv ==
  /\ proposals \in [Proposers -> Proposals]
  /\ providerLog \in Seq(Receipts) /\ Len(providerLog) <= MaxCommits
  /\ accepted \in [Proposers -> SUBSET Receipts]
  /\ \A n \in DOMAIN providerLog : Sound(providerLog[n].state)
  /\ \A p \in Proposers : ProposalOK(p)
  /\ ReceiptsAreCommitted

LEMMA ConsensusStarts == ConsensusInit => ConsensusInv
<1> SUFFICES ASSUME ConsensusInit PROVE ConsensusInv
  OBVIOUS
<1>1. NoIntent \in Intents /\ NoIntent.expected = {}
  BY DEF NoIntent, Intent, Intents
<1>2. NoReceipt \in Receipts
  BY <1>1, ConsensusAssumption DEF NoReceipt, Receipt, Receipts
<1>3. NoProposal \in Proposals /\ NoProposal.at = "new" /\ NoProposal.intent = NoIntent
  BY <1>1, <1>2 DEF NoProposal, Proposals
<1>4. Sound({})
  BY DEF Sound, Readable, Names
<1>5. \A p \in Proposers : ProposalOK(p)
  BY <1>1, <1>3, <1>4 DEF ConsensusInit, ProposalOK
<1>6. providerLog \in Seq(Receipts) /\ Len(providerLog) <= MaxCommits /\ DOMAIN providerLog = {}
  BY ConsensusAssumption DEF ConsensusInit
<1>7. QED
  BY <1>3, <1>5, <1>6 DEF ConsensusInit, ConsensusInv, ReceiptsAreCommitted

LEMMA NamesAdd ==
  ASSUME NEW store, NEW registry, NEW names, NEW r
  PROVE  Names(store \cup In(registry, names), r) =
           Names(store, r) \cup (IF r = registry THEN names ELSE {})
<1>1. PICK added, all : added = In(registry, names) /\ all = store \cup added
  OBVIOUS
<1>2. /\ \A n \in names : \E i \in added : i[1] = registry /\ i[2] = n
      /\ \A i \in added : i[1] = registry /\ i[2] \in names
  <2>1. /\ \A n \in names : <<registry, n>> \in added
        /\ \A i \in added : i[1] = registry /\ i[2] \in names
    BY <1>1 DEF In
  <2>2. \A n : <<registry, n>>[1] = registry /\ <<registry, n>>[2] = n
    OBVIOUS
  <2>3. QED
    BY <2>1, <2>2
<1>3. \A n : n \in Names(all, r) <=> \E i \in all : i[1] = r /\ i[2] = n
  BY DEF Names
<1>4. \A n : n \in Names(store, r) <=> \E i \in store : i[1] = r /\ i[2] = n
  BY DEF Names
<1>5. ASSUME NEW n \in Names(all, r)
      PROVE  n \in Names(store, r) \/ (r = registry /\ n \in names)
  <2>1. PICK i \in all : i[1] = r /\ i[2] = n
    BY <1>3
  <2>2. CASE i \in store
    BY <1>4, <2>1, <2>2
  <2>3. CASE i \in added
    BY <1>2, <2>1, <2>3
  <2>4. QED
    BY <1>1, <2>2, <2>3
<1>6. ASSUME NEW n, n \in Names(store, r) \/ (r = registry /\ n \in names)
      PROVE  n \in Names(all, r)
  <2>1. PICK i \in store \cup added : i[1] = r /\ i[2] = n
    BY <1>2, <1>4, <1>6
  <2>2. QED
    BY <1>1, <1>3, <2>1
<1>7. Names(all, r) = Names(store, r) \cup (IF r = registry THEN names ELSE {})
  BY <1>5, <1>6
<1>8. QED
  BY <1>1, <1>7

LEMMA NamesGrow ==
  ASSUME Grows
  PROVE  \A registry : registry \notin {"head", "run-head"} =>
           Names(live, registry) \subseteq Names(live', registry)
BY DEF Grows, Lasting, Names

\* What clients write while an inventory is read.
LEMMA ConsensusStays ==
  ASSUME ConsensusInv, UNCHANGED consensusVars, Grows
  PROVE  ConsensusInv'
<1>1. Names(live, "file") \subseteq Names(live', "file")
  BY NamesGrow
<1>2. UNCHANGED <<proposals, providerLog, accepted>>
  BY DEF consensusVars
<1>3. \A p \in Proposers : ProposalOK(p)'
  BY <1>1, <1>2 DEF ConsensusInv, ProposalOK
<1>4. QED
  BY <1>2, <1>3 DEF ConsensusInv, ReceiptsAreCommitted

\* A step of one proposal that leaves the provider's log and what was printed.
LEMMA ProposalMoves ==
  ASSUME ConsensusInv, NEW p \in Proposers, NEW call \in Proposals, ProposalStep(p, call),
         UNCHANGED <<live, providerLog, accepted>>,
         proposals[p].at # "ended", ProposalOK(p)'
  PROVE  ConsensusInv'
<1>1. /\ proposals' \in [Proposers -> Proposals]
      /\ \A q \in Proposers \ {p} : proposals'[q] = proposals[q]
  BY DEF ConsensusInv, ProposalStep
<1>2. \A q \in Proposers : ProposalOK(q)'
  BY <1>1 DEF ConsensusInv, ProposalOK
<1>3. accepted[p] = {}
  BY DEF ConsensusInv, ProposalOK
<1>4. ReceiptsAreCommitted'
  BY <1>1, <1>3 DEF ConsensusInv, ReceiptsAreCommitted
<1>5. QED
  BY <1>1, <1>2, <1>4 DEF ConsensusInv

LEMMA InventoryKeeps ==
  ASSUME LiveOK, ConsensusInv, UNCHANGED live, NEW p \in Proposers, ReadInventory(p)
  PROVE  ConsensusInv'
<1> DEFINE old == proposals[p]
<1>1. /\ old \in Proposals /\ old.at = "fingerprint" /\ old.next \in 1..3 /\ ProposalOK(p)
      /\ UNCHANGED <<providerLog, accepted>>
  BY DEF ConsensusInv, ReadInventory, Inventory, ProposalOK
<1>2. PICK registry : registry = Inventory[old.next]
  OBVIOUS
<1>3. /\ old.next = 1 => registry = "file"
      /\ old.next = 2 => registry = "head"
      /\ old.next = 3 => registry = "object"
  BY <1>2 DEF Inventory
<1>4. PICK call : call = [old EXCEPT !.next = @ + 1,
                                     !.read = @ \cup In(registry, Names(live, registry))]
  OBVIOUS
<1>5. ProposalStep(p, call)
  BY <1>2, <1>4 DEF ReadInventory
<1>6. In(registry, Names(live, registry)) \subseteq live
  BY NamedIsThere DEF LiveOK, In
<1>7. call \in Proposals
  <2>1. \A n \in 1..3 : n + 1 \in 0..4
    OBVIOUS
  <2>2. old.read \cup In(registry, Names(live, registry)) \in SUBSET StoreItems
    BY <1>1, <1>6 DEF Proposals, LiveOK
  <2> HIDE DEF old
  <2>3. QED
    BY <1>1, <1>4, <2>1, <2>2 DEF Proposals
<1>8. /\ call.at = "fingerprint" /\ call.next = old.next + 1 /\ call.intent = old.intent
      /\ call.read = old.read \cup In(registry, Names(live, registry))
  BY <1>1, <1>4 DEF Proposals
<1> HIDE DEF old
<1>9. /\ Names(call.read, registry) = Names(old.read, registry) \cup Names(live, registry)
      /\ \A r : r # registry => Names(call.read, r) = Names(old.read, r)
  <2>1. PICK store, names : store = old.read /\ names = Names(live, registry)
    OBVIOUS
  <2>2. \A r : Names(store \cup In(registry, names), r) =
                 Names(store, r) \cup (IF r = registry THEN names ELSE {})
    BY NamesAdd
  <2>3. QED
    BY <1>8, <2>1, <2>2
<1>10. Names(call.read, "file") \subseteq Names(live, "file")
  BY <1>1, <1>9 DEF old, ProposalOK
<1>11. ASSUME call.next = 4 PROVE Sound(call.read)
  <2>1. registry = "object"
    BY <1>1, <1>3, <1>8, <1>11
  <2>2. Names(live, "object") \subseteq Names(call.read, "object")
    BY <1>9, <2>1
  <2>3. QED
    BY <1>10, <2>2 DEF LiveOK, Sound, Readable
<1>12. proposals'[p] = call
  BY <1>5 DEF ConsensusInv, ProposalStep
<1>13. ProposalOK(p)'
  BY <1>1, <1>8, <1>10, <1>11, <1>12 DEF ProposalOK, old
<1>14. QED
  BY <1>1, <1>5, <1>7, <1>13, ProposalMoves DEF old

LEMMA BuildIntentKeeps ==
  ASSUME ConsensusInv, UNCHANGED live, NEW p \in Proposers, BuildIntent(p)
  PROVE  ConsensusInv'
<1> DEFINE old == proposals[p]
<1>1. /\ old \in Proposals /\ old.at = "fingerprint" /\ old.next = 4 /\ ProposalOK(p)
      /\ UNCHANGED <<providerLog, accepted>>
  BY DEF ConsensusInv, BuildIntent, Inventory, ProposalOK
<1>2. PICK intent, call :
        /\ intent = Intent(old.intent.operation, old.read)
        /\ call = [old EXCEPT !.at = "propose", !.intent = intent, !.next = 0]
  OBVIOUS
<1>3. ProposalStep(p, call) /\ ValidIntent(intent)
  BY <1>2 DEF BuildIntent
<1>4. intent \in Intents /\ intent.expected = old.read
  BY <1>1, <1>2 DEF Intent, Intents, Proposals
<1>5. /\ call \in Proposals /\ call.at = "propose" /\ call.intent = intent
      /\ call.read = old.read
  <2> HIDE DEF old
  <2>1. call = [at |-> "propose", intent |-> intent, next |-> 0, read |-> old.read,
                receipt |-> old.receipt]
    BY <1>1, <1>2 DEF Proposals
  <2>2. 0 \in 0..4
    OBVIOUS
  <2>3. QED
    BY <1>1, <1>4, <2>1, <2>2 DEF Proposals
<1>6. proposals'[p] = call
  BY <1>3 DEF ConsensusInv, ProposalStep
<1>7. Sound(old.read) /\ accepted[p] = {}
  BY <1>1 DEF ProposalOK
<1> HIDE DEF old
<1>8. ProposalOK(p)'
  BY <1>1, <1>3, <1>4, <1>5, <1>6, <1>7 DEF ProposalOK
<1>9. QED
  BY <1>1, <1>3, <1>5, <1>8, ProposalMoves DEF old

LEMMA AnswerIs ==
  ASSUME NEW intent, NEW r \in Answers(intent)
  PROVE  \E i \in IntentsAbout(intent) :
           r \in Variants(i) \/ r = Receipt(intent, i.expected, 1, 1, TRUE, 0)
BY DEF Answers

LEMMA CheckReceiptKeeps ==
  ASSUME ConsensusInv, UNCHANGED live, NEW p \in Proposers, CheckReceipt(p)
  PROVE  ConsensusInv'
<1> DEFINE old == proposals[p]
<1>1. /\ old \in Proposals /\ old.at = "propose" /\ ProposalOK(p)
      /\ UNCHANGED <<providerLog, accepted>>
  BY DEF ConsensusInv, CheckReceipt
<1>2. PICK r \in Answers(old.intent) :
        /\ WellFormedReceipt(r) /\ AnswersIntent(r, old.intent)
        /\ ProposalStep(p, [old EXCEPT !.at = "verify", !.receipt = r])
  BY DEF CheckReceipt
<1>3. r \in Receipts
  <2>1. \A q \in Proposers : proposals[q].intent \in Intents
    BY DEF ConsensusInv, Proposals
  <2>2. \A n \in DOMAIN providerLog : providerLog[n].intent \in Intents
    <3>1. \A n \in DOMAIN providerLog : providerLog[n] \in Receipts
      BY DEF ConsensusInv
    <3>2. QED
      BY <3>1 DEF Receipts
  <2>3. IntentsAbout(old.intent) \subseteq Intents
    BY <1>1, <2>1, <2>2 DEF Proposals, IntentsAbout
  <2>4. old.intent \in Intents /\ 0 \in 0..MaxCommits
    BY <1>1, ConsensusAssumption DEF Proposals
  <2>5. \/ \E i \in IntentsAbout(old.intent) :
             r \in [intent : {i}, state : {i.expected}, required : Votes, observed : Votes,
                   verified : BOOLEAN, index : 0..MaxCommits]
        \/ \E i \in IntentsAbout(old.intent) : r = Receipt(old.intent, i.expected, 1, 1, TRUE, 0)
    BY <1>2, AnswerIs DEF Variants
  <2>6. \A i \in Intents : i.expected \in SUBSET StoreItems
    BY DEF Intents
  <2> HIDE DEF old
  <2>7. ASSUME NEW i \in IntentsAbout(old.intent),
               r \in [intent : {i}, state : {i.expected}, required : Votes, observed : Votes,
                     verified : BOOLEAN, index : 0..MaxCommits]
        PROVE  r \in Receipts
    BY <2>3, <2>6, <2>7 DEF Receipts
  <2>8. ASSUME NEW i \in IntentsAbout(old.intent),
               r = Receipt(old.intent, i.expected, 1, 1, TRUE, 0)
        PROVE  r \in Receipts
    BY <2>3, <2>4, <2>6, <2>8 DEF Receipt, Receipts
  <2>9. QED
    BY <2>5, <2>7, <2>8
<1>4. PICK call : call = [old EXCEPT !.at = "verify", !.receipt = r]
  OBVIOUS
<1>5. /\ call \in Proposals /\ call.at = "verify" /\ call.intent = old.intent
      /\ call.read = old.read /\ call.receipt = r
  BY <1>1, <1>3, <1>4 DEF Proposals
<1>6. ProposalStep(p, call) /\ proposals'[p] = call
  BY <1>2, <1>4 DEF ConsensusInv, ProposalStep
<1> HIDE DEF old
<1>7. ProposalOK(p)'
  BY <1>1, <1>2, <1>5, <1>6 DEF ProposalOK, old
<1>8. QED
  BY <1>1, <1>5, <1>6, <1>7, ProposalMoves DEF old

LEMMA StartAndGiveUpKeep ==
  ASSUME ConsensusInv, UNCHANGED live, NEW p \in Proposers,
         GiveUp(p) \/ \E operation \in Mutations : StartProposal(p, operation)
  PROVE  ConsensusInv'
<1>1. /\ proposals[p] \in Proposals /\ proposals[p].at # "ended" /\ accepted[p] = {}
      /\ UNCHANGED <<providerLog, accepted>>
  BY DEF ConsensusInv, ProposalOK, GiveUp, StartProposal
<1>2. NoIntent \in Intents /\ NoIntent.expected = {}
  BY DEF NoIntent, Intent, Intents
<1>3. NoReceipt \in Receipts
  BY <1>2, ConsensusAssumption DEF NoReceipt, Receipt, Receipts
<1>4. /\ NoProposal \in Proposals /\ NoProposal.at = "new" /\ NoProposal.intent = NoIntent
      /\ NoProposal.read = {}
  BY <1>2, <1>3 DEF NoProposal, Proposals
<1>5. Sound({}) /\ Names({}, "file") = {}
  BY DEF Sound, Readable, Names
<1>6. CASE GiveUp(p)
  <2>1. ProposalStep(p, NoProposal) /\ proposals'[p] = NoProposal
    BY <1>6 DEF ConsensusInv, GiveUp, ProposalStep
  <2>2. ProposalOK(p)'
    BY <1>1, <1>2, <1>4, <1>5, <2>1 DEF ProposalOK
  <2>3. QED
    BY <1>1, <1>4, <2>1, <2>2, ProposalMoves
<1>7. ASSUME NEW operation \in Mutations, StartProposal(p, operation) PROVE ConsensusInv'
  <2>1. PICK call : call = [NoProposal EXCEPT !.at = "fingerprint", !.next = 1,
                                              !.intent.operation = operation]
    OBVIOUS
  <2>2. [NoIntent EXCEPT !.operation = operation] \in Intents
        /\ [NoIntent EXCEPT !.operation = operation].expected = {}
    BY <1>2 DEF Intents
  <2>3. /\ call \in Proposals /\ call.at = "fingerprint" /\ call.next = 1 /\ call.read = {}
        /\ call.intent.expected = {}
    <3>1. call = [NoProposal EXCEPT !.at = "fingerprint", !.next = 1,
                    !.intent = [NoIntent EXCEPT !.operation = operation]]
      BY <1>4, <2>1
    <3>2. PICK none, intent :
            none = NoProposal /\ intent = [NoIntent EXCEPT !.operation = operation]
      OBVIOUS
    <3>3. call = [at |-> "fingerprint", intent |-> intent, next |-> 1, read |-> {},
                  receipt |-> NoReceipt]
      BY <3>1, <3>2 DEF NoProposal
    <3>4. 1 \in 0..4
      OBVIOUS
    <3>5. QED
      BY <1>3, <2>2, <3>2, <3>3, <3>4 DEF Proposals
  <2>4. ProposalStep(p, call) /\ proposals'[p] = call
    BY <1>7, <2>1 DEF ConsensusInv, StartProposal, ProposalStep
  <2>5. ProposalOK(p)'
    BY <1>1, <1>5, <2>3, <2>4 DEF ProposalOK
  <2>6. QED
    BY <1>1, <2>3, <2>4, <2>5, ProposalMoves
<1>8. QED
  BY <1>6, <1>7

LEMMA CommitKeeps ==
  ASSUME ConsensusInv, UNCHANGED live, NEW p \in Proposers, Commit(p)
  PROVE  ConsensusInv'
<1>1. /\ proposals[p] \in Proposals /\ ProposalOK(p) /\ Len(providerLog) < MaxCommits
      /\ UNCHANGED <<proposals, accepted>>
  BY DEF ConsensusInv, Commit
<1>2. PICK required, observed, r :
        /\ required \in Votes /\ observed \in Votes
        /\ r = Receipt(proposals[p].intent, proposals[p].intent.expected, required, observed,
                       TRUE, Len(providerLog))
        /\ providerLog' = Append(providerLog, r)
  BY DEF Commit
<1>3. providerLog \in Seq(Receipts) /\ Len(providerLog) \in Nat /\ MaxCommits \in Nat
  BY ConsensusAssumption DEF ConsensusInv
<1>4. proposals[p].intent \in Intents /\ proposals[p].intent.expected \in SUBSET StoreItems
  BY <1>1 DEF Proposals, Intents
<1>5. Len(providerLog) \in 0..MaxCommits
  BY <1>1, <1>3
<1>6. r \in Receipts /\ r.state = proposals[p].intent.expected
  BY <1>2, <1>4, <1>5 DEF Receipt, Receipts
<1>7. /\ providerLog' \in Seq(Receipts) /\ Len(providerLog') <= MaxCommits
      /\ \A n \in DOMAIN providerLog' :
           (n \in DOMAIN providerLog /\ providerLog'[n] = providerLog[n]) \/ providerLog'[n] = r
      /\ \A n \in DOMAIN providerLog :
           n \in DOMAIN providerLog' /\ providerLog'[n] = providerLog[n]
  <2>1. /\ providerLog' \in Seq(Receipts) /\ Len(providerLog') = Len(providerLog) + 1
        /\ \A n \in 1..Len(providerLog) : providerLog'[n] = providerLog[n]
        /\ providerLog'[Len(providerLog) + 1] = r
    <3>1. PICK lines : lines = providerLog
      OBVIOUS
    <3>2. /\ Append(lines, r) \in Seq(Receipts) /\ Len(Append(lines, r)) = Len(lines) + 1
          /\ \A n \in 1..Len(lines) : Append(lines, r)[n] = lines[n]
          /\ Append(lines, r)[Len(lines) + 1] = r
      BY <1>3, <1>6, <3>1, AppendProperties
    <3>3. QED
      BY <1>2, <3>1, <3>2
  <2>2. \A k, m : k \in Nat /\ m \in 1..k + 1 => m \in 1..k \/ m = k + 1
    OBVIOUS
  <2>3. /\ DOMAIN providerLog = 1..Len(providerLog)
        /\ DOMAIN providerLog' = 1..Len(providerLog) + 1
    BY <1>3, <2>1
  <2>4. Len(providerLog') <= MaxCommits
    BY <1>1, <1>3, <2>1
  <2>5. QED
    BY <1>3, <2>1, <2>2, <2>3, <2>4
<1>8. \A n \in DOMAIN providerLog' : Sound(providerLog'[n].state)
  BY <1>1, <1>6, <1>7 DEF ConsensusInv, ProposalOK
<1>9. \A q \in Proposers : ProposalOK(q)'
  BY <1>1 DEF ConsensusInv, ProposalOK
<1>10. ReceiptsAreCommitted'
  BY <1>1, <1>7 DEF ConsensusInv, ReceiptsAreCommitted
<1>11. QED
  BY <1>1, <1>7, <1>8, <1>9, <1>10 DEF ConsensusInv

\* The two places where a receipt is printed.
LEMMA AcceptKeeps ==
  ASSUME ConsensusInv, UNCHANGED live, NEW p \in Proposers, PostVerify(p) \/ VerifyReceipt(p)
  PROVE  ConsensusInv'
<1>1. /\ proposals[p] \in Proposals /\ ProposalOK(p) /\ accepted[p] = {}
      /\ UNCHANGED providerLog
  BY DEF ConsensusInv, ProposalOK, PostVerify, VerifyReceipt
<1>2. NoIntent \in Intents /\ NoIntent.expected = {}
  BY DEF NoIntent, Intent, Intents
<1>3. NoReceipt \in Receipts
  BY <1>2, ConsensusAssumption DEF NoReceipt, Receipt, Receipts
<1>4. NoProposal \in Proposals /\ NoProposal.intent = NoIntent
  BY <1>2, <1>3 DEF NoProposal, Proposals
<1>5. PICK r, call :
        /\ ProviderVerifies(r) /\ WellFormedReceipt(r)
        /\ accepted' = [accepted EXCEPT ![p] = {r}]
        /\ ProposalStep(p, call) /\ call \in Proposals /\ call.at = "ended"
        /\ Sound(call.intent.expected)
        /\ call.intent # NoIntent => r.intent = call.intent /\ r.state = call.read
  <2>1. CASE PostVerify(p)
    <3>1. PICK call : call = [proposals[p] EXCEPT !.at = "ended"]
      OBVIOUS
    <3>2. /\ call \in Proposals /\ call.at = "ended" /\ call.intent = proposals[p].intent
          /\ call.read = proposals[p].read
      BY <1>1, <3>1 DEF Proposals
    <3>3. /\ WellFormedReceipt(proposals[p].receipt)
          /\ AnswersIntent(proposals[p].receipt, proposals[p].intent)
          /\ proposals[p].intent.expected = proposals[p].read
          /\ Sound(proposals[p].intent.expected)
      BY <1>1, <2>1 DEF PostVerify, ProposalOK
    <3>4. /\ ProviderVerifies(proposals[p].receipt) /\ ProposalStep(p, call)
          /\ accepted' = [accepted EXCEPT ![p] = {proposals[p].receipt}]
      BY <1>1, <2>1, <3>1 DEF PostVerify
    <3>5. QED
      BY <3>2, <3>3, <3>4 DEF AnswersIntent
  <2>2. CASE VerifyReceipt(p)
    <3>1. PICK call : call = [NoProposal EXCEPT !.at = "ended"]
      OBVIOUS
    <3>2. call \in Proposals /\ call.at = "ended" /\ call.intent = NoIntent
      BY <1>4, <3>1 DEF Proposals
    <3>3. Sound({})
      BY DEF Sound, Readable, Names
    <3>4. PICK r : /\ WellFormedReceipt(r) /\ ProviderVerifies(r)
                   /\ accepted' = [accepted EXCEPT ![p] = {r}]
      BY <1>1, <2>2 DEF VerifyReceipt
    <3>5. ProposalStep(p, call)
      BY <2>2, <3>1 DEF VerifyReceipt
    <3>6. QED
      BY <1>2, <3>2, <3>3, <3>4, <3>5
  <2>3. QED
    BY <2>1, <2>2
<1>6. PICK n \in DOMAIN providerLog : providerLog[n] = r
  BY <1>5 DEF ProviderVerifies
<1>7. r \in Receipts /\ Sound(r.state)
  BY <1>6 DEF ConsensusInv
<1>8. /\ proposals' \in [Proposers -> Proposals] /\ proposals'[p] = call
      /\ \A q \in Proposers \ {p} : proposals'[q] = proposals[q]
      /\ accepted' \in [Proposers -> SUBSET Receipts] /\ accepted'[p] = {r}
      /\ \A q \in Proposers \ {p} : accepted'[q] = accepted[q]
  BY <1>5, <1>7 DEF ConsensusInv, ProposalStep
<1>9. \A q \in Proposers : ProposalOK(q)'
  BY <1>5, <1>8 DEF ConsensusInv, ProposalOK
<1>10. ReceiptsAreCommitted'
  <2>1. /\ \E k \in DOMAIN providerLog' : providerLog'[k] = r
        /\ r.required >= 1 /\ r.observed >= r.required
        /\ proposals'[p].intent # NoIntent
             => r.intent = proposals'[p].intent /\ r.state = proposals'[p].read
        /\ Readable(r.state, Names(r.state, "file"))
    BY <1>1, <1>5, <1>6, <1>7, <1>8 DEF WellFormedReceipt, Sound
  <2>2. QED
    BY <1>1, <1>8, <2>1 DEF ConsensusInv, ReceiptsAreCommitted
<1>11. QED
  BY <1>1, <1>8, <1>9, <1>10 DEF ConsensusInv

LEMMA ConsensusKeeps ==
  ASSUME LiveOK, ConsensusInv, UNCHANGED live, ConsensusNext
  PROVE  ConsensusInv'
BY InventoryKeeps, BuildIntentKeeps, CheckReceiptKeeps, StartAndGiveUpKeep, CommitKeeps,
   AcceptKeeps DEF ConsensusNext

-----------------------------------------------------------------------------
(* The portable bundle                                                     *)

BootstrapOf(e) == [index |-> e, class |-> e.spec.class]

TreeOK ==
  /\ tree = [path \in DOMAIN tree |-> tree[path]]
  /\ \A path \in DOMAIN tree : \A x \in tree[path] : tree[path] = {x}
  /\ FileAt(IndexPath) \subseteq exports
  /\ FileAt(BootstrapPath) \subseteq {BootstrapOf(e) : e \in exports}

BuildOK(b) ==
  LET call == building[b]
      export == IndexOf(ExportSpecs[call.spec], call.packs)
  IN  /\ DOMAIN call = {"at", "spec", "packs", "todo", "open"}
      /\ call.at \in {"new", "read", "write", "verify", "ended"}
      /\ call.at \in {"read", "write", "verify"} => ValidSpec(ExportSpecs[call.spec])
      /\ call.at = "read" => call.open = {}
      /\ call.at = "write" => /\ export \in exports
                              /\ call.todo \cup call.open \subseteq DOMAIN FilesOf(export)

\* Nothing in the export is above its class.
WithinClass(e) ==
  \A o \in e.objects : \A row \in o.rows : ClassRank[row.privacy] <= ClassRank[e.spec.class]

Reading == {"index", "digest", "objects", "files"}

ReadingOK(v) ==
  LET read == reading[v]
  IN  /\ DOMAIN read = {"at", "bootstrap", "index"}
      /\ read.at \in {"none", "good"} \cup Reading
      /\ read.at \in Reading => \E e \in exports : read.bootstrap = {BootstrapOf(e)}
      /\ read.at \in Reading \ {"index"} => \E e \in exports : read.index = {e}
      /\ read.at \in {"objects", "files"} => \A e \in read.index : read.bootstrap = {BootstrapOf(e)}
      /\ read.at = "files" => \A e \in read.index : WithinClass(e)

\* What the archiver's verification has read is what a tree nobody wrote in holds.
ArchiveOK ==
  /\ DOMAIN archiving = {"at", "todo", "undisturbed"}
  /\ archiving.at \in {"new", "verify", "members", "closed", "ended"}
  /\ archiving.at = "verify" => archive = <<>>
  /\ reading[Zip].at # "none" => archiving.at = "verify"
  /\ archiving.undisturbed =>
       /\ reading[Zip].at \in Reading => reading[Zip].bootstrap = FileAt(BootstrapPath)
       /\ reading[Zip].at \in Reading \ {"index"} => reading[Zip].index = FileAt(IndexPath)
       /\ reading[Zip].at = "files" =>
            \A e \in reading[Zip].index : \A o \in e.objects : FileAt(ObjectPath(o)) = {o}
       /\ reading[Zip].at = "good" => tree \in verified
       /\ archiving.at = "members" =>
            /\ tree \in verified
            /\ archiving.todo \subseteq DOMAIN tree
            /\ archive = [path \in DOMAIN tree \ archiving.todo |-> tree[path]]

PortableInv ==
  /\ sources \in [Sources -> Versions] /\ edits \in 0..MaxEdits
  /\ DOMAIN building = Builders /\ DOMAIN reading = Readers
  /\ TreeOK
  /\ \A b \in Builders : BuildOK(b)
  /\ \A v \in Readers : ReadingOK(v)
  /\ ArchiveOK
  /\ \A e \in exports : ValidSpec(e.spec)
  /\ VerifiedTreesAreOneExport

-----------------------------------------------------------------------------
LEMMA FilesOfIs ==
  ASSUME NEW e
  PROVE  /\ IndexPath # BootstrapPath
         /\ \A o : ObjectPath(o) \notin {IndexPath, BootstrapPath} /\ ObjectPath(o)[2] = o
         /\ IndexPath \in DOMAIN FilesOf(e) /\ FilesOf(e)[IndexPath] = {e}
         /\ BootstrapPath \in DOMAIN FilesOf(e) /\ FilesOf(e)[BootstrapPath] = {BootstrapOf(e)}
         /\ \A o \in e.objects : /\ ObjectPath(o) \in DOMAIN FilesOf(e)
                                 /\ FilesOf(e)[ObjectPath(o)] = {o}
         /\ \A path \in DOMAIN FilesOf(e) :
              \/ path \in {IndexPath, BootstrapPath}
              \/ \E o \in e.objects : path = ObjectPath(o)
<1>1. /\ IndexPath # BootstrapPath
      /\ \A o : ObjectPath(o) \notin {IndexPath, BootstrapPath} /\ ObjectPath(o)[2] = o
  BY DEF IndexPath, BootstrapPath, ObjectPath
<1>2. DOMAIN FilesOf(e) = {ObjectPath(o) : o \in e.objects} \cup {IndexPath, BootstrapPath}
  BY DEF FilesOf
<1>3. \A path \in DOMAIN FilesOf(e) :
        FilesOf(e)[path] = IF path = IndexPath THEN {e}
                           ELSE IF path = BootstrapPath THEN {BootstrapOf(e)} ELSE {path[2]}
  <2> SUFFICES ASSUME NEW path \in DOMAIN FilesOf(e)
               PROVE  FilesOf(e)[path] = IF path = IndexPath THEN {e}
                                         ELSE IF path = BootstrapPath THEN {BootstrapOf(e)}
                                         ELSE {path[2]}
    OBVIOUS
  <2>1. FilesOf(e)[path] = CASE path = IndexPath -> {e}
                             [] path = BootstrapPath -> {BootstrapOf(e)}
                             [] OTHER -> {path[2]}
    BY <1>2 DEF FilesOf, BootstrapOf
  <2>2. QED
    BY <1>1, <2>1
<1>4. QED
  BY <1>1, <1>2, <1>3

LEMMA PortableStarts == PortableInit => PortableInv
<1> SUFFICES ASSUME PortableInit PROVE PortableInv
  OBVIOUS
<1>1. sources \in [Sources -> Versions] /\ edits \in 0..MaxEdits
  <2>1. (CHOOSE v \in Versions : TRUE) \in Versions
    BY PortableAssumption
  <2>2. QED
    BY <2>1, PortableAssumption DEF PortableInit
<1>2. <<>> = [path \in DOMAIN <<>> |-> <<>>[path]] /\ DOMAIN <<>> = {}
  OBVIOUS
<1>3. TreeOK
  BY <1>2 DEF PortableInit, TreeOK, FileAt
<1>4. \A b \in Builders : BuildOK(b)
  BY DEF PortableInit, BuildOK, NoBuild
<1>5. \A v \in Readers : ReadingOK(v)
  BY DEF PortableInit, ReadingOK, NoReading, Reading
<1>6. ArchiveOK
  BY DEF PortableInit, ArchiveOK, NoReading, Readers, Reading
<1>7. VerifiedTreesAreOneExport
  BY DEF PortableInit, VerifiedTreesAreOneExport
<1>8. QED
  BY <1>1, <1>3, <1>4, <1>5, <1>6, <1>7 DEF PortableInit, PortableInv

\* A verification that is dropped has read nothing.
LEMMA ReadingDropped ==
  ASSUME NEW v, DOMAIN reading = Readers, reading' = [reading EXCEPT ![v] = NoReading]
  PROVE  \A w \in Readers : reading'[w] = reading[w] \/ reading'[w] = NoReading
OBVIOUS

\* More exports, and some verifications dropped.
LEMMA ReadingStays ==
  ASSUME exports \subseteq exports', NEW v, ReadingOK(v),
         reading'[v] = reading[v] \/ reading'[v] = NoReading
  PROVE  ReadingOK(v)'
<1>1. CASE reading'[v] = reading[v]
  BY <1>1 DEF ReadingOK, WithinClass, BootstrapOf
<1>2. CASE reading'[v] = NoReading
  BY <1>2 DEF ReadingOK, NoReading, Reading
<1>3. QED
  BY <1>1, <1>2

LEMMA BuildStays ==
  ASSUME exports \subseteq exports', NEW b, BuildOK(b), building'[b] = building[b]
  PROVE  BuildOK(b)'
BY DEF BuildOK

LEMMA ArchiveStays ==
  ASSUME ArchiveOK, UNCHANGED <<tree, archive, archiving>>, verified \subseteq verified',
         reading'[Zip] = reading[Zip] \/ reading'[Zip] = NoReading
  PROVE  ArchiveOK'
BY DEF ArchiveOK, NoReading, Reading, FileAt

\* A step of a call that writes no file.
LEMMA BuildMoves ==
  ASSUME PortableInv, NEW b \in Builders, NEW call, BuildStep(b, call), BuildOK(b)',
         UNCHANGED <<tree, archiving, verified>>,
         exports \subseteq exports', \A e \in exports' : ValidSpec(e.spec),
         reading' = reading \/ reading' = [reading EXCEPT ![b] = NoReading]
  PROVE  PortableInv'
<1>1. /\ DOMAIN building' = Builders /\ DOMAIN reading' = Readers
      /\ \A c \in Builders \ {b} : building'[c] = building[c]
      /\ UNCHANGED <<sources, edits, archive>>
  BY DEF PortableInv, BuildStep
<1>2. \A v \in Readers : reading'[v] = reading[v] \/ reading'[v] = NoReading
  BY DEF PortableInv
<1>3. TreeOK'
  BY DEF PortableInv, TreeOK, FileAt
<1>4. \A c \in Builders : BuildOK(c)'
  BY <1>1, BuildStays DEF PortableInv
<1>5. \A v \in Readers : ReadingOK(v)'
  BY <1>2, ReadingStays DEF PortableInv
<1>6. ArchiveOK'
  BY <1>1, <1>2, ArchiveStays DEF PortableInv, Readers
<1>7. VerifiedTreesAreOneExport'
  BY <1>1 DEF PortableInv, VerifiedTreesAreOneExport
<1>8. QED
  BY <1>1, <1>3, <1>4, <1>5, <1>6, <1>7 DEF PortableInv

LEMMA StartAndEndKeep ==
  ASSUME PortableInv, NEW b \in Builders,
         \/ \E spec \in DOMAIN ExportSpecs : StartBuild(b, spec)
         \/ FinishBuild(b) \/ AbandonBuild(b)
  PROVE  PortableInv'
<1>1. BuildOK(b) /\ \A e \in exports : ValidSpec(e.spec)
  BY DEF PortableInv
<1>2. ASSUME NEW spec, StartBuild(b, spec)
      PROVE  PortableInv'
  <2>1. PICK call : call = [NoBuild EXCEPT !.at = "read", !.spec = spec]
    OBVIOUS
  <2>2. BuildStep(b, call) /\ UNCHANGED <<tree, reading, archiving, exports, verified>>
        /\ ValidSpec(ExportSpecs[spec])
    BY <1>2, <2>1 DEF StartBuild
  <2>3. building'[b] = call
    BY <2>2 DEF BuildStep, PortableInv
  <2>4. /\ DOMAIN call = {"at", "spec", "packs", "todo", "open"}
        /\ call.at = "read" /\ call.spec = spec /\ call.open = {}
    BY <2>1 DEF NoBuild
  <2>5. BuildOK(b)'
    BY <2>2, <2>3, <2>4 DEF BuildOK
  <2>6. QED
    BY <1>1, <2>2, <2>5, BuildMoves
<1>3. ASSUME FinishBuild(b) \/ AbandonBuild(b)
      PROVE  PortableInv'
  <2>1. PICK call : call = [NoBuild EXCEPT !.at = "ended"]
    OBVIOUS
  <2>2. /\ BuildStep(b, call) /\ UNCHANGED <<tree, archiving, exports, verified>>
        /\ reading' = [reading EXCEPT ![b] = NoReading]
    BY <1>3, <2>1 DEF FinishBuild, AbandonBuild
  <2>3. building'[b] = call
    BY <2>2 DEF BuildStep, PortableInv
  <2>4. DOMAIN call = {"at", "spec", "packs", "todo", "open"} /\ call.at = "ended"
    BY <2>1 DEF NoBuild
  <2>5. BuildOK(b)'
    BY <2>3, <2>4 DEF BuildOK
  <2>6. QED
    BY <1>1, <2>2, <2>5, BuildMoves
<1>4. QED
  BY <1>2, <1>3

LEMMA ReadPackKeeps ==
  ASSUME PortableInv, NEW b \in Builders, ReadPack(b)
  PROVE  PortableInv'
<1>1. /\ BuildOK(b) /\ building[b].at = "read" /\ \A e \in exports : ValidSpec(e.spec)
      /\ UNCHANGED <<tree, reading, archiving, verified>>
  BY DEF PortableInv, ReadPack
<1>2. PICK old, spec : old = building[b] /\ spec = ExportSpecs[old.spec]
  OBVIOUS
<1>3. PICK pack, packs, export :
        /\ packs = With(old.packs, pack, CapsuleOfPack(pack))
        /\ export = IndexOf(spec, packs)
        /\ \/ BuildStep(b, [old EXCEPT !.packs = packs]) /\ UNCHANGED exports
           \/ /\ BuildStep(b, [old EXCEPT !.packs = packs, !.at = "write",
                                          !.todo = DOMAIN FilesOf(export)])
              /\ exports' = exports \cup {export}
  BY <1>2, Zenon DEF ReadPack
<1>4. ValidSpec(spec) /\ DOMAIN old = {"at", "spec", "packs", "todo", "open"} /\ old.at = "read"
      /\ old.open = {}
  BY <1>1, <1>2 DEF BuildOK
<1>5. CASE BuildStep(b, [old EXCEPT !.packs = packs]) /\ UNCHANGED exports
  <2>1. PICK call : call = [old EXCEPT !.packs = packs]
    OBVIOUS
  <2>2. BuildStep(b, call) /\ building'[b] = call
    BY <1>5, <2>1 DEF BuildStep, PortableInv
  <2>3. /\ DOMAIN call = {"at", "spec", "packs", "todo", "open"}
        /\ call.at = "read" /\ call.spec = old.spec /\ call.open = {}
    BY <1>4, <2>1
  <2>4. BuildOK(b)'
    BY <1>2, <1>4, <2>2, <2>3 DEF BuildOK
  <2>5. QED
    BY <1>1, <1>5, <2>2, <2>4, BuildMoves
<1>6. CASE /\ BuildStep(b, [old EXCEPT !.packs = packs, !.at = "write",
                                       !.todo = DOMAIN FilesOf(export)])
           /\ exports' = exports \cup {export}
  <2>1. PICK call : call = [old EXCEPT !.packs = packs, !.at = "write",
                                       !.todo = DOMAIN FilesOf(export)]
    OBVIOUS
  <2>2. BuildStep(b, call) /\ building'[b] = call
    BY <1>6, <2>1 DEF BuildStep, PortableInv
  <2>3. /\ DOMAIN call = {"at", "spec", "packs", "todo", "open"}
        /\ call.at = "write" /\ call.spec = old.spec /\ call.packs = packs
        /\ call.todo = DOMAIN FilesOf(export) /\ call.open = {}
    BY <1>4, <2>1
  <2>4. BuildOK(b)'
    BY <1>2, <1>3, <1>4, <1>6, <2>2, <2>3 DEF BuildOK
  <2>5. export.spec = spec
    BY <1>3 DEF IndexOf
  <2>6. QED
    BY <1>1, <1>4, <1>6, <2>2, <2>4, <2>5, BuildMoves
<1>7. QED
  BY <1>3, <1>5, <1>6

\* A step of a call that writes a file: the archive is of a tree no more.
LEMMA WriteMoves ==
  ASSUME PortableInv, NEW b \in Builders, NEW call, BuildStep(b, call), BuildOK(b)',
         NEW path, NEW content, Write(path, content),
         UNCHANGED <<reading, exports, verified>>,
         \A x \in content : content = {x},
         path = IndexPath => content \subseteq exports,
         path = BootstrapPath => content \subseteq {BootstrapOf(e) : e \in exports}
  PROVE  PortableInv'
<1>1. /\ DOMAIN building' = Builders
      /\ \A c \in Builders \ {b} : building'[c] = building[c]
      /\ UNCHANGED <<sources, edits, archive>>
  BY DEF PortableInv, BuildStep
<1>2. /\ tree' = With(tree, path, content)
      /\ archiving' = [archiving EXCEPT !.undisturbed = FALSE]
  BY DEF Write
<1>3. /\ tree' = [p \in DOMAIN tree' |-> tree'[p]]
      /\ DOMAIN tree' = {path} \cup DOMAIN tree /\ tree'[path] = content
      /\ \A p \in DOMAIN tree : p # path => tree'[p] = tree[p]
  BY <1>2 DEF With
<1>4. TreeOK'
  <2>1. \A p \in DOMAIN tree' : \A x \in tree'[p] : tree'[p] = {x}
    BY <1>3 DEF PortableInv, TreeOK
  <2>2. \A p : FileAt(p)' = IF p = path THEN content ELSE FileAt(p)
    BY <1>3 DEF FileAt
  <2>3. QED
    BY <1>3, <2>1, <2>2 DEF PortableInv, TreeOK
<1>5. \A c \in Builders : BuildOK(c)'
  BY <1>1, BuildStays DEF PortableInv
<1>6. \A v \in Readers : ReadingOK(v)'
  BY ReadingStays DEF PortableInv
<1>7. /\ DOMAIN archiving' = {"at", "todo", "undisturbed"} /\ archiving'.at = archiving.at
      /\ archiving'.undisturbed = FALSE
  BY <1>2 DEF PortableInv, ArchiveOK
<1>8. ArchiveOK'
  BY <1>1, <1>7 DEF PortableInv, ArchiveOK
<1>9. VerifiedTreesAreOneExport'
  BY <1>1, <1>7 DEF PortableInv, VerifiedTreesAreOneExport
<1>10. QED
  BY <1>1, <1>4, <1>5, <1>6, <1>8, <1>9 DEF PortableInv

LEMMA OpenAndFillKeep ==
  ASSUME PortableInv, NEW b \in Builders, OpenFile(b) \/ FillFile(b)
  PROVE  PortableInv'
<1>1. /\ BuildOK(b) /\ building[b].at = "write" /\ UNCHANGED <<reading, exports, verified>>
  BY DEF PortableInv, OpenFile, FillFile
<1>2. PICK old, export :
        old = building[b] /\ export = IndexOf(ExportSpecs[old.spec], old.packs)
  OBVIOUS
<1>3. /\ DOMAIN old = {"at", "spec", "packs", "todo", "open"} /\ old.at = "write"
      /\ ValidSpec(ExportSpecs[old.spec]) /\ export \in exports
      /\ old.todo \subseteq DOMAIN FilesOf(export) /\ old.open \subseteq DOMAIN FilesOf(export)
  BY <1>1, <1>2 DEF BuildOK
<1>4. CASE OpenFile(b)
  <2>1. PICK path \in old.todo :
          /\ Write(path, HalfWritten)
          /\ BuildStep(b, [old EXCEPT !.open = {path}, !.todo = @ \ {path}])
    BY <1>2, <1>4 DEF OpenFile
  <2>2. PICK call : call = [old EXCEPT !.open = {path}, !.todo = @ \ {path}]
    OBVIOUS
  <2>3. BuildStep(b, call) /\ building'[b] = call
    BY <2>1, <2>2 DEF BuildStep, PortableInv
  <2>4. /\ DOMAIN call = {"at", "spec", "packs", "todo", "open"}
        /\ call.at = "write" /\ call.spec = old.spec /\ call.packs = old.packs
        /\ call.todo \subseteq old.todo /\ call.open = {path}
    BY <1>3, <2>2
  <2>5. BuildOK(b)'
    BY <1>1, <1>2, <1>3, <2>1, <2>3, <2>4 DEF BuildOK
  <2>6. QED
    BY <1>1, <2>1, <2>3, <2>5, WriteMoves DEF HalfWritten
<1>5. CASE FillFile(b)
  <2>1. PICK path \in old.open :
          /\ Write(path, FilesOf(export)[path]) \/ Write(path, HalfWritten)
          /\ BuildStep(b, [old EXCEPT !.open = {},
                                      !.at = IF old.todo = {} THEN "verify" ELSE @])
    BY <1>2, <1>5 DEF FillFile
  <2>2. PICK call : call = [old EXCEPT !.open = {},
                                       !.at = IF old.todo = {} THEN "verify" ELSE @]
    OBVIOUS
  <2>3. BuildStep(b, call) /\ building'[b] = call
    BY <2>1, <2>2 DEF BuildStep, PortableInv
  <2>4. /\ DOMAIN call = {"at", "spec", "packs", "todo", "open"}
        /\ call.at \in {"write", "verify"} /\ call.spec = old.spec /\ call.packs = old.packs
        /\ call.todo = old.todo /\ call.open = {}
    BY <1>3, <2>2
  <2>5. BuildOK(b)'
    BY <1>1, <1>2, <1>3, <2>3, <2>4 DEF BuildOK
  <2>6. PICK bytes : bytes = FilesOf(export)[path]
    OBVIOUS
  <2>7. /\ \A x \in bytes : bytes = {x}
        /\ path = IndexPath => bytes = {export}
        /\ path = BootstrapPath => bytes = {BootstrapOf(export)}
    BY <1>3, <2>1, <2>6, FilesOfIs
  <2>8. CASE Write(path, bytes)
    BY <1>1, <1>3, <2>3, <2>5, <2>7, <2>8, WriteMoves
  <2>9. CASE Write(path, HalfWritten)
    BY <1>1, <2>3, <2>5, <2>9, WriteMoves DEF HalfWritten
  <2>10. QED
    BY <2>1, <2>6, <2>8, <2>9
<1>6. QED
  BY <1>4, <1>5

\* A step of a verification.
LEMMA ReadMoves ==
  ASSUME PortableInv, NEW v \in Readers, NEW read, ReadStep(v, read), ReadingOK(v)',
         verified \subseteq verified', v = Zip => ArchiveOK', VerifiedTreesAreOneExport'
  PROVE  PortableInv'
<1>1. /\ DOMAIN reading' = Readers
      /\ \A w \in Readers \ {v} : reading'[w] = reading[w]
      /\ UNCHANGED <<sources, edits, tree, building, archive, archiving, exports>>
  BY DEF PortableInv, ReadStep
<1>2. TreeOK' /\ \A b \in Builders : BuildOK(b)'
  BY <1>1, BuildStays DEF PortableInv, TreeOK, FileAt
<1>3. \A w \in Readers : ReadingOK(w)'
  BY <1>1, ReadingStays DEF PortableInv
<1>4. ArchiveOK'
  <2>1. CASE v = Zip
    BY <2>1
  <2>2. CASE v # Zip
    BY <1>1, <2>2, ArchiveStays DEF PortableInv, Readers
  <2>3. QED
    BY <2>1, <2>2
<1>5. QED
  BY <1>1, <1>2, <1>3, <1>4 DEF PortableInv

LEMMA OneAt ==
  ASSUME TreeOK, NEW path, NEW x \in FileAt(path)
  PROVE  FileAt(path) = {x}
BY DEF TreeOK, FileAt

LEMMA ReadDocumentsKeep ==
  ASSUME PortableInv, NEW v \in Readers, ReadBootstrap(v) \/ ReadIndex(v)
  PROVE  PortableInv'
<1>1. /\ ReadingOK(v) /\ TreeOK /\ ArchiveOK
      /\ UNCHANGED verified
  BY DEF PortableInv, ReadBootstrap, ReadIndex, ArchiveOK
<1>2. VerifiedTreesAreOneExport' <=> VerifiedTreesAreOneExport
  BY <1>1 DEF ReadBootstrap, ReadIndex, ReadStep, VerifiedTreesAreOneExport
<1>3. CASE ReadBootstrap(v)
  <2>1. PICK read : read = [NoReading EXCEPT !.at = "index", !.bootstrap = FileAt(BootstrapPath)]
    OBVIOUS
  <2>2. ReadStep(v, read) /\ reading'[v] = read
    BY <1>3, <2>1 DEF ReadBootstrap, ReadStep, PortableInv
  <2>3. /\ DOMAIN read = {"at", "bootstrap", "index"}
        /\ read.at = "index" /\ read.bootstrap = FileAt(BootstrapPath)
    BY <2>1 DEF NoReading
  <2>4. PICK e \in exports : FileAt(BootstrapPath) = {BootstrapOf(e)}
    <3>1. PICK x : x \in FileAt(BootstrapPath)
      BY <1>3 DEF ReadBootstrap
    <3>2. QED
      BY <1>1, <3>1, OneAt DEF TreeOK
  <2>5. ReadingOK(v)'
    BY <2>2, <2>3, <2>4 DEF ReadingOK, Reading, ReadStep, BootstrapOf
  <2>6. v = Zip => ArchiveOK'
    BY <1>1, <1>3, <2>2, <2>3 DEF ReadBootstrap, Verifies, ReadStep, ArchiveOK, Reading, FileAt
  <2>7. QED
    BY <1>1, <1>2, <2>2, <2>5, <2>6, ReadMoves DEF PortableInv
<1>4. CASE ReadIndex(v)
  <2>1. PICK old, read : /\ old = reading[v]
                         /\ read = [old EXCEPT !.at = "digest", !.index = FileAt(IndexPath)]
    OBVIOUS
  <2>2. ReadStep(v, read) /\ reading'[v] = read /\ old.at = "index"
    BY <1>4, <2>1 DEF ReadIndex, ReadStep, PortableInv
  <2>3. /\ DOMAIN read = {"at", "bootstrap", "index"}
        /\ read.at = "digest" /\ read.index = FileAt(IndexPath) /\ read.bootstrap = old.bootstrap
    BY <1>1, <2>1 DEF ReadingOK
  <2>4. PICK e \in exports : FileAt(IndexPath) = {e}
    <3>1. PICK x : x \in FileAt(IndexPath)
      BY <1>4 DEF ReadIndex
    <3>2. QED
      BY <1>1, <3>1, OneAt DEF TreeOK
  <2>5. ReadingOK(v)'
    BY <1>1, <2>1, <2>2, <2>3, <2>4 DEF ReadingOK, Reading, ReadStep, BootstrapOf
  <2>6. v = Zip => ArchiveOK'
    BY <1>1, <2>1, <2>2, <2>3 DEF ReadStep, ArchiveOK, Reading, FileAt
  <2>7. QED
    BY <1>1, <1>2, <2>2, <2>5, <2>6, ReadMoves DEF PortableInv
<1>5. QED
  BY <1>3, <1>4

LEMMA CheckDocumentsKeep ==
  ASSUME PortableInv, NEW v \in Readers, DigestIndex(v) \/ ReadObjects(v)
  PROVE  PortableInv'
<1>1. /\ ReadingOK(v) /\ ArchiveOK
      /\ UNCHANGED verified
  BY DEF PortableInv, DigestIndex, ReadObjects, ArchiveOK
<1>2. VerifiedTreesAreOneExport' <=> VerifiedTreesAreOneExport
  BY <1>1 DEF DigestIndex, ReadObjects, ReadStep, VerifiedTreesAreOneExport
<1>3. PICK old : old = reading[v]
  OBVIOUS
<1>4. CASE DigestIndex(v)
  <2>1. PICK read : read = [old EXCEPT !.at = "objects"]
    OBVIOUS
  <2>2. ReadStep(v, read) /\ reading'[v] = read /\ old.at = "digest"
    BY <1>3, <1>4, <2>1 DEF DigestIndex, ReadStep, PortableInv
  <2>3. /\ DOMAIN read = {"at", "bootstrap", "index"}
        /\ read.at = "objects" /\ read.index = old.index /\ read.bootstrap = old.bootstrap
    BY <1>1, <1>3, <2>1 DEF ReadingOK
  <2>4. /\ \E e \in exports : old.bootstrap = {BootstrapOf(e)}
        /\ \E e \in exports : old.index = {e}
    BY <1>1, <1>3, <2>2 DEF ReadingOK, Reading
  <2>5. PICK bootstrap \in old.bootstrap, index \in old.index : bootstrap.index = index
    BY <1>3, <1>4 DEF DigestIndex, IndexAgrees
  <2>6. \A e \in old.index : old.bootstrap = {BootstrapOf(e)}
    BY <2>4, <2>5 DEF BootstrapOf
  <2>7. ReadingOK(v)'
    BY <2>2, <2>3, <2>4, <2>6 DEF ReadingOK, Reading, ReadStep, BootstrapOf
  <2>8. v = Zip => ArchiveOK'
    BY <1>1, <1>3, <2>2, <2>3 DEF ReadStep, ArchiveOK, Reading, FileAt
  <2>9. QED
    BY <1>1, <1>2, <2>2, <2>7, <2>8, ReadMoves DEF PortableInv
<1>5. CASE ReadObjects(v)
  <2>1. PICK read : read = [old EXCEPT !.at = "files"]
    OBVIOUS
  <2>2. ReadStep(v, read) /\ reading'[v] = read /\ old.at = "objects"
    BY <1>3, <1>5, <2>1 DEF ReadObjects, ReadStep, PortableInv
  <2>3. /\ DOMAIN read = {"at", "bootstrap", "index"}
        /\ read.at = "files" /\ read.index = old.index /\ read.bootstrap = old.bootstrap
    BY <1>1, <1>3, <2>1 DEF ReadingOK
  <2>4. \A e \in old.index : /\ WithinClass(e)
                             /\ \A o \in e.objects : FileAt(ObjectPath(o)) = {o}
    BY <1>3, <1>5 DEF ReadObjects, ObjectsAgree, WithinClass
  <2>5. ReadingOK(v)'
    BY <1>1, <1>3, <2>2, <2>3, <2>4 DEF ReadingOK, Reading, ReadStep, BootstrapOf, WithinClass
  <2>6. v = Zip => ArchiveOK'
    BY <1>1, <1>3, <2>2, <2>3, <2>4 DEF ReadStep, ArchiveOK, Reading, FileAt
  <2>7. QED
    BY <1>1, <1>2, <2>2, <2>5, <2>6, ReadMoves DEF PortableInv
<1>6. QED
  BY <1>4, <1>5

\* What a verification has found is the export its index is of.
LEMMA FoundIsAnExport ==
  ASSUME PortableInv, NEW v \in Readers, ListFiles(v)
  PROVE  \E e \in exports : /\ reading[v].index = {e} /\ WithinClass(e)
                            /\ DOMAIN tree = DOMAIN FilesOf(e)
                            /\ ReadTree(reading[v], DOMAIN tree) = FilesOf(e)
<1>1. PICK read : read = reading[v]
  OBVIOUS
<1>2. ReadingOK(v) /\ read.at = "files"
  BY <1>1 DEF PortableInv, ListFiles
<1>3. PICK e \in exports : read.index = {e}
  BY <1>1, <1>2 DEF ReadingOK, Reading
<1>4. read.bootstrap = {BootstrapOf(e)} /\ WithinClass(e)
  BY <1>1, <1>2, <1>3 DEF ReadingOK
<1>5. DOMAIN tree = DOMAIN FilesOf(e)
  BY <1>1, <1>3 DEF ListFiles, FileSetAgrees
<1>6. \A path \in DOMAIN FilesOf(e) :
        ReadTree(read, DOMAIN FilesOf(e))[path] = FilesOf(e)[path]
  <2> SUFFICES ASSUME NEW path \in DOMAIN FilesOf(e)
               PROVE  ReadTree(read, DOMAIN FilesOf(e))[path] = FilesOf(e)[path]
    OBVIOUS
  <2>1. PICK paths : paths = DOMAIN FilesOf(e)
    OBVIOUS
  <2>2. ReadTree(read, paths)[path] =
          CASE path = IndexPath -> read.index
            [] path = BootstrapPath -> read.bootstrap
            [] OTHER -> IF \E i \in read.index : path[2] \in i.objects THEN {path[2]}
                        ELSE HalfWritten
    BY <2>1 DEF ReadTree
  <2>3. CASE path \in {IndexPath, BootstrapPath}
    BY <1>3, <1>4, <2>1, <2>2, <2>3, FilesOfIs
  <2>4. CASE path \notin {IndexPath, BootstrapPath}
    <3>1. PICK o \in e.objects : path = ObjectPath(o)
      BY <2>4, FilesOfIs
    <3>2. path[2] = o /\ FilesOf(e)[path] = {o}
      BY <3>1, FilesOfIs
    <3>3. QED
      BY <1>3, <2>1, <2>2, <2>4, <3>1, <3>2
  <2>5. QED
    BY <2>3, <2>4
<1>7. /\ FilesOf(e) = [path \in DOMAIN FilesOf(e) |-> FilesOf(e)[path]]
      /\ DOMAIN ReadTree(read, DOMAIN FilesOf(e)) = DOMAIN FilesOf(e)
      /\ ReadTree(read, DOMAIN FilesOf(e)) =
           [path \in DOMAIN FilesOf(e) |-> ReadTree(read, DOMAIN FilesOf(e))[path]]
  BY DEF FilesOf, ReadTree
<1>8. QED
  BY <1>1, <1>3, <1>4, <1>5, <1>6, <1>7

LEMMA ListFilesKeeps ==
  ASSUME PortableInv, NEW v \in Readers, ListFiles(v)
  PROVE  PortableInv'
<1>1. PICK read, found : read = [NoReading EXCEPT !.at = "good"]
                         /\ found = ReadTree(reading[v], DOMAIN tree)
  OBVIOUS
<1>2. /\ ReadStep(v, read) /\ reading'[v] = read /\ reading[v].at = "files"
      /\ verified' = verified \cup {found}
  BY <1>1 DEF ListFiles, ReadStep, PortableInv
<1>3. DOMAIN read = {"at", "bootstrap", "index"} /\ read.at = "good"
  BY <1>1 DEF NoReading
<1>4. ReadingOK(v)'
  BY <1>2, <1>3 DEF ReadingOK, Reading
<1>5. PICK e \in exports : /\ reading[v].index = {e} /\ WithinClass(e)
                           /\ DOMAIN tree = DOMAIN FilesOf(e) /\ found = FilesOf(e)
  BY <1>1, FoundIsAnExport
<1>6. VerifiedTreesAreOneExport'
  <2>1. UNCHANGED <<exports, archive, archiving>>
    BY <1>2 DEF ReadStep
  <2>2. ValidSpec(e.spec)
    BY DEF PortableInv
  <2>3. \A other \in verified' : other \in verified \/ other = FilesOf(e)
    BY <1>2, <1>5
  <2>4. QED
    BY <1>2, <1>5, <2>1, <2>2, <2>3 DEF PortableInv, VerifiedTreesAreOneExport, WithinClass
<1>7. ASSUME v = Zip PROVE ArchiveOK'
  <2>1. ArchiveOK /\ TreeOK /\ ReadingOK(v)
    BY DEF PortableInv
  <2>2. UNCHANGED <<tree, archive, archiving>> /\ archiving.at = "verify"
    BY <1>2, <1>7, <2>1 DEF ReadStep, ArchiveOK
  <2>3. ASSUME archiving.undisturbed PROVE tree = found
    <3>1. /\ FileAt(IndexPath) = {e} /\ FileAt(BootstrapPath) = {BootstrapOf(e)}
          /\ \A o \in e.objects : FileAt(ObjectPath(o)) = {o}
      BY <1>2, <1>5, <1>7, <2>1, <2>3 DEF ArchiveOK, ReadingOK, Reading
    <3>2. \A path \in DOMAIN FilesOf(e) : FileAt(path) = FilesOf(e)[path]
      <4> SUFFICES ASSUME NEW path \in DOMAIN FilesOf(e)
                   PROVE  FileAt(path) = FilesOf(e)[path]
        OBVIOUS
      <4>1. CASE path \in {IndexPath, BootstrapPath}
        BY <3>1, <4>1, FilesOfIs
      <4>2. CASE path \notin {IndexPath, BootstrapPath}
        <5>1. PICK o \in e.objects : path = ObjectPath(o)
          BY <4>2, FilesOfIs
        <5>2. FilesOf(e)[ObjectPath(o)] = {o}
          BY FilesOfIs
        <5>3. QED
          BY <3>1, <5>1, <5>2
      <4>3. QED
        BY <4>1, <4>2
    <3>3. \A path \in DOMAIN FilesOf(e) : tree[path] = FilesOf(e)[path]
      BY <1>5, <3>2 DEF FileAt
    <3>4. tree = [path \in DOMAIN tree |-> tree[path]]
      BY <2>1 DEF TreeOK
    <3>5. FilesOf(e) = [path \in DOMAIN FilesOf(e) |-> FilesOf(e)[path]]
      BY DEF FilesOf
    <3>6. QED
      BY <1>5, <3>3, <3>4, <3>5
  <2>4. QED
    BY <1>2, <1>3, <1>7, <2>1, <2>2, <2>3 DEF ArchiveOK, Reading
<1>8. QED
  BY <1>2, <1>4, <1>6, <1>7, ReadMoves

\* A step of the archiver.
LEMMA ZipMoves ==
  ASSUME PortableInv, NEW call, ZipStep(call), ArchiveOK', VerifiedTreesAreOneExport',
         reading' = reading \/ reading' = [reading EXCEPT ![Zip] = NoReading]
  PROVE  PortableInv'
<1>1. UNCHANGED <<sources, edits, tree, building, exports, verified>>
  BY DEF ZipStep
<1>2. TreeOK' /\ \A b \in Builders : BuildOK(b)'
  BY <1>1, BuildStays DEF PortableInv, TreeOK, FileAt
<1>3. \A v \in Readers : reading'[v] = reading[v] \/ reading'[v] = NoReading
  BY DEF PortableInv
<1>4. \A v \in Readers : ReadingOK(v)'
  BY <1>1, <1>3, ReadingStays DEF PortableInv
<1>5. DOMAIN reading' = Readers
  BY DEF PortableInv
<1>6. QED
  BY <1>1, <1>2, <1>4, <1>5 DEF PortableInv

LEMMA StartAndEndZipKeep ==
  ASSUME PortableInv, StartZip \/ OpenZip \/ AbandonZip
  PROVE  PortableInv'
<1>1. ArchiveOK /\ VerifiedTreesAreOneExport /\ Zip \in DOMAIN reading
  BY DEF PortableInv, Readers
<1>2. CASE StartZip
  <2>1. PICK call : call = [archiving EXCEPT !.at = "verify", !.undisturbed = TRUE]
    OBVIOUS
  <2>2. ZipStep(call) /\ UNCHANGED <<archive, reading>> /\ archive = <<>> /\ archiving.at = "new"
    BY <1>2, <2>1 DEF StartZip
  <2>3. DOMAIN call = {"at", "todo", "undisturbed"} /\ call.at = "verify"
    BY <1>1, <2>1 DEF ArchiveOK
  <2>4. ArchiveOK'
    BY <1>1, <2>2, <2>3 DEF ArchiveOK, ZipStep, Reading
  <2>5. VerifiedTreesAreOneExport'
    BY <1>1, <2>2, <2>3 DEF VerifiedTreesAreOneExport, ZipStep
  <2>6. QED
    BY <2>2, <2>4, <2>5, ZipMoves
<1>3. CASE OpenZip
  <2>1. PICK call : call = [archiving EXCEPT !.at = "members", !.todo = DOMAIN tree]
    OBVIOUS
  <2>2. /\ ZipStep(call) /\ UNCHANGED archive /\ reading[Zip].at = "good"
        /\ archiving.at = "verify" /\ reading' = [reading EXCEPT ![Zip] = NoReading]
    BY <1>3, <2>1 DEF OpenZip
  <2>3. /\ DOMAIN call = {"at", "todo", "undisturbed"} /\ call.at = "members"
        /\ call.todo = DOMAIN tree /\ call.undisturbed = archiving.undisturbed
    BY <1>1, <2>1 DEF ArchiveOK
  <2>4. reading'[Zip].at = "none"
    BY <1>1, <2>2 DEF NoReading
  <2>5. archive = [path \in DOMAIN tree \ DOMAIN tree |-> tree[path]]
    <3>1. <<>> = [path \in {} |-> tree[path]]
      OBVIOUS
    <3>2. DOMAIN tree \ DOMAIN tree = {}
      OBVIOUS
    <3>3. QED
      BY <1>1, <2>2, <3>1, <3>2 DEF ArchiveOK
  <2>6. ArchiveOK'
    BY <1>1, <2>2, <2>3, <2>4, <2>5 DEF ArchiveOK, ZipStep, Reading
  <2>7. VerifiedTreesAreOneExport'
    BY <1>1, <2>2, <2>3 DEF VerifiedTreesAreOneExport, ZipStep
  <2>8. QED
    BY <2>2, <2>6, <2>7, ZipMoves
<1>4. CASE AbandonZip
  <2>1. PICK call : call = [archiving EXCEPT !.at = "ended", !.todo = {}]
    OBVIOUS
  <2>2. ZipStep(call) /\ reading' = [reading EXCEPT ![Zip] = NoReading]
    BY <1>4, <2>1 DEF AbandonZip
  <2>3. DOMAIN call = {"at", "todo", "undisturbed"} /\ call.at = "ended"
    BY <1>1, <2>1 DEF ArchiveOK
  <2>4. reading'[Zip].at = "none"
    BY <1>1, <2>2 DEF NoReading
  <2>5. ArchiveOK'
    BY <1>1, <2>2, <2>3, <2>4 DEF ArchiveOK, ZipStep, Reading
  <2>6. VerifiedTreesAreOneExport'
    BY <1>1, <2>2, <2>3 DEF VerifiedTreesAreOneExport, ZipStep
  <2>7. QED
    BY <2>2, <2>5, <2>6, ZipMoves
<1>5. QED
  BY <1>2, <1>3, <1>4

LEMMA MembersKeep ==
  ASSUME PortableInv, AddMember \/ CloseZip
  PROVE  PortableInv'
<1>1. ArchiveOK /\ VerifiedTreesAreOneExport /\ TreeOK
  BY DEF PortableInv
<1>2. archiving.at = "members" /\ UNCHANGED reading /\ reading[Zip].at = "none"
  BY <1>1 DEF AddMember, CloseZip, ArchiveOK
<1>3. CASE AddMember
  <2>1. PICK path \in archiving.todo :
          /\ archive' = With(archive, path, FileAt(path))
          /\ ZipStep([archiving EXCEPT !.todo = @ \ {path}])
    BY <1>3 DEF AddMember
  <2>2. PICK call : call = [archiving EXCEPT !.todo = @ \ {path}]
    OBVIOUS
  <2>3. /\ DOMAIN call = {"at", "todo", "undisturbed"} /\ call.at = "members"
        /\ call.todo = archiving.todo \ {path} /\ call.undisturbed = archiving.undisturbed
    BY <1>1, <1>2, <2>2 DEF ArchiveOK
  <2>4. ASSUME archiving.undisturbed
        PROVE  archive' = [p \in DOMAIN tree \ call.todo |-> tree[p]]
    <3>1. /\ archiving.todo \subseteq DOMAIN tree
          /\ archive = [p \in DOMAIN tree \ archiving.todo |-> tree[p]]
      BY <1>1, <1>2, <2>4 DEF ArchiveOK
    <3>2. FileAt(path) = tree[path] /\ path \in DOMAIN tree
      BY <2>1, <3>1 DEF FileAt
    <3>3. DOMAIN archive \cup {path} = DOMAIN tree \ call.todo
      BY <2>1, <2>3, <3>1, <3>2
    <3>4. QED
      BY <2>1, <3>1, <3>2, <3>3 DEF With
  <2>5. ArchiveOK'
    BY <1>1, <1>2, <2>1, <2>2, <2>3, <2>4 DEF ArchiveOK, ZipStep, Reading
  <2>6. VerifiedTreesAreOneExport'
    BY <1>1, <2>1, <2>2, <2>3 DEF VerifiedTreesAreOneExport, ZipStep
  <2>7. QED
    BY <1>2, <2>1, <2>5, <2>6, ZipMoves
<1>4. CASE CloseZip
  <2>1. PICK call : call = [archiving EXCEPT !.at = "closed"]
    OBVIOUS
  <2>2. ZipStep(call) /\ UNCHANGED archive /\ archiving.todo = {}
    BY <1>4, <2>1 DEF CloseZip
  <2>3. /\ DOMAIN call = {"at", "todo", "undisturbed"} /\ call.at = "closed"
        /\ call.undisturbed = archiving.undisturbed
    BY <1>1, <2>1 DEF ArchiveOK
  <2>4. ArchiveOK'
    BY <1>1, <1>2, <2>2, <2>3 DEF ArchiveOK, ZipStep, Reading
  <2>5. archiving.undisturbed => archive \in verified
    BY <1>1, <1>2, <2>2 DEF ArchiveOK, TreeOK
  <2>6. VerifiedTreesAreOneExport'
    BY <1>1, <2>2, <2>3, <2>5 DEF VerifiedTreesAreOneExport, ZipStep
  <2>7. QED
    BY <1>2, <2>2, <2>4, <2>6, ZipMoves
<1>5. QED
  BY <1>3, <1>4

LEMMA EditKeeps ==
  ASSUME PortableInv, NEW s \in Sources, NEW version \in Versions, EditSource(s, version)
  PROVE  PortableInv'
<1>1. UNCHANGED <<tree, building, reading, archive, archiving, exports, verified>>
  BY DEF EditSource
<1>2. sources' \in [Sources -> Versions]
  BY DEF PortableInv, EditSource
<1>3. edits' \in 0..MaxEdits
  <2>1. edits \in 0..MaxEdits /\ edits < MaxEdits /\ edits' = edits + 1
    BY DEF PortableInv, EditSource
  <2>2. QED
    BY <2>1, PortableAssumption
<1>4. TreeOK' /\ ArchiveOK' /\ VerifiedTreesAreOneExport'
  BY <1>1 DEF PortableInv, TreeOK, ArchiveOK, VerifiedTreesAreOneExport, FileAt, Reading
<1>5. /\ \A b \in Builders : BuildOK(b)'
      /\ \A v \in Readers : ReadingOK(v)'
  BY <1>1, BuildStays, ReadingStays DEF PortableInv
<1>6. QED
  BY <1>1, <1>2, <1>3, <1>4, <1>5 DEF PortableInv

LEMMA PortableKeeps ==
  ASSUME PortableInv, PortableNext
  PROVE  PortableInv'
BY StartAndEndKeep, ReadPackKeeps, OpenAndFillKeep, ReadDocumentsKeep, CheckDocumentsKeep,
   ListFilesKeeps, StartAndEndZipKeep, MembersKeep, EditKeeps DEF PortableNext

LEMMA PortableStays ==
  ASSUME PortableInv, UNCHANGED portableVars
  PROVE  PortableInv'
<1>1. UNCHANGED <<sources, edits, tree, building, reading, archive, archiving, exports, verified>>
  BY DEF portableVars
<1>2. TreeOK' /\ ArchiveOK' /\ VerifiedTreesAreOneExport'
  BY <1>1 DEF PortableInv, TreeOK, ArchiveOK, VerifiedTreesAreOneExport, FileAt, Reading
<1>3. /\ \A b \in Builders : BuildOK(b)'
      /\ \A v \in Readers : ReadingOK(v)'
  BY <1>1, BuildStays, ReadingStays DEF PortableInv
<1>4. QED
  BY <1>1, <1>2, <1>3 DEF PortableInv

LEMMA PortableTypes == PortableInv => PortableTypeOK
<1> SUFFICES ASSUME PortableInv PROVE PortableTypeOK
  OBVIOUS
<1>1. \A path \in DOMAIN tree : Cardinality(tree[path]) <= 1
  <2> SUFFICES ASSUME NEW path \in DOMAIN tree PROVE Cardinality(tree[path]) <= 1
    OBVIOUS
  <2>1. CASE tree[path] = {}
    BY <2>1, FS_EmptySet
  <2>2. CASE \E x : tree[path] = {x}
    <3>1. PICK x : tree[path] = {x}
      BY <2>2
    <3>2. Cardinality({x}) = 1
      BY FS_Singleton
    <3>3. QED
      BY <3>1, <3>2
  <2>3. QED
    BY <2>1, <2>2 DEF PortableInv, TreeOK
<1>2. QED
  BY <1>1 DEF PortableInv, PortableTypeOK, BuildOK, ReadingOK, ArchiveOK, Reading

-----------------------------------------------------------------------------
(* Recovery                                                                *)

Ranks == {0, Internal, Restricted}

\* A package holds what its source held all the while, and nothing else.
PackageOK(a) ==
  /\ a.capsules = a.listed
  /\ Lasting(a.from) \subseteq ItemsOf(a) /\ Lasting(ItemsOf(a)) \subseteq a.to
  /\ a.verified => ValidStore(ItemsOf(a))

\* No entry of a bundle is a Collection's HEAD, and each has its bytes.
BundleOK(a) ==
  /\ a.fingerprint = RunChain(a.from)
  /\ \A c \in a.capsules :
       /\ DOMAIN c = {"rows", "order", "payload"}
       /\ \A r \in c.rows : r.path \in DOMAIN c.payload
       /\ \A p \in DOMAIN c.payload : c.payload[p][1] # "head"

ArtifactOK(a) ==
  /\ DOMAIN a = {"tool", "capsules", "listed", "fingerprint", "privacy", "ack", "verified",
                 "gated", "from", "to"}
  /\ a.tool \in Exports
  /\ a.privacy \in {Internal, Restricted}
  /\ a.tool = "package" => PackageOK(a)
  /\ a.tool = "bundle" => BundleOK(a)

AckOK(a) ==
  a.tool # "none" /\ (\E e \in EntriesOf(a) : e.privacy = Restricted)
    => \/ a.ack
       \/ /\ a.tool = "package"
          /\ a.gated < Restricted
          /\ StorePrivacy(a.to) = Restricted

\* What a package has collected: every file the store will keep that it saw in
\* the registries it has been through, and nothing the store does not hold.
CollectedOK(call) ==
  /\ call.seen \subseteq StoreItems /\ Lasting(call.seen) \subseteq live
  /\ call.got \subseteq StoreItems /\ Lasting(call.got) \subseteq live
  /\ (\E i \in call.got : i[1] \in {"collection", "head", "snapshot"}) => Collection \in live
  /\ call.at = "collect" =>
       \A n \in 1..10 : n < call.next =>
         \A i \in Lasting(call.seen) : i[1] = Registries[n] => i \in call.got
  /\ call.at = "promote" => Lasting(call.seen) \subseteq call.got

CallOK(call) ==
  /\ DOMAIN call = {"tool", "at", "out", "target", "ack", "gated", "seen", "got", "next"}
  /\ call.tool \in Exports \cup {"restore", "none"}
  /\ call.at = "idle" <=> call.tool = "none"
  /\ call.at \in {"privacy", "validate", "promote"} => call.tool = "package"
  /\ call.at \in {"verify_run", "write"} => call.tool = "bundle"
  /\ call.at = "rebuild" => call.tool = "restore"
  /\ call.at \in {"idle", "privacy", "validate", "promote", "verify_run", "write", "rebuild",
                  "collect", "verify"}
  /\ call.tool # "none" => call.out \in Outputs
  /\ call.tool = "restore" => call.target \in Targets
  /\ call.next \in 0..10
  /\ call.tool = "package" /\ call.at = "collect" => call.next \in 1..10
  /\ call.tool = "package" /\ call.at \in {"validate", "collect", "promote"} =>
       call.gated \in Ranks /\ Allowed(call, call.gated)
  /\ call.at \in {"privacy", "validate"} => call.got = {}
  /\ call.tool = "package" /\ call.at \in {"collect", "promote"} => CollectedOK(call)
  /\ call.at = "write" =>
       \E events : call.got = RunContents(events) /\ BundleFiles(events) \subseteq Files
  /\ call.at \in {"verify", "rebuild"} => disk[call.out] # Nothing
  /\ call.tool = "bundle" /\ call.at = "verify" => disk[call.out].tool = "bundle"

RecoveredOK(t) ==
  /\ targets[t].tool \in Exports \cup {"none"}
  /\ targets[t].tool = "package" => LiesBetween(targets[t].store, targets[t].from, targets[t].to)
  /\ targets[t].tool = "bundle" => IsRunRead(targets[t].store, targets[t].from)

ArkInv ==
  /\ DOMAIN job = Jobs /\ DOMAIN disk = Outputs /\ DOMAIN targets = Targets
  /\ \A j \in Jobs : CallOK(job[j])
  /\ \A d \in Outputs : disk[d] = Nothing \/ (ArtifactOK(disk[d]) /\ AckOK(disk[d]))
  /\ \A t \in Targets : RecoveredOK(t)

-----------------------------------------------------------------------------
LEMMA PrivacyMaxIs ==
  ASSUME NEW ranks \in SUBSET Ranks
  PROVE  /\ PrivacyMax(ranks) \in {Internal, Restricted}
         /\ PrivacyMax(ranks) = Restricted <=> Restricted \in ranks
<1>1. PICK all, max : all = ranks \cup {1} /\ max = PrivacyMax(ranks)
  OBVIOUS
<1>2. max = CHOOSE x \in all : \A y \in all : x >= y
  BY <1>1 DEF PrivacyMax, Max, Internal
<1>3. all \subseteq 0..2 /\ 1 \in all /\ (2 \in all <=> 2 \in ranks)
  BY <1>1 DEF Ranks, Internal, Restricted
<1>4. \E x \in all : \A y \in all : x >= y
  <2>1. CASE 2 \in all
    BY <1>3, <2>1
  <2>2. CASE 2 \notin all
    BY <1>3, <2>2
  <2>3. QED
    BY <2>1, <2>2
<1>5. max \in all /\ \A y \in all : max >= y
  BY <1>2, <1>4
<1>6. max \in {1, 2} /\ (max = 2 <=> 2 \in ranks)
  BY <1>3, <1>5
<1>7. QED
  BY <1>1, <1>6 DEF Internal, Restricted

LEMMA MinIs ==
  ASSUME NEW ranks \in SUBSET Ranks, ranks # {}
  PROVE  Min(ranks) \in ranks
<1>1. ranks \subseteq 0..2
  BY DEF Ranks, Internal, Restricted
<1>2. \E x \in ranks : \A y \in ranks : x =< y
  <2>1. CASE 0 \in ranks
    BY <1>1, <2>1
  <2>2. CASE 0 \notin ranks /\ 1 \in ranks
    BY <1>1, <2>2
  <2>3. CASE 0 \notin ranks /\ 1 \notin ranks
    <3>1. \A x \in ranks : x = 2
      BY <1>1, <2>3
    <3>2. QED
      BY <3>1
  <2>4. QED
    BY <2>1, <2>2, <2>3
<1>3. QED
  BY <1>2 DEF Min

\* The class of a store by what it holds.
LEMMA StorePrivacyIs ==
  ASSUME NEW store, store \subseteq StoreItems
  PROVE  /\ StorePrivacy(store) \in {Internal, Restricted}
         /\ StorePrivacy(store) = Restricted
              <=> \/ \E f \in Names(store, "file") : PrivacyRank[f] = Restricted
                  \/ Collection \in store /\ CollectionRank = Restricted
<1>1. PICK ranks : ranks = {PrivacyRank[f] : f \in Names(store, "file")}
                           \cup {CollectionRank : c \in Names(store, "collection")}
  OBVIOUS
<1>2. Names(store, "file") \subseteq Files
  <2> SUFFICES ASSUME NEW f \in Names(store, "file") PROVE f \in Files
    OBVIOUS
  <2>1. <<"file", f>> \in StoreItems
    BY NamedIsThere
  <2>2. QED
    BY <2>1 DEF StoreItems, In, Collection, Run
<1>3. ranks \in SUBSET Ranks
  BY <1>1, <1>2, StoreAssumption DEF StoreAssumption, Ranks
<1>4. Names(store, "collection") # {} <=> Collection \in store
  <2>1. Collection \in store => Names(store, "collection") # {}
    BY NamesIn DEF Collection
  <2>2. ASSUME NEW n \in Names(store, "collection") PROVE Collection \in store
    <3>1. <<"collection", n>> \in store /\ <<"collection", n>> \in StoreItems
      BY NamedIsThere
    <3>2. <<"collection", n>> = Collection
      BY <3>1 DEF StoreItems, In, Collection, Run
    <3>3. QED
      BY <3>1, <3>2
  <2>3. QED
    BY <2>1, <2>2
<1>5. Restricted \in ranks <=> \/ \E f \in Names(store, "file") : PrivacyRank[f] = Restricted
                               \/ Collection \in store /\ CollectionRank = Restricted
  BY <1>1, <1>4
<1>6. StorePrivacy(store) = PrivacyMax(ranks)
  BY <1>1 DEF StorePrivacy
<1>7. QED
  BY <1>3, <1>5, <1>6, PrivacyMaxIs

\* What a capsule gives back of entries whose bytes are named by their paths.
LEMMA Packed ==
  ASSUME NEW E, \A e \in E : e.data = e.path
  PROVE  /\ \A x \in ParsedEntries(PackCapsule(E)) :
              \E e \in E : x.path = e.path /\ x.data = e.path /\ x.privacy = e.privacy
         /\ \A e \in E : \E x \in ParsedEntries(PackCapsule(E)) : x.data = e.path
         /\ DOMAIN PackCapsule(E) = {"rows", "order", "payload"}
         /\ \A r \in PackCapsule(E).rows : r.path \in DOMAIN PackCapsule(E).payload
         /\ \A p \in DOMAIN PackCapsule(E).payload :
              PackCapsule(E).payload[p] = p /\ \E e \in E : p = e.path
<1>1. PICK c : c = PackCapsule(E)
  OBVIOUS
<1>2. /\ c.rows = {ManifestRow(e) : e \in E}
      /\ c.payload = [p \in {e.path : e \in E} |-> (CHOOSE e \in E : e.path = p).data]
      /\ DOMAIN c = {"rows", "order", "payload"}
  BY <1>1 DEF PackCapsule
<1>3. \A p \in DOMAIN c.payload : c.payload[p] = p /\ \E e \in E : p = e.path
  BY <1>2
<1>4. \A e \in E : ManifestRow(e) \in c.rows /\ e.path \in DOMAIN c.payload
  BY <1>2
<1>5. \A r \in c.rows : \E e \in E : r.path = e.path /\ r.privacy = e.privacy
  BY <1>2 DEF ManifestRow
<1>6. \A x \in ParsedEntries(c) : \E r \in c.rows :
        x.path = r.path /\ x.data = c.payload[r.path] /\ x.privacy = r.privacy
  BY DEF ParsedEntries
<1>7. \A r \in c.rows : \E x \in ParsedEntries(c) : x.data = c.payload[r.path]
  <2> SUFFICES ASSUME NEW r \in c.rows
               PROVE  \E x \in ParsedEntries(c) : x.data = c.payload[r.path]
    OBVIOUS
  <2>1. PICK x : x = [path |-> r.path, data |-> c.payload[r.path], privacy |-> r.privacy,
                      recovery |-> r.recovery, source |-> r.source]
    OBVIOUS
  <2>2. x \in ParsedEntries(c) /\ x.data = c.payload[r.path]
    BY <2>1 DEF ParsedEntries
  <2>3. QED
    BY <2>2
<1>8. \A x \in ParsedEntries(c) :
        \E e \in E : x.path = e.path /\ x.data = e.path /\ x.privacy = e.privacy
  BY <1>3, <1>4, <1>5, <1>6
<1>9. \A e \in E : \E x \in ParsedEntries(c) : x.data = e.path
  <2> SUFFICES ASSUME NEW e \in E PROVE \E x \in ParsedEntries(c) : x.data = e.path
    OBVIOUS
  <2>1. ManifestRow(e).path = e.path
    BY DEF ManifestRow
  <2>2. QED
    BY <1>3, <1>4, <1>7, <2>1
<1>10. \A r \in c.rows : r.path \in DOMAIN c.payload
  BY <1>4, <1>5
<1>11. DOMAIN c = {"rows", "order", "payload"}
  BY <1>2
<1>12. QED
  BY <1>1, <1>3, <1>8, <1>9, <1>10, <1>11, Zenon

\* What an artifact gives back of entries that are in its capsules.
LEMMA Held ==
  ASSUME NEW E, \A e \in E : e.data = e.path,
         NEW a, \A c \in a.capsules : \E G \in SUBSET E : c = PackCapsule(G),
         \A e \in E : \E G \in SUBSET E : e \in G /\ PackCapsule(G) \in a.capsules
  PROVE  /\ \A x \in EntriesOf(a) : \E e \in E : x.data = e.path /\ x.privacy = e.privacy
         /\ ItemsOf(a) = {e.path : e \in E}
<1>1. \A x : x \in EntriesOf(a) <=> \E c \in a.capsules : x \in ParsedEntries(c)
  BY DEF EntriesOf
<1>2. \A G \in SUBSET E : \A e \in G : e.data = e.path
  OBVIOUS
<1>3. ASSUME NEW x \in EntriesOf(a)
      PROVE  \E e \in E : x.data = e.path /\ x.privacy = e.privacy
  <2>1. PICK c \in a.capsules : x \in ParsedEntries(c)
    BY <1>1
  <2>2. PICK G \in SUBSET E : c = PackCapsule(G)
    BY <2>1
  <2>3. QED
    BY <1>2, <2>1, <2>2, Packed
<1>4. ASSUME NEW e \in E
      PROVE  \E x \in EntriesOf(a) : x.data = e.path
  <2>1. PICK G \in SUBSET E : e \in G /\ PackCapsule(G) \in a.capsules
    OBVIOUS
  <2>2. PICK x \in ParsedEntries(PackCapsule(G)) : x.data = e.path
    BY <1>2, <2>1, Packed
  <2>3. QED
    BY <1>1, <2>1, <2>2
<1>5. ItemsOf(a) = {e.path : e \in E}
  BY <1>3, <1>4 DEF ItemsOf
<1>6. QED
  BY <1>3, <1>5

LEMMA PackageHolds ==
  ASSUME NEW items, NEW seen, NEW a, a.capsules = Capsules(Entries(items, seen))
  PROVE  /\ \A x \in EntriesOf(a) : x.data \in items /\ x.privacy = Label(seen, x.data)
         /\ ItemsOf(a) = items
<1>1. PICK E : E = Entries(items, seen)
  OBVIOUS
<1>2. /\ \A e \in E : e.path \in items /\ e.data = e.path /\ e.privacy = Label(seen, e.path)
      /\ \A i \in items : \E e \in E : e.path = i
  <2>1. \A e \in E : \E i \in items : e = Entry(i, i, Label(seen, i), PackageShell(i))
    BY <1>1 DEF Entries
  <2>2. \A i \in items : Entry(i, i, Label(seen, i), PackageShell(i)) \in E
    BY <1>1 DEF Entries
  <2>3. \A i, label, shell : /\ Entry(i, i, label, shell).path = i
                             /\ Entry(i, i, label, shell).data = i
                             /\ Entry(i, i, label, shell).privacy = label
    BY DEF Entry
  <2>4. QED
    BY <2>1, <2>2, <2>3
<1>3. a.capsules = {PackCapsule({e \in E : e.path[1] = r}) : r \in {e.path[1] : e \in E}}
  BY <1>1 DEF Capsules
<1>4. \A c \in a.capsules : \E G \in SUBSET E : c = PackCapsule(G)
  <2> SUFFICES ASSUME NEW c \in a.capsules PROVE \E G \in SUBSET E : c = PackCapsule(G)
    OBVIOUS
  <2>1. PICK r : c = PackCapsule({e \in E : e.path[1] = r})
    BY <1>3
  <2>2. {e \in E : e.path[1] = r} \in SUBSET E
    OBVIOUS
  <2>3. QED
    BY <2>1, <2>2
<1>5. \A e \in E : \E G \in SUBSET E : e \in G /\ PackCapsule(G) \in a.capsules
  <2> SUFFICES ASSUME NEW e \in E
               PROVE  \E G \in SUBSET E : e \in G /\ PackCapsule(G) \in a.capsules
    OBVIOUS
  <2>1. PICK G : G = {x \in E : x.path[1] = e.path[1]}
    OBVIOUS
  <2>2. G \in SUBSET E /\ e \in G
    BY <2>1
  <2>3. PackCapsule(G) \in a.capsules
    BY <1>3, <2>1
  <2>4. QED
    BY <2>2, <2>3
<1>6. /\ \A x \in EntriesOf(a) : \E e \in E : x.data = e.path /\ x.privacy = e.privacy
      /\ ItemsOf(a) = {e.path : e \in E}
  BY <1>2, <1>4, <1>5, Held
<1>7. QED
  BY <1>2, <1>6

LEMMA BundleHolds ==
  ASSUME NEW call
  PROVE  /\ Bundle(call) = Artifact(call, Bundle(call).capsules, RunChain(call.seen),
                                    BundlePrivacy(call))
         /\ \A x \in EntriesOf(Bundle(call)) :
              x.data \in call.got /\ x.privacy = BundleLabel(call, x.data)
         /\ \A c \in Bundle(call).capsules :
              /\ DOMAIN c = {"rows", "order", "payload"}
              /\ \A r \in c.rows : r.path \in DOMAIN c.payload
              /\ \A p \in DOMAIN c.payload : c.payload[p] = p /\ p \in call.got
<1>1. PICK E : E = {Entry(i, i, BundleLabel(call, i), BundleShell(i)) : i \in call.got}
  OBVIOUS
<1>2. \A e \in E : e.path \in call.got /\ e.data = e.path /\ e.privacy = BundleLabel(call, e.path)
  BY <1>1 DEF Entry
<1>3. Bundle(call) = Artifact(call, {PackCapsule(E)}, RunChain(call.seen), BundlePrivacy(call))
  BY <1>1 DEF Bundle
<1>4. Bundle(call).capsules = {PackCapsule(E)}
  BY <1>3 DEF Artifact
<1>5. PICK a : a = Bundle(call)
  OBVIOUS
<1>6. /\ \A c \in a.capsules : \E G \in SUBSET E : c = PackCapsule(G)
      /\ \A e \in E : \E G \in SUBSET E : e \in G /\ PackCapsule(G) \in a.capsules
  BY <1>4, <1>5
<1>7. \A x \in EntriesOf(a) : \E e \in E : x.data = e.path /\ x.privacy = e.privacy
  <2>1. \A e \in E : e.data = e.path
    BY <1>2
  <2>2. \A c \in a.capsules : \E G \in SUBSET E : c = PackCapsule(G)
    BY <1>6
  <2>3. \A e \in E : \E G \in SUBSET E : e \in G /\ PackCapsule(G) \in a.capsules
    BY <1>6
  <2>4. /\ \A x \in EntriesOf(a) : \E e \in E : x.data = e.path /\ x.privacy = e.privacy
        /\ ItemsOf(a) = {e.path : e \in E}
    BY <2>1, <2>2, <2>3, Held
  <2>5. QED
    BY <2>4
<1>8. \A c \in a.capsules :
        /\ DOMAIN c = {"rows", "order", "payload"}
        /\ \A r \in c.rows : r.path \in DOMAIN c.payload
        /\ \A p \in DOMAIN c.payload : c.payload[p] = p /\ p \in call.got
  <2>1. /\ DOMAIN PackCapsule(E) = {"rows", "order", "payload"}
        /\ \A r \in PackCapsule(E).rows : r.path \in DOMAIN PackCapsule(E).payload
        /\ \A p \in DOMAIN PackCapsule(E).payload :
             PackCapsule(E).payload[p] = p /\ \E e \in E : p = e.path
    BY <1>2, Packed
  <2>2. QED
    BY <1>2, <1>4, <1>5, <2>1
<1>9. \A x \in EntriesOf(a) : x.data \in call.got /\ x.privacy = BundleLabel(call, x.data)
  BY <1>2, <1>7
<1>10. a = Artifact(call, a.capsules, RunChain(call.seen), BundlePrivacy(call))
  BY <1>3, <1>4, <1>5
<1>11. QED
  BY <1>5, <1>8, <1>9, <1>10, Zenon

\* What a package labels RESTRICTED the store has at its end.
LEMMA PackageLabels ==
  ASSUME LiveOK, NEW call, CollectedOK(call), NEW i \in call.got,
         Label(call.seen, i) = Restricted
  PROVE  StorePrivacy(live) = Restricted
<1>1. PICK seen : seen = call.seen
  OBVIOUS
<1>2. /\ seen \subseteq StoreItems /\ Lasting(seen) \subseteq live
      /\ i \in StoreItems /\ (i[1] \notin {"head", "run-head"} => i \in live)
      /\ i[1] \in {"collection", "head", "snapshot"} => Collection \in live
      /\ live \subseteq StoreItems
  BY <1>1 DEF CollectedOK, Lasting, LiveOK
<1>3. Names(seen, "file") \subseteq Names(live, "file")
  <2> SUFFICES ASSUME NEW f \in Names(seen, "file") PROVE f \in Names(live, "file")
    OBVIOUS
  <2>1. <<"file", f>> \in seen
    BY <1>2, NamedIsThere
  <2>2. <<"file", f>> \in live
    BY <1>2, <2>1 DEF Lasting
  <2>3. QED
    BY <2>2, NamesIn
<1>4. Collection \in seen => Collection \in live
  BY <1>2 DEF Lasting, Collection
<1>5. StorePrivacy(live) = Restricted
        <=> \/ \E f \in Names(live, "file") : PrivacyRank[f] = Restricted
            \/ Collection \in live /\ CollectionRank = Restricted
  BY <1>2, StorePrivacyIs
<1>6. StorePrivacy(seen) = Restricted => StorePrivacy(live) = Restricted
  BY <1>2, <1>3, <1>4, <1>5, StorePrivacyIs
<1>7. CASE i[1] = "object"
  <2>1. PICK describing : describing = {f \in Names(seen, "file") : ObjectOf[f] = i[2]}
    OBVIOUS
  <2>2. Label(seen, i) = IF describing = {} THEN StorePrivacy(seen)
                         ELSE PrivacyMax({PrivacyRank[f] : f \in describing})
    BY <1>7, <2>1 DEF Label
  <2>3. CASE describing = {}
    BY <1>1, <1>6, <2>2, <2>3
  <2>4. CASE describing # {}
    <3>1. describing \subseteq Files
      <4> SUFFICES ASSUME NEW f \in describing PROVE f \in Files
        OBVIOUS
      <4>1. <<"file", f>> \in StoreItems
        BY <1>2, <2>1, NamedIsThere
      <4>2. QED
        BY <4>1 DEF StoreItems, In, Collection, Run
    <3>2. PICK ranks : ranks = {PrivacyRank[f] : f \in describing}
      OBVIOUS
    <3>3. ranks \in SUBSET Ranks
      BY <3>1, <3>2, StoreAssumption DEF StoreAssumption, Ranks
    <3>4. Restricted \in ranks
      BY <1>1, <2>2, <2>4, <3>2, <3>3, PrivacyMaxIs
    <3>5. QED
      BY <1>3, <1>5, <2>1, <3>2, <3>4
  <2>5. QED
    BY <2>3, <2>4
<1>8. CASE i[1] = "file"
  <2>1. PrivacyRank[i[2]] = Restricted
    BY <1>1, <1>8 DEF Label
  <2>2. i[2] \in Names(live, "file")
    BY <1>2, <1>8, NamesIn DEF Names
  <2>3. QED
    BY <1>5, <2>1, <2>2
<1>9. CASE i[1] \in {"collection", "head", "snapshot"}
  <2>1. CollectionRank = Restricted
    BY <1>1, <1>9 DEF Label
  <2>2. QED
    BY <1>2, <1>5, <1>9, <2>1
<1>10. CASE i[1] \notin {"object", "file", "collection", "head", "snapshot"}
  <2>1. Label(seen, i) = StorePrivacy(seen)
    BY <1>10 DEF Label
  <2>2. QED
    BY <1>1, <1>6, <2>1
<1>11. QED
  BY <1>7, <1>8, <1>9, <1>10

LEMMA ContentsAre ==
  ASSUME NEW events
  PROVE  /\ Names(RunContents(events), "file") = BundleFiles(events)
         /\ \A i \in RunContents(events) :
              /\ i[1] \in {"object", "file", "run", "event", "collection", "snapshot"}
              /\ i[1] = "object" => \E f \in BundleFiles(events) : i[2] = ObjectOf[f]
<1>1. PICK files, items : files = BundleFiles(events) /\ items = RunContents(events)
  OBVIOUS
<1>2. items = {Collection, Run} \cup In("event", events) \cup In("snapshot", Line[Bound])
              \cup In("file", files) \cup In("object", {ObjectOf[f] : f \in files})
  BY <1>1 DEF RunContents
<1>3. \A registry, names : \A i : i \in In(registry, names) => i[1] = registry /\ i[2] \in names
  BY DEF In
<1>4. \A i \in items :
        /\ i[1] \in {"object", "file", "run", "event", "collection", "snapshot"}
        /\ i[1] = "object" => \E f \in files : i[2] = ObjectOf[f]
        /\ i[1] = "file" => i[2] \in files
  <2> SUFFICES ASSUME NEW i \in items
               PROVE  /\ i[1] \in {"object", "file", "run", "event", "collection", "snapshot"}
                      /\ i[1] = "object" => \E f \in files : i[2] = ObjectOf[f]
                      /\ i[1] = "file" => i[2] \in files
    OBVIOUS
  <2>1. CASE i \in {Collection, Run}
    BY <2>1 DEF Collection, Run
  <2>2. CASE i \in In("event", events) \cup In("snapshot", Line[Bound]) \cup In("file", files)
    BY <1>3, <2>2
  <2>3. CASE i \in In("object", {ObjectOf[f] : f \in files})
    BY <1>3, <2>3
  <2>4. QED
    BY <1>2, <2>1, <2>2, <2>3
<1>5. \A f \in files : <<"file", f>> \in items
  BY <1>2 DEF In
<1>6. Names(items, "file") = files
  <2>1. \A n \in Names(items, "file") : n \in files
    BY <1>4, NamesIn
  <2>2. \A f \in files : f \in Names(items, "file")
    BY <1>5, NamesIn
  <2>3. QED
    BY <2>1, <2>2
<1>7. QED
  BY <1>1, <1>4, <1>6

LEMMA BundleLabels ==
  ASSUME NEW call, NEW events, call.got = RunContents(events), BundleFiles(events) \subseteq Files
  PROVE  /\ BundlePrivacy(call) \in {Internal, Restricted}
         /\ \A i \in call.got : BundleLabel(call, i) = Restricted => BundlePrivacy(call) = Restricted
<1>1. PICK files : files = BundleFiles(events) /\ files = Names(call.got, "file")
  BY ContentsAre
<1>2. PICK ranks : ranks = {PrivacyRank[f] : f \in files} \cup {CollectionRank}
  OBVIOUS
<1>3. ranks \in SUBSET Ranks /\ \A f \in files : PrivacyRank[f] \in Ranks
  BY <1>1, <1>2, StoreAssumption DEF StoreAssumption, Ranks
<1>4. BundlePrivacy(call) = PrivacyMax(ranks)
  BY <1>1, <1>2 DEF BundlePrivacy
<1>5. /\ BundlePrivacy(call) \in {Internal, Restricted}
      /\ Restricted \in ranks => BundlePrivacy(call) = Restricted
  BY <1>3, <1>4, PrivacyMaxIs
<1>6. ASSUME NEW i \in call.got, BundleLabel(call, i) = Restricted
      PROVE  BundlePrivacy(call) = Restricted
  <2>1. CASE i[1] = "object"
    <3>1. PICK f \in files : i[2] = ObjectOf[f]
      BY <1>1, <2>1, ContentsAre
    <3>2. PICK all : all = {PrivacyRank[g] : g \in {h \in files : ObjectOf[h] = i[2]}}
      OBVIOUS
    <3>3. BundleLabel(call, i) = Min(all)
      BY <1>1, <2>1, <3>2 DEF BundleLabel
    <3>4. all \subseteq ranks /\ all \in SUBSET Ranks /\ all # {}
      BY <1>2, <1>3, <3>1, <3>2
    <3>5. Min(all) \in ranks
      BY <3>4, MinIs
    <3>6. QED
      BY <1>5, <1>6, <3>3, <3>5
  <2>2. CASE i[1] = "file"
    <3>1. i[2] \in files /\ BundleLabel(call, i) = PrivacyRank[i[2]]
      BY <1>1, <2>2 DEF BundleLabel, Names
    <3>2. QED
      BY <1>2, <1>5, <1>6, <3>1
  <2>3. CASE i[1] \in {"collection", "snapshot"}
    <3>1. BundleLabel(call, i) = CollectionRank
      BY <2>3 DEF BundleLabel
    <3>2. QED
      BY <1>2, <1>5, <1>6, <3>1
  <2>4. CASE i[1] \notin {"object", "file", "collection", "snapshot"}
    <3>1. BundleLabel(call, i) = BundlePrivacy(call)
      BY <2>4 DEF BundleLabel
    <3>2. QED
      BY <1>6, <3>1
  <2>5. QED
    BY <2>1, <2>2, <2>3, <2>4
<1>7. QED
  BY <1>5, <1>6

-----------------------------------------------------------------------------
(* Artifacts                                                               *)

LEMMA BundleIsOK ==
  ASSUME NEW call, call.tool = "bundle", NEW events, call.got = RunContents(events),
         BundleFiles(events) \subseteq Files, Allowed(call, BundlePrivacy(call)),
         NEW b, b = Bundle(call)
  PROVE  ArtifactOK(b) /\ AckOK(b) /\ b.tool = "bundle" /\ b # Nothing
<1>1. b = Artifact(call, b.capsules, RunChain(call.seen), BundlePrivacy(call))
  BY BundleHolds
<1>2. /\ DOMAIN b = {"tool", "capsules", "listed", "fingerprint", "privacy", "ack", "verified",
                     "gated", "from", "to"}
      /\ b.tool = "bundle" /\ b.fingerprint = RunChain(call.seen) /\ b.from = call.seen
      /\ b.privacy = BundlePrivacy(call) /\ b.ack = call.ack
  <2>1. PICK capsules, fingerprint, rank :
          /\ capsules = b.capsules /\ fingerprint = RunChain(call.seen)
          /\ rank = BundlePrivacy(call)
    OBVIOUS
  <2>2. b = Artifact(call, capsules, fingerprint, rank)
    BY <1>1, <2>1
  <2>3. QED
    BY <2>1, <2>2 DEF Artifact
<1>3. /\ BundlePrivacy(call) \in {Internal, Restricted}
      /\ \A i \in call.got : BundleLabel(call, i) = Restricted => BundlePrivacy(call) = Restricted
  BY BundleLabels
<1>4. BundleOK(b)
  <2>1. \A c \in b.capsules :
          /\ DOMAIN c = {"rows", "order", "payload"}
          /\ \A r \in c.rows : r.path \in DOMAIN c.payload
          /\ \A p \in DOMAIN c.payload : c.payload[p] = p /\ p \in call.got
    BY BundleHolds
  <2>2. \A i \in call.got : i[1] # "head"
    BY ContentsAre
  <2>3. QED
    BY <1>2, <2>1, <2>2 DEF BundleOK
<1>5. AckOK(b)
  <2> SUFFICES ASSUME NEW x \in EntriesOf(b), x.privacy = Restricted PROVE b.ack
    BY DEF AckOK
  <2>1. x.data \in call.got /\ x.privacy = BundleLabel(call, x.data)
    BY BundleHolds
  <2>2. QED
    BY <1>2, <1>3, <2>1 DEF Allowed
<1>6. ArtifactOK(b)
  BY <1>2, <1>3, <1>4 DEF ArtifactOK, Exports
<1>7. b # Nothing
  BY <1>2 DEF Nothing
<1>8. QED
  BY <1>2, <1>5, <1>6, <1>7

LEMMA VerifiedIsOK ==
  ASSUME NEW a, ArtifactOK(a), AckOK(a), NEW x, a.tool = "package" /\ x => ValidStore(ItemsOf(a)),
         NEW b, b = [a EXCEPT !.verified = x]
  PROVE  ArtifactOK(b) /\ AckOK(b) /\ b.tool = a.tool /\ b # Nothing
<1>1. /\ DOMAIN b = DOMAIN a /\ b.verified = x /\ b.tool = a.tool
      /\ b.capsules = a.capsules /\ b.listed = a.listed
      /\ b.fingerprint = a.fingerprint /\ b.privacy = a.privacy /\ b.ack = a.ack
      /\ b.gated = a.gated /\ b.from = a.from /\ b.to = a.to
  BY DEF ArtifactOK
<1>2. EntriesOf(b) = EntriesOf(a)
  BY <1>1 DEF EntriesOf
<1>3. ItemsOf(b) = ItemsOf(a)
  BY <1>2 DEF ItemsOf
<1>4. a.tool = "package" => PackageOK(b)
  BY <1>1, <1>3 DEF ArtifactOK, PackageOK
<1>5. a.tool = "bundle" => BundleOK(b)
  BY <1>1 DEF ArtifactOK, BundleOK
<1>6. ArtifactOK(b)
  BY <1>1, <1>4, <1>5 DEF ArtifactOK
<1>7. AckOK(b)
  BY <1>1, <1>2 DEF AckOK
<1>8. b # Nothing
  BY <1>1 DEF ArtifactOK, Nothing
<1>9. QED
  BY <1>1, <1>6, <1>7, <1>8

LEMMA StartFiles == BundleFiles(RunChain(Start)) \subseteq Files
<1>1. Start \subseteq StoreItems /\ Names(Start, "event") = RunChain(Start)
  BY StoreAssumption DEF StoreAssumption, ValidStore, RunsValid
<1>2. \A e \in RunChain(Start) : Cites[e] \subseteq Files
  <2> SUFFICES ASSUME NEW e \in RunChain(Start) PROVE Cites[e] \subseteq Files
    OBVIOUS
  <2>1. <<"event", e>> \in StoreItems
    BY <1>1, NamedIsThere
  <2>2. e \in Events
    BY <2>1 DEF StoreItems, In, Collection, Run
  <2>3. QED
    BY <2>2, StoreAssumption DEF StoreAssumption
<1>3. Members[Bound] \subseteq Files
  BY StoreAssumption DEF StoreAssumption
<1>4. QED
  BY <1>2, <1>3 DEF BundleFiles

LEMMA KeptIsOK == ArtifactOK(KeptBundle) /\ AckOK(KeptBundle)
<1>1. PICK call : call = [NoJob EXCEPT !.tool = "bundle", !.ack = TRUE, !.seen = Start,
                                       !.got = RunContents(RunChain(Start))]
  OBVIOUS
<1>2. call.tool = "bundle" /\ call.ack = TRUE /\ call.got = RunContents(RunChain(Start))
  BY <1>1 DEF NoJob
<1>3. PICK a : a = Bundle(call)
  OBVIOUS
<1>4. KeptBundle = [a EXCEPT !.verified = TRUE]
  BY <1>1, <1>3 DEF KeptBundle
<1>5. ArtifactOK(a) /\ AckOK(a) /\ a.tool = "bundle"
  BY <1>2, <1>3, StartFiles, BundleIsOK DEF Allowed
<1>6. QED
  BY <1>4, <1>5, VerifiedIsOK

LEMMA ArkStarts ==
  ASSUME ArkInit
  PROVE  ArkInv
<1>1. /\ DOMAIN job = Jobs /\ DOMAIN disk = Outputs /\ DOMAIN targets = Targets
  BY DEF ArkInit
<1>2. \A j \in Jobs : CallOK(job[j])
  <2>1. CallOK(NoJob)
    BY DEF CallOK, NoJob, Exports
  <2>2. QED
    BY <2>1 DEF ArkInit
<1>3. \A d \in Outputs : disk[d] = Nothing \/ (ArtifactOK(disk[d]) /\ AckOK(disk[d]))
  BY KeptIsOK DEF ArkInit
<1>4. \A t \in Targets : RecoveredOK(t)
  BY DEF ArkInit, RecoveredOK, Nothing
<1>5. QED
  BY <1>1, <1>2, <1>3, <1>4 DEF ArkInv

\* An output is never emptied, and a bundle stays one.
DiskGrows ==
  \A d \in Outputs : /\ disk[d] # Nothing => disk'[d] # Nothing
                     /\ disk[d].tool = "bundle" => disk'[d].tool = "bundle"

\* The job of a call that takes no step: the store and the outputs change under it.
LEMMA CallStays ==
  ASSUME NEW call, CallOK(call), Grows, DiskGrows
  PROVE  CallOK(call)'
<1>1. \A items : Lasting(items) \subseteq live => Lasting(items) \subseteq live'
  BY DEF Grows, Lasting
<1>2. Collection \in live => Collection \in live'
  BY DEF Grows, Lasting, Collection
<1>3. CollectedOK(call) => CollectedOK(call)'
  BY <1>1, <1>2 DEF CollectedOK
<1>4. call.at \in {"verify", "rebuild"} => call.out \in Outputs
  BY DEF CallOK
<1>5. call.at \in {"verify", "rebuild"} => disk'[call.out] # Nothing
  BY <1>4 DEF CallOK, DiskGrows
<1>6. call.tool = "bundle" /\ call.at = "verify" => disk'[call.out].tool = "bundle"
  BY <1>4 DEF CallOK, DiskGrows
<1>7. QED
  BY <1>3, <1>5, <1>6 DEF CallOK

LEMMA ArkStays ==
  ASSUME ArkInv, UNCHANGED arkVars, Grows
  PROVE  ArkInv'
<1>1. UNCHANGED <<disk, targets, job, started>>
  BY DEF arkVars
<1>2. \A j \in Jobs : CallOK(job[j])'
  <2>1. DiskGrows
    BY <1>1 DEF DiskGrows
  <2> SUFFICES ASSUME NEW j \in Jobs PROVE CallOK(job[j])'
    OBVIOUS
  <2>2. PICK call : call = job[j]
    OBVIOUS
  <2>3. CallOK(call)'
    BY <2>1, <2>2, CallStays DEF ArkInv
  <2>4. call = job'[j]
    BY <1>1, <2>2
  <2>5. QED
    BY <2>3, <2>4 DEF CallOK, CollectedOK
<1>3. QED
  BY <1>1, <1>2 DEF ArkInv, RecoveredOK

\* A step of a job that writes nothing.
LEMMA CallMoves ==
  ASSUME ArkInv, UNCHANGED <<live, disk, targets>>, NEW j \in Jobs, NEW call,
         job' = [job EXCEPT ![j] = call], CallOK(call)
  PROVE  ArkInv'
<1>1. DOMAIN job' = Jobs /\ job'[j] = call /\ \A k \in Jobs \ {j} : job'[k] = job[k]
  BY DEF ArkInv
<1>2. \A k \in Jobs : CallOK(job'[k])
  BY <1>1 DEF ArkInv
<1>3. \A k \in Jobs : CallOK(job[k])'
  BY <1>2 DEF CallOK, CollectedOK
<1>4. QED
  BY <1>1, <1>3 DEF ArkInv, RecoveredOK

\* A step of a job that writes an output.
LEMMA OutputMoves ==
  ASSUME ArkInv, UNCHANGED <<live, targets>>, NEW j \in Jobs, NEW call, NEW d \in Outputs, NEW a,
         job' = [job EXCEPT ![j] = call], disk' = [disk EXCEPT ![d] = a],
         ArtifactOK(a), AckOK(a), a # Nothing, disk[d].tool = "bundle" => a.tool = "bundle",
         CallOK(call)'
  PROVE  ArkInv'
<1>1. DOMAIN job' = Jobs /\ job'[j] = call /\ \A k \in Jobs \ {j} : job'[k] = job[k]
  BY DEF ArkInv
<1>2. DOMAIN disk' = Outputs /\ disk'[d] = a /\ \A o \in Outputs \ {d} : disk'[o] = disk[o]
  BY DEF ArkInv
<1>3. DiskGrows /\ Grows
  BY <1>2 DEF DiskGrows, Grows
<1>4. \A k \in Jobs : CallOK(job[k])'
  <2> SUFFICES ASSUME NEW k \in Jobs PROVE CallOK(job[k])'
    OBVIOUS
  <2>1. PICK other : other = job'[k]
    OBVIOUS
  <2>2. CallOK(other)'
    <3>1. CASE k = j
      BY <1>1, <2>1, <3>1
    <3>2. CASE k # j
      BY <1>1, <1>3, <2>1, <3>2, CallStays DEF ArkInv
    <3>3. QED
      BY <3>1, <3>2
  <2>3. QED
    BY <2>1, <2>2 DEF CallOK, CollectedOK
<1>5. \A o \in Outputs : disk'[o] = Nothing \/ (ArtifactOK(disk'[o]) /\ AckOK(disk'[o]))
  BY <1>2 DEF ArkInv
<1>6. \A o \in Outputs : (disk[o] = Nothing \/ (ArtifactOK(disk[o]) /\ AckOK(disk[o])))'
  BY <1>5 DEF ArtifactOK, PackageOK, BundleOK, AckOK
<1>7. QED
  BY <1>1, <1>2, <1>4, <1>6 DEF ArkInv, RecoveredOK

LEMMA LaunchAndAbandonKeep ==
  ASSUME ArkInv, UNCHANGED live, NEW j \in Jobs,
         \/ \E d \in Outputs, ack \in BOOLEAN : StartPackage(j, d, ack) \/ StartBundle(j, d, ack)
         \/ \E d \in Outputs, t \in Targets : StartRestore(j, d, t)
         \/ Abandon(j)
  PROVE  ArkInv'
<1>1. PICK none : none = NoJob
  OBVIOUS
<1>2. /\ DOMAIN none = {"tool", "at", "out", "target", "ack", "gated", "seen", "got", "next"}
      /\ none.tool = "none" /\ none.at = "idle" /\ none.got = {} /\ none.next = 0
  BY <1>1 DEF NoJob
<1>3. ASSUME NEW d \in Outputs, NEW ack, StartPackage(j, d, ack)
      PROVE  ArkInv'
  <2>1. PICK call : call = [none EXCEPT !.tool = "package", !.at = "privacy", !.out = d,
                                        !.ack = ack]
    OBVIOUS
  <2>2. job' = [job EXCEPT ![j] = call] /\ UNCHANGED <<disk, targets>>
    BY <1>1, <1>3, <2>1 DEF StartPackage, Launch
  <2>3. CallOK(call)
    BY <1>2, <2>1 DEF CallOK, Exports
  <2>4. QED
    BY <2>2, <2>3, CallMoves
<1>4. ASSUME NEW d \in Outputs, NEW ack, StartBundle(j, d, ack)
      PROVE  ArkInv'
  <2>1. PICK call : call = [none EXCEPT !.tool = "bundle", !.at = "verify_run", !.out = d,
                                        !.ack = ack]
    OBVIOUS
  <2>2. job' = [job EXCEPT ![j] = call] /\ UNCHANGED <<disk, targets>>
    BY <1>1, <1>4, <2>1 DEF StartBundle, Launch
  <2>3. CallOK(call)
    BY <1>2, <2>1 DEF CallOK, Exports
  <2>4. QED
    BY <2>2, <2>3, CallMoves
<1>5. ASSUME NEW d \in Outputs, NEW t \in Targets, StartRestore(j, d, t)
      PROVE  ArkInv'
  <2>1. PICK call : call = [none EXCEPT !.tool = "restore", !.at = "rebuild", !.out = d,
                                        !.target = t]
    OBVIOUS
  <2>2. job' = [job EXCEPT ![j] = call] /\ UNCHANGED <<disk, targets>>
    BY <1>1, <1>5, <2>1 DEF StartRestore, Launch
  <2>3. disk[d] # Nothing
    <3>1. disk[d].tool # "none"
      BY <1>5 DEF StartRestore, Exports
    <3>2. Nothing.tool = "none"
      BY DEF Nothing
    <3>3. QED
      BY <3>1, <3>2
  <2>4. CallOK(call)
    BY <1>2, <2>1, <2>3 DEF CallOK, Exports
  <2>5. QED
    BY <2>2, <2>4, CallMoves
<1>6. ASSUME Abandon(j)
      PROVE  ArkInv'
  <2>1. job' = [job EXCEPT ![j] = none] /\ UNCHANGED <<disk, targets>>
    BY <1>1, <1>6 DEF Abandon, Step
  <2>2. CallOK(none)
    BY <1>2 DEF CallOK, Exports
  <2>3. QED
    BY <2>1, <2>2, CallMoves
<1>7. QED
  BY <1>3, <1>4, <1>5, <1>6

LEMMA GateKeeps ==
  ASSUME LiveOK, ArkInv, UNCHANGED live, NEW j \in Jobs, GatePackage(j)
  PROVE  ArkInv'
<1>1. PICK old, rank, call :
        /\ old = job[j] /\ rank = StorePrivacy(live)
        /\ call = [old EXCEPT !.at = "validate", !.gated = rank]
  OBVIOUS
<1>2. /\ CallOK(old) /\ old.at = "privacy" /\ Allowed(old, rank)
      /\ job' = [job EXCEPT ![j] = call] /\ UNCHANGED <<disk, targets>>
  BY <1>1 DEF ArkInv, GatePackage, Step
<1>3. /\ DOMAIN call = DOMAIN old /\ call.tool = old.tool /\ call.at = "validate"
      /\ call.out = old.out /\ call.target = old.target /\ call.ack = old.ack
      /\ call.gated = rank /\ call.got = old.got /\ call.next = old.next
  BY <1>1, <1>2 DEF CallOK
<1>4. rank \in Ranks
  BY <1>1, StorePrivacyIs DEF LiveOK, Ranks
<1>5. CallOK(call)
  BY <1>2, <1>3, <1>4 DEF CallOK, Exports, Allowed
<1>6. QED
  BY <1>2, <1>5, CallMoves

LEMMA ValidateKeeps ==
  ASSUME LiveOK, ArkInv, UNCHANGED live, NEW j \in Jobs, ValidateSource(j)
  PROVE  ArkInv'
<1>1. PICK old, seen, call :
        /\ old = job[j] /\ seen = live
        /\ call = [old EXCEPT !.at = "collect", !.seen = seen, !.next = 1]
  OBVIOUS
<1>2. /\ CallOK(old) /\ old.at = "validate"
      /\ job' = [job EXCEPT ![j] = call] /\ UNCHANGED <<disk, targets>>
  BY <1>1 DEF ArkInv, ValidateSource, Step
<1>3. /\ DOMAIN call = DOMAIN old /\ call.tool = old.tool /\ call.at = "collect"
      /\ call.out = old.out /\ call.target = old.target /\ call.ack = old.ack
      /\ call.gated = old.gated /\ call.seen = seen /\ call.got = old.got /\ call.next = 1
  BY <1>1, <1>2 DEF CallOK
<1>4. CollectedOK(call)
  <2>1. seen \subseteq StoreItems /\ Lasting(seen) \subseteq live
    BY <1>1 DEF LiveOK, Lasting
  <2>2. call.got = {}
    BY <1>2, <1>3 DEF CallOK
  <2>3. Lasting({}) = {}
    BY DEF Lasting
  <2>4. QED
    BY <1>3, <2>1, <2>2, <2>3 DEF CollectedOK
<1>5. CallOK(call)
  BY <1>2, <1>3, <1>4 DEF CallOK, Exports, Allowed
<1>6. QED
  BY <1>2, <1>5, CallMoves

LEMMA RegistriesAre ==
  /\ Len(Registries) = 10
  /\ \A i \in StoreItems : \E n \in 1..10 : i[1] = Registries[n]
<1>1. /\ Len(Registries) = 10
      /\ Registries[1] = "object" /\ Registries[2] = "file" /\ Registries[3] = "run"
      /\ Registries[4] = "event" /\ Registries[5] = "run-head" /\ Registries[6] = "replay"
      /\ Registries[7] = "report" /\ Registries[8] = "collection" /\ Registries[9] = "head"
      /\ Registries[10] = "snapshot"
  BY DEF Registries
<1>2. \A i \in StoreItems :
        i[1] \in {"object", "file", "run", "event", "run-head", "replay", "report", "collection",
                  "head", "snapshot"}
  BY DEF StoreItems, In, Collection, Run
<1>3. QED
  BY <1>1, <1>2

LEMMA CollectKeeps ==
  ASSUME LiveOK, ArkInv, UNCHANGED live, NEW j \in Jobs, CollectRegistry(j)
  PROVE  ArkInv'
<1>1. PICK old, registry, added, all :
        /\ old = job[j] /\ registry = Registries[old.next]
        /\ added = In(registry, Names(live, registry)) /\ all = old.got \cup added
  OBVIOUS
<1>2. PICK call :
        /\ call = IF old.next = Len(Registries)
                  THEN [[old EXCEPT !.next = @ + 1, !.got = all]
                          EXCEPT !.at = "promote", !.next = 0]
                  ELSE [old EXCEPT !.next = @ + 1, !.got = all]
        /\ job' = [job EXCEPT ![j] = call]
  <2>1. PICK call :
          call = IF old.next = Len(Registries)
                 THEN [[old EXCEPT !.next = @ + 1, !.got = all]
                         EXCEPT !.at = "promote", !.next = 0]
                 ELSE [old EXCEPT !.next = @ + 1, !.got = all]
    OBVIOUS
  <2>2. job' = [job EXCEPT ![j] = call]
    BY <1>1, <2>1 DEF CollectRegistry, Step
  <2>3. QED
    BY <2>1, <2>2
<1>3. /\ CallOK(old) /\ old.tool = "package" /\ old.at = "collect"
      /\ UNCHANGED <<disk, targets>>
  BY <1>1 DEF ArkInv, CollectRegistry
<1>4. CollectedOK(old) /\ old.next \in 1..10 /\ Len(Registries) = 10
  BY <1>3, RegistriesAre DEF CallOK
<1>5. /\ added \subseteq live
      /\ \A i \in live : i[1] = registry => i \in added
  <2>1. \A i \in added : i \in live
    BY <1>1, NamedIsThere DEF In, LiveOK
  <2>2. ASSUME NEW i \in live, i[1] = registry PROVE i \in added
    <3>1. i = <<registry, i[2]>>
      BY <2>2, ItemIs DEF LiveOK
    <3>2. i[2] \in Names(live, registry)
      BY <2>2, NamesIn DEF Names
    <3>3. QED
      BY <1>1, <3>1, <3>2 DEF In
  <2>3. QED
    BY <2>1, <2>2
<1>6. /\ DOMAIN call = DOMAIN old /\ call.tool = old.tool
      /\ call.out = old.out /\ call.target = old.target /\ call.ack = old.ack
      /\ call.gated = old.gated /\ call.seen = old.seen /\ call.got = all
      /\ IF old.next = 10 THEN call.at = "promote" /\ call.next = 0
                          ELSE call.at = "collect" /\ call.next = old.next + 1
  BY <1>2, <1>3, <1>4 DEF CallOK
<1>7. CollectedOK(call)
  <2>1. call.got \subseteq StoreItems /\ Lasting(call.got) \subseteq live
    BY <1>1, <1>4, <1>5, <1>6 DEF CollectedOK, Lasting, LiveOK
  <2>2. (\E i \in call.got : i[1] \in {"collection", "head", "snapshot"}) => Collection \in live
    <3>1. \A i \in live : i[1] = "collection" => i = Collection
      BY DEF LiveOK, StoreItems, In, Collection, Run
    <3>2. \A i \in live : i[1] \in {"collection", "head", "snapshot"} => Collection \in live
      BY <3>1 DEF LiveOK
    <3>3. QED
      BY <1>1, <1>4, <1>5, <1>6, <3>2 DEF CollectedOK
  <2>3. \A n \in 1..10 : n < old.next + 1 =>
          \A i \in Lasting(old.seen) : i[1] = Registries[n] => i \in all
    <3> SUFFICES ASSUME NEW n \in 1..10, n < old.next + 1, NEW i \in Lasting(old.seen),
                        i[1] = Registries[n]
                 PROVE  i \in all
      OBVIOUS
    <3>1. n < old.next \/ n = old.next
      BY <1>4
    <3>2. CASE n < old.next
      BY <1>1, <1>3, <1>4, <3>2 DEF CollectedOK
    <3>3. CASE n = old.next
      BY <1>1, <1>4, <1>5, <3>3 DEF CollectedOK
    <3>4. QED
      BY <3>1, <3>2, <3>3
  <2>4. call.at = "promote" => Lasting(call.seen) \subseteq call.got
    <3> SUFFICES ASSUME old.next = 10, NEW i \in Lasting(old.seen) PROVE i \in all
      BY <1>6
    <3>1. i \in StoreItems
      BY <1>4 DEF CollectedOK, Lasting
    <3>2. PICK n \in 1..10 : i[1] = Registries[n]
      BY <3>1, RegistriesAre
    <3>3. n < old.next + 1
      BY <1>4
    <3>4. QED
      BY <2>3, <3>2, <3>3
  <2>5. call.at = "collect" => call.next = old.next + 1
    BY <1>6
  <2>6. QED
    BY <1>4, <1>6, <2>1, <2>2, <2>3, <2>4, <2>5 DEF CollectedOK
<1>8. call.at \in {"promote", "collect"} /\ call.next \in 0..10
      /\ (call.at = "collect" => call.next \in 1..10)
  BY <1>4, <1>6
<1>9. CallOK(call)
  BY <1>3, <1>6, <1>7, <1>8 DEF CallOK, Exports, Allowed
<1>10. QED
  BY <1>2, <1>3, <1>9, CallMoves

LEMMA PromoteKeeps ==
  ASSUME LiveOK, ArkInv, UNCHANGED live, NEW j \in Jobs, PromotePackage(j)
  PROVE  ArkInv'
<1>1. PICK old, entries, a, call :
        /\ old = job[j] /\ entries = Entries(old.got, old.seen)
        /\ a = Artifact(old, Capsules(entries), Rows(entries), StorePrivacy(old.seen))
        /\ call = [old EXCEPT !.at = "verify"]
  OBVIOUS
<1>2. /\ CallOK(old) /\ old.tool = "package" /\ old.at = "promote" /\ disk[old.out] = Nothing
      /\ job' = [job EXCEPT ![j] = call] /\ disk' = [disk EXCEPT ![old.out] = a]
      /\ UNCHANGED targets
  BY <1>1 DEF ArkInv, PromotePackage, Step
<1>3. CollectedOK(old) /\ old.out \in Outputs /\ old.gated \in Ranks /\ Allowed(old, old.gated)
      /\ Lasting(old.seen) \subseteq old.got
  BY <1>2 DEF CallOK, CollectedOK
<1>4. PICK capsules, rows, rank :
        capsules = Capsules(entries) /\ rows = Rows(entries) /\ rank = StorePrivacy(old.seen)
  OBVIOUS
<1>5. a = Artifact(old, capsules, rows, rank)
  BY <1>1, <1>4
<1>6. /\ DOMAIN a = {"tool", "capsules", "listed", "fingerprint", "privacy", "ack", "verified",
                     "gated", "from", "to"}
      /\ a.tool = "package" /\ a.capsules = capsules /\ a.listed = capsules /\ a.privacy = rank
      /\ a.ack = old.ack /\ a.verified = FALSE /\ a.gated = old.gated /\ a.from = old.seen
      /\ a.to = live
  BY <1>2, <1>5 DEF Artifact
<1>7. /\ \A x \in EntriesOf(a) : x.data \in old.got /\ x.privacy = Label(old.seen, x.data)
      /\ ItemsOf(a) = old.got
  BY <1>1, <1>4, <1>6, PackageHolds
<1>8. rank \in {Internal, Restricted}
  BY <1>3, <1>4, StorePrivacyIs DEF CollectedOK
<1>9. PackageOK(a)
  BY <1>3, <1>6, <1>7 DEF PackageOK, CollectedOK
<1>10. ArtifactOK(a)
  BY <1>6, <1>8, <1>9 DEF ArtifactOK, Exports
<1>11. AckOK(a)
  <2> SUFFICES ASSUME NEW x \in EntriesOf(a), x.privacy = Restricted
               PROVE  a.ack \/ (a.gated < Restricted /\ StorePrivacy(a.to) = Restricted)
    BY <1>6 DEF AckOK
  <2>1. StorePrivacy(live) = Restricted
    BY <1>3, <1>7, PackageLabels
  <2>2. old.ack \/ old.gated < Restricted
    BY <1>3 DEF Allowed, Ranks, Internal, Restricted
  <2>3. QED
    BY <1>6, <2>1, <2>2
<1>12. a # Nothing
  BY <1>6 DEF Nothing
<1>13. /\ DOMAIN call = DOMAIN old /\ call.tool = "package" /\ call.at = "verify"
       /\ call.out = old.out /\ call.next = old.next
  BY <1>1, <1>2 DEF CallOK
<1>14. CallOK(call)'
  <2>1. disk'[call.out] # Nothing
    BY <1>2, <1>3, <1>12, <1>13 DEF ArkInv
  <2>2. QED
    BY <1>2, <1>3, <1>13, <2>1 DEF CallOK, Exports
<1>15. disk[old.out].tool # "bundle"
  BY <1>2 DEF Nothing
<1>16. QED
  BY <1>2, <1>3, <1>10, <1>11, <1>12, <1>14, <1>15, OutputMoves

\* Both verifications: what they find is written down and the job ends.
LEMMA VerifyKeeps ==
  ASSUME ArkInv, UNCHANGED live, NEW j \in Jobs, VerifyPackage(j) \/ VerifyBundle(j)
  PROVE  ArkInv'
<1>1. PICK old, d, a : old = job[j] /\ d = old.out /\ a = disk[d]
  OBVIOUS
<1>2. CallOK(old) /\ old.at = "verify" /\ old.tool \in Exports /\ UNCHANGED targets
      /\ job' = [job EXCEPT ![j] = NoJob]
  BY <1>1 DEF ArkInv, VerifyPackage, VerifyBundle, Step, Exports
<1>3. d \in Outputs /\ a # Nothing
  BY <1>1, <1>2 DEF CallOK, Exports
<1>4. ArtifactOK(a) /\ AckOK(a)
  BY <1>1, <1>3 DEF ArkInv
<1>5. PICK x : /\ disk' = [disk EXCEPT ![d].verified = x]
               /\ a.tool = "package" /\ x => ValidStore(ItemsOf(a))
  <2>1. CASE VerifyPackage(j)
    <3>1. PICK x : x = PackageRebuilds(a)
      OBVIOUS
    <3>2. disk' = [disk EXCEPT ![d].verified = x]
      BY <1>1, <2>1, <3>1 DEF VerifyPackage
    <3>3. a.tool = "package" /\ x => ValidStore(ItemsOf(a))
      BY <3>1 DEF PackageRebuilds
    <3>4. QED
      BY <3>2, <3>3, Zenon
  <2>2. CASE VerifyBundle(j)
    <3>1. PICK x : x = BundleRebuilds(a)
      OBVIOUS
    <3>2. disk' = [disk EXCEPT ![d].verified = x]
      BY <1>1, <2>2, <3>1 DEF VerifyBundle
    <3>3. a.tool = "bundle"
      BY <1>1, <1>2, <2>2 DEF CallOK, VerifyBundle
    <3>4. QED
      BY <3>2, <3>3
  <2>3. QED
    BY <2>1, <2>2
<1>6. PICK b : b = [a EXCEPT !.verified = x]
  OBVIOUS
<1>7. disk' = [disk EXCEPT ![d] = b]
  BY <1>1, <1>5, <1>6
<1>8. ArtifactOK(b) /\ AckOK(b) /\ b.tool = a.tool /\ b # Nothing
  BY <1>4, <1>5, <1>6, VerifiedIsOK
<1>9. PICK call : call = NoJob
  OBVIOUS
<1>10. CallOK(call)'
  BY <1>9 DEF CallOK, NoJob, Exports
<1>11. job' = [job EXCEPT ![j] = call]
  BY <1>2, <1>9
<1>12. QED
  BY <1>1, <1>2, <1>3, <1>7, <1>8, <1>10, <1>11, OutputMoves

LEMMA BundleStepsKeep ==
  ASSUME LiveOK, ArkInv, UNCHANGED live, NEW j \in Jobs, FingerprintRun(j) \/ CollectRun(j)
  PROVE  ArkInv'
<1>1. PICK old : old = job[j]
  OBVIOUS
<1>2. CallOK(old) /\ old.tool = "bundle" /\ UNCHANGED <<disk, targets>>
  BY <1>1 DEF ArkInv, FingerprintRun, CollectRun
<1>3. CASE FingerprintRun(j)
  <2>1. PICK seen, call : seen = live /\ call = [old EXCEPT !.at = "collect", !.seen = seen]
    OBVIOUS
  <2>2. job' = [job EXCEPT ![j] = call]
    BY <1>1, <1>3, <2>1 DEF FingerprintRun, Step
  <2>3. /\ DOMAIN call = DOMAIN old /\ call.tool = "bundle" /\ call.at = "collect"
        /\ call.out = old.out /\ call.next = old.next
    BY <1>2, <2>1 DEF CallOK
  <2>4. CallOK(call)
    BY <1>2, <2>3 DEF CallOK, Exports
  <2>5. QED
    BY <1>2, <2>2, <2>4, CallMoves
<1>4. CASE CollectRun(j)
  <2>1. PICK events, got, call :
          /\ events = RunChain(live) /\ got = RunContents(events)
          /\ call = [old EXCEPT !.at = "write", !.got = got]
    OBVIOUS
  <2>2. job' = [job EXCEPT ![j] = call] /\ Readable(live, BundleFiles(events))
    BY <1>1, <1>4, <2>1 DEF CollectRun, Step
  <2>3. BundleFiles(events) \subseteq Files
    <3> SUFFICES ASSUME NEW f \in BundleFiles(events) PROVE f \in Files
      OBVIOUS
    <3>1. f \in Names(live, "file")
      BY <2>2 DEF Readable
    <3>2. <<"file", f>> \in StoreItems
      BY <3>1, NamedIsThere DEF LiveOK
    <3>3. QED
      BY <3>2 DEF StoreItems, In, Collection, Run
  <2>4. /\ DOMAIN call = DOMAIN old /\ call.tool = "bundle" /\ call.at = "write"
        /\ call.out = old.out /\ call.next = old.next /\ call.got = RunContents(events)
    BY <1>2, <2>1 DEF CallOK
  <2>5. CallOK(call)
    BY <1>2, <2>3, <2>4 DEF CallOK, Exports
  <2>6. QED
    BY <1>2, <2>2, <2>5, CallMoves
<1>5. QED
  BY <1>3, <1>4

LEMMA WriteBundleKeeps ==
  ASSUME ArkInv, UNCHANGED live, NEW j \in Jobs, WriteBundle(j)
  PROVE  ArkInv'
<1>1. PICK old, a, call :
        /\ old = job[j] /\ a = Bundle(old) /\ call = [old EXCEPT !.at = "verify"]
  OBVIOUS
<1>2. /\ CallOK(old) /\ old.at = "write" /\ Allowed(old, BundlePrivacy(old))
      /\ job' = [job EXCEPT ![j] = call] /\ disk' = [disk EXCEPT ![old.out] = a]
      /\ UNCHANGED targets
  BY <1>1 DEF ArkInv, WriteBundle, Step
<1>3. PICK events : old.got = RunContents(events) /\ BundleFiles(events) \subseteq Files
  BY <1>2 DEF CallOK
<1>4. old.tool = "bundle" /\ old.out \in Outputs
  BY <1>2 DEF CallOK
<1>5. ArtifactOK(a) /\ AckOK(a) /\ a.tool = "bundle" /\ a # Nothing
  BY <1>1, <1>2, <1>3, <1>4, BundleIsOK
<1>6. /\ DOMAIN call = DOMAIN old /\ call.tool = "bundle" /\ call.at = "verify"
      /\ call.out = old.out /\ call.next = old.next
  BY <1>1, <1>2, <1>4 DEF CallOK
<1>7. CallOK(call)'
  <2>1. disk'[call.out] = a
    BY <1>2, <1>4, <1>6 DEF ArkInv
  <2>2. QED
    BY <1>2, <1>4, <1>5, <1>6, <2>1 DEF CallOK, Exports
<1>8. QED
  BY <1>2, <1>4, <1>5, <1>7, OutputMoves

\* An artifact read back without a capsule, or with one section spoiled.
LEMMA ReadingIs ==
  ASSUME NEW a, ArtifactOK(a), NEW b \in Readings(a)
  PROVE  /\ b.tool = a.tool /\ b.listed = a.listed /\ b.fingerprint = a.fingerprint
         /\ b.from = a.from /\ b.to = a.to
         /\ a.tool = "bundle" => BundleOK(b)
<1>1. PICK capsules :
        /\ b = a \/ b = [a EXCEPT !.capsules = capsules]
        /\ \A c \in capsules :
             \/ c \in a.capsules
             \/ \E o \in a.capsules : \E p : c = [o EXCEPT !.payload[p] = Spoiled]
  <2>1. \/ b = a
        \/ \E c \in a.capsules : b = [a EXCEPT !.capsules = @ \ {c}]
        \/ \E c \in a.capsules : \E p \in DOMAIN c.payload :
             b = [a EXCEPT !.capsules = (@ \ {c}) \cup {[c EXCEPT !.payload[p] = Spoiled]}]
    BY DEF Readings
  <2>2. CASE b = a
    <3>1. PICK capsules : capsules = a.capsules
      OBVIOUS
    <3>2. QED
      BY <2>2, <3>1
  <2>3. ASSUME NEW c \in a.capsules, b = [a EXCEPT !.capsules = @ \ {c}]
        PROVE  \E capsules :
                 /\ b = a \/ b = [a EXCEPT !.capsules = capsules]
                 /\ \A x \in capsules :
                      \/ x \in a.capsules
                      \/ \E o \in a.capsules : \E p : x = [o EXCEPT !.payload[p] = Spoiled]
    <3>1. PICK capsules : capsules = a.capsules \ {c}
      OBVIOUS
    <3>2. QED
      BY <2>3, <3>1
  <2>4. ASSUME NEW c \in a.capsules, NEW p \in DOMAIN c.payload,
               b = [a EXCEPT !.capsules = (@ \ {c}) \cup {[c EXCEPT !.payload[p] = Spoiled]}]
        PROVE  \E capsules :
                 /\ b = a \/ b = [a EXCEPT !.capsules = capsules]
                 /\ \A x \in capsules :
                      \/ x \in a.capsules
                      \/ \E o \in a.capsules : \E q : x = [o EXCEPT !.payload[q] = Spoiled]
    <3>1. PICK spoiled : spoiled = [c EXCEPT !.payload[p] = Spoiled]
      OBVIOUS
    <3>2. PICK capsules : capsules = (a.capsules \ {c}) \cup {spoiled}
      OBVIOUS
    <3>3. b = [a EXCEPT !.capsules = capsules]
      BY <2>4, <3>1, <3>2
    <3>4. \A x \in capsules : x \in a.capsules \/ x = spoiled
      BY <3>2
    <3>5. QED
      BY <3>1, <3>3, <3>4
  <2>5. QED
    BY <2>1, <2>2, <2>3, <2>4
<1>2. /\ b.tool = a.tool /\ b.listed = a.listed /\ b.fingerprint = a.fingerprint
      /\ b.from = a.from /\ b.to = a.to
      /\ b.capsules = a.capsules \/ b.capsules = capsules
  BY <1>1 DEF ArtifactOK
<1>3. ASSUME a.tool = "bundle" PROVE BundleOK(b)
  <2>1. BundleOK(a)
    BY <1>3 DEF ArtifactOK
  <2>2. ASSUME NEW o \in a.capsules, NEW p, NEW c, c = [o EXCEPT !.payload[p] = Spoiled]
        PROVE  /\ DOMAIN c = {"rows", "order", "payload"}
               /\ \A r \in c.rows : r.path \in DOMAIN c.payload
               /\ \A q \in DOMAIN c.payload : c.payload[q][1] # "head"
    <3>1. PICK payload : payload = [o.payload EXCEPT ![p] = Spoiled]
      OBVIOUS
    <3>2. c = [o EXCEPT !.payload = payload]
      BY <2>2, <3>1
    <3>3. DOMAIN c = DOMAIN o /\ c.payload = payload /\ c.rows = o.rows
      BY <2>1, <3>2 DEF BundleOK
    <3>4. /\ DOMAIN payload = DOMAIN o.payload
          /\ \A q \in DOMAIN payload : payload[q] = Spoiled \/ payload[q] = o.payload[q]
      BY <3>1
    <3>5. Spoiled[1] # "head"
      BY DEF Spoiled
    <3>6. QED
      BY <2>1, <3>3, <3>4, <3>5 DEF BundleOK
  <2>3. QED
    BY <1>1, <1>2, <2>1, <2>2 DEF BundleOK
<1>4. QED
  BY <1>2, <1>3

LEMMA RebuildKeeps ==
  ASSUME ArkInv, UNCHANGED live, NEW j \in Jobs, Rebuild(j)
  PROVE  ArkInv'
<1>1. PICK old, a, t, call : /\ old = job[j] /\ a = disk[old.out] /\ t = old.target
                             /\ call = NoJob
  OBVIOUS
<1>2. PICK b \in Readings(a) :
        /\ Rebuilds(b)
        /\ targets' = [targets EXCEPT ![t] =
             [tool |-> b.tool, store |-> RebuiltStore(b), from |-> b.from, to |-> b.to]]
  BY <1>1 DEF Rebuild
<1>3. /\ CallOK(old) /\ old.at = "rebuild" /\ UNCHANGED disk
      /\ job' = [job EXCEPT ![j] = call]
  BY <1>1 DEF ArkInv, Rebuild, Step
<1>4. old.out \in Outputs /\ t \in Targets /\ a # Nothing
  BY <1>1, <1>3 DEF CallOK
<1>5. ArtifactOK(a)
  BY <1>1, <1>4 DEF ArkInv
<1>6. /\ b.tool = a.tool /\ b.listed = a.listed /\ b.fingerprint = a.fingerprint
      /\ b.from = a.from /\ b.to = a.to
      /\ a.tool = "bundle" => BundleOK(b)
  BY <1>5, ReadingIs
<1>7. PICK store, new : /\ store = RebuiltStore(b)
                        /\ new = [tool |-> b.tool, store |-> store, from |-> b.from, to |-> b.to]
  OBVIOUS
<1>8. ASSUME b.tool = "package"
      PROVE  LiesBetween(store, b.from, b.to)
  <2>1. PackageRebuilds(b) /\ PackageOK(a)
    BY <1>2, <1>5, <1>6, <1>8 DEF Rebuilds, ArtifactOK
  <2>2. b.capsules = a.capsules
    BY <1>6, <2>1 DEF PackageRebuilds, CapsulesIntact, PackageOK
  <2>3. ItemsOf(b) = ItemsOf(a)
    BY <2>2 DEF ItemsOf, EntriesOf
  <2>4. store = ItemsOf(b) /\ ValidStore(ItemsOf(b))
    BY <1>7, <1>8, <2>1 DEF RebuiltStore, PackageRebuilds
  <2>5. LiesBetween(store, b.from, b.to)
    BY <1>6, <2>1, <2>3, <2>4 DEF LiesBetween, PackageOK
  <2>6. QED
    BY <2>5
<1>9. ASSUME b.tool = "bundle"
      PROVE  IsRunRead(store, b.from)
  <2>1. BundleRebuilds(b) /\ BundleOK(b) /\ store = RebuiltRun(b)
    BY <1>2, <1>6, <1>7, <1>9 DEF Rebuilds, RebuiltStore
  <2>2. VerifiesRun(store) /\ RunChain(store) = RunChain(b.from)
    BY <2>1 DEF BundleRebuilds, BundleOK
  <2>3. \A i \in ItemsOf(b) : i[1] # "head"
    <3>1. ASSUME NEW x \in EntriesOf(b) PROVE x.data[1] # "head"
      <4>1. PICK c \in b.capsules : x \in ParsedEntries(c)
        BY DEF EntriesOf
      <4>2. PICK r \in c.rows : x.data = c.payload[r.path]
        BY <4>1 DEF ParsedEntries
      <4>3. QED
        BY <2>1, <4>1, <4>2 DEF BundleOK
    <3>2. QED
      BY <3>1 DEF ItemsOf
  <2>4. Names(store, "head") = {Bound}
    <3>1. PICK last : store = ItemsOf(b) \cup {<<"head", Bound>>, <<"run-head", last>>}
      BY <2>1 DEF RebuiltRun
    <3>2. Bound \in Names(store, "head")
      BY <3>1, NamesIn
    <3>3. ASSUME NEW n \in Names(store, "head") PROVE n = Bound
      <4>1. PICK i \in store : i[1] = "head" /\ i[2] = n
        BY NamesIn
      <4>2. QED
        BY <2>3, <3>1, <4>1
    <3>4. QED
      BY <3>2, <3>3
  <2>5. IsRunRead(store, b.from)
    BY <2>2, <2>4 DEF IsRunRead
  <2>6. QED
    BY <2>5
<1>10. /\ new.tool \in Exports
       /\ new.tool = "package" => LiesBetween(new.store, new.from, new.to)
       /\ new.tool = "bundle" => IsRunRead(new.store, new.from)
  <2>1. b.tool \in Exports
    BY <1>5, <1>6 DEF ArtifactOK
  <2>2. /\ b.tool = "package" => LiesBetween(store, b.from, b.to)
        /\ b.tool = "bundle" => IsRunRead(store, b.from)
    BY <1>7, <1>8, <1>9
  <2>3. QED
    BY <1>7, <2>1, <2>2
<1>11. \A s \in Targets : RecoveredOK(s)'
  <2>1. /\ targets'[t] = new /\ DOMAIN targets' = Targets
        /\ \A s \in Targets \ {t} : targets'[s] = targets[s]
    BY <1>2, <1>4, <1>7 DEF ArkInv
  <2>2. QED
    BY <1>10, <2>1 DEF ArkInv, RecoveredOK
<1>12. DOMAIN targets' = Targets
  BY <1>2 DEF ArkInv
<1>13. CallOK(call)
  BY <1>1 DEF CallOK, NoJob, Exports
<1>14. /\ DOMAIN job' = Jobs /\ \A k \in Jobs : CallOK(job'[k])
  BY <1>3, <1>13 DEF ArkInv
<1>15. \A k \in Jobs : CallOK(job[k])'
  BY <1>3, <1>14 DEF CallOK, CollectedOK
<1>16. QED
  BY <1>3, <1>11, <1>12, <1>14, <1>15 DEF ArkInv

LEMMA ArkKeeps ==
  ASSUME LiveOK, ArkInv, UNCHANGED live, ArkNext
  PROVE  ArkInv'
BY LaunchAndAbandonKeep, GateKeeps, ValidateKeeps, CollectKeeps, PromoteKeeps, VerifyKeeps,
   BundleStepsKeep, WriteBundleKeeps, RebuildKeeps DEF ArkNext

\* An artifact with a RESTRICTED entry and no acknowledgement is a package, and its
\* store was not RESTRICTED yet when the export was checked: the way in which
\* RestrictedExportsAcknowledged fails (source_privacy_class, command_export) is the
\* only one.
OnlyLateRestrictionsEscape ==
  \A d \in Outputs :
    disk[d].tool # "none" /\ (\E e \in EntriesOf(disk[d]) : e.privacy = Restricted)
      => \/ disk[d].ack
         \/ /\ disk[d].tool = "package"
            /\ disk[d].gated < Restricted
            /\ StorePrivacy(disk[d].to) = Restricted

LEMMA ArkSafe ==
  ASSUME LiveOK, ArkInv
  PROVE  ArkTypeOK /\ RecoveriesAreSound /\ OnlyLateRestrictionsEscape
<1>1. \A d \in Outputs : /\ disk[d].tool \in Exports \cup {"none"}
                         /\ disk[d] # Nothing => disk[d].privacy \in {Internal, Restricted}
  BY DEF ArkInv, ArtifactOK, Nothing
<1>2. \A t \in Targets : targets[t].tool \in Exports \cup {"none"}
  BY DEF ArkInv, RecoveredOK
<1>3. \A j \in Jobs : /\ job[j].at = "idle" <=> job[j].tool = "none"
                      /\ job[j].tool \in Exports \cup {"restore", "none"}
                      /\ job[j].next \in 0..Len(Registries)
  BY RegistriesAre DEF ArkInv, CallOK
<1>4. ArkTypeOK
  BY <1>1, <1>2, <1>3 DEF ArkTypeOK, LiveOK
<1>5. ASSUME NEW d \in Outputs, disk[d].tool = "package", disk[d].verified
      PROVE  LiesBetween(ItemsOf(disk[d]), disk[d].from, disk[d].to)
  <2>1. PICK a : a = disk[d]
    OBVIOUS
  <2>2. PackageOK(a)
    BY <1>5, <2>1 DEF ArkInv, ArtifactOK, Nothing
  <2>3. LiesBetween(ItemsOf(a), a.from, a.to)
    BY <1>5, <2>1, <2>2 DEF PackageOK, LiesBetween
  <2>4. QED
    BY <2>1, <2>3
<1>6. RecoveriesAreSound
  BY <1>5 DEF RecoveriesAreSound, ArkInv, RecoveredOK
<1>7. OnlyLateRestrictionsEscape
  <2> SUFFICES ASSUME NEW d \in Outputs
               PROVE  disk[d].tool # "none" /\ (\E e \in EntriesOf(disk[d]) : e.privacy = Restricted)
                        => \/ disk[d].ack
                           \/ /\ disk[d].tool = "package"
                              /\ disk[d].gated < Restricted
                              /\ StorePrivacy(disk[d].to) = Restricted
    BY DEF OnlyLateRestrictionsEscape
  <2>1. disk[d].tool = "none" \/ AckOK(disk[d])
    BY DEF ArkInv, Nothing
  <2>2. QED
    BY <2>1 DEF AckOK
<1>8. QED
  BY <1>4, <1>6, <1>7

-----------------------------------------------------------------------------
(* The tools together                                                      *)

IInv == LiveOK /\ ArkInv /\ PortableInv /\ ConsensusInv

LEMMA InitOK == Init => IInv
<1> SUFFICES ASSUME Init PROVE IInv
  OBVIOUS
<1>1. live = Start /\ ArkInit /\ PortableInit /\ ConsensusInit
  BY DEF Init
<1>2. QED
  BY <1>1, LiveInit, ArkStarts, PortableStarts, ConsensusStarts DEF IInv

\* The recovery tools read the store and never write it.
LEMMA ToolsOnlyRead ==
  ASSUME ArkNext
  PROVE  UNCHANGED live
BY DEF ArkNext, StartPackage, StartBundle, StartRestore, Launch, GatePackage, ValidateSource,
       CollectRegistry, PromotePackage, VerifyPackage, FingerprintRun, CollectRun, WriteBundle,
       VerifyBundle, Rebuild, Abandon, Step

LEMMA UntouchedStays ==
  ASSUME UNCHANGED live
  PROVE  Grows /\ (LiveOK => LiveOK')
BY DEF Grows, LiveOK, Readable, Names

LEMMA IInvStep == IInv /\ [Next]_vars => IInv'
<1> SUFFICES ASSUME IInv, [Next]_vars PROVE IInv'
  OBVIOUS
<1>1. LiveOK /\ ArkInv /\ PortableInv /\ ConsensusInv
  BY DEF IInv
<1>2. CASE ClientsWrite
  <2>1. LiveOK' /\ Grows
    BY <1>1, <1>2, LiveStays DEF ClientsWrite
  <2>2. UNCHANGED arkVars /\ UNCHANGED portableVars /\ UNCHANGED consensusVars
    BY <1>2 DEF ClientsWrite
  <2>3. QED
    BY <1>1, <2>1, <2>2, ArkStays, PortableStays, ConsensusStays DEF IInv
<1>3. CASE RecoveryStep
  <2>1. UNCHANGED live /\ UNCHANGED portableVars /\ UNCHANGED consensusVars
    BY <1>3, ToolsOnlyRead DEF RecoveryStep
  <2>2. ArkInv'
    BY <1>1, <1>3, <2>1, ArkKeeps DEF RecoveryStep
  <2>3. QED
    BY <1>1, <2>1, <2>2, UntouchedStays, PortableStays, ConsensusStays DEF IInv
<1>4. CASE PortableStep
  <2>1. UNCHANGED live /\ UNCHANGED arkVars /\ UNCHANGED consensusVars
    BY <1>4 DEF PortableStep
  <2>2. PortableInv'
    BY <1>1, <1>4, PortableKeeps DEF PortableStep
  <2>3. QED
    BY <1>1, <2>1, <2>2, UntouchedStays, ArkStays, ConsensusStays DEF IInv
<1>5. CASE ConsensusStep
  <2>1. UNCHANGED live /\ UNCHANGED arkVars /\ UNCHANGED portableVars
    BY <1>5 DEF ConsensusStep
  <2>2. ConsensusInv'
    BY <1>1, <1>5, <2>1, ConsensusKeeps DEF ConsensusStep
  <2>3. QED
    BY <1>1, <2>1, <2>2, UntouchedStays, ArkStays, PortableStays DEF IInv
<1>6. CASE UNCHANGED vars
  <2>1. /\ UNCHANGED live /\ UNCHANGED arkVars
        /\ UNCHANGED portableVars /\ UNCHANGED consensusVars
    BY <1>6 DEF vars
  <2>2. QED
    BY <1>1, <2>1, UntouchedStays, ArkStays, PortableStays, ConsensusStays DEF IInv
<1>7. QED
  BY <1>2, <1>3, <1>4, <1>5, <1>6 DEF Next

\* The inductive invariant: what each tool holds at each of its steps, and what of
\* it stays true of the store whatever the clients write (build_ark_bundle,
\* build_repository_recovery_package, build_bundle, verify_bundle, propose).
THEOREM ToolsInvariant == Spec => []IInv
<1>1. Init => IInv
  BY InitOK
<1>2. IInv /\ [Next]_vars => IInv'
  BY IInvStep
<1>3. QED
  BY <1>1, <1>2, PTL DEF Spec

\* Every variable has its type; in particular a path of the portable tree can be
\* read as one thing at most and no artifact is classed below INTERNAL.
THEOREM ToolsTypes == Spec => []TypeOK
<1>1. IInv => TypeOK
  <2> SUFFICES ASSUME IInv PROVE TypeOK
    OBVIOUS
  <2>1. ArkTypeOK /\ PortableTypeOK
    BY ArkSafe, PortableTypes DEF IInv
  <2>2. ConsensusTypeOK
    BY DEF IInv, ConsensusInv, ConsensusTypeOK, Proposals, ProposalOK
  <2>3. QED
    BY <2>1, <2>2 DEF TypeOK
<1>2. QED
  BY <1>1, ToolsInvariant, PTL

\* A store recovered from a package is valid and holds what its source held all the
\* while the package was read and nothing it never held in that time, though the
\* source may never have stood there; one recovered from a bundle holds the run as
\* its fingerprint has it (_reconstruct, _collect_source, build_ark_bundle).
THEOREM RecoveredStoresAreSound == Spec => []RecoveriesAreSound
<1>1. IInv => RecoveriesAreSound
  BY ArkSafe DEF IInv
<1>2. QED
  BY <1>1, ToolsInvariant, PTL

\* RESTRICTED content leaves without an acknowledgement only in a package whose store
\* became RESTRICTED after the check (source_privacy_class, ark_bundle).
THEOREM OnlyLateRestrictionsUnacknowledged == Spec => []OnlyLateRestrictionsEscape
<1>1. IInv => OnlyLateRestrictionsEscape
  BY ArkSafe DEF IInv
<1>2. QED
  BY <1>1, ToolsInvariant, PTL

\* A tree that was verified is exactly one export, whatever other builds wrote in
\* the directory between two reads (verify_bundle, write_deterministic_zip).
THEOREM VerifiedTreesHoldOneExport == Spec => []VerifiedTreesAreOneExport
<1>1. IInv => VerifiedTreesAreOneExport
  BY DEF IInv, PortableInv
<1>2. QED
  BY <1>1, ToolsInvariant, PTL

\* What the command prints was committed, with its quorum, for the very intent and
\* inventory of that invocation (propose_mutation, validate_receipt).
THEOREM PrintedReceiptsAreCommitted == Spec => []ReceiptsAreCommitted
<1>1. IInv => ReceiptsAreCommitted
  BY DEF IInv, ConsensusInv
<1>2. QED
  BY <1>1, ToolsInvariant, PTL
=============================================================================
