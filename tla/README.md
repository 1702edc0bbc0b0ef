# QSOL-CONTROL: specifications, model checks and proofs

This directory specifies the parts of QSOL-CONTROL that several processes,
threads or restarts share, checks them with TLC on small instances, and proves
the most important results for every instance with TLAPS. Paths are relative to
the repository root. `PROJECT.json` maps every definition to the lines it
models.

    tlc -config MCControlStore.cfg MCControlStore.tla     # any run
    tlapm ControlStoreProofs.tla                          # any proof module

## 1. The system

CONTROL is a local, file-based record system: callers (a person at a CLI or the
loopback web UI, an AI agent over stdio, a remote principal over HTTPS) store
Files, group them in Collections, ask questions that become *runs*, and replay
them. Every record is content-addressed and immutable; a few small *head* files
move. All operations are ordinary Python calls that read and replace whole
files, guarded by lock files. What is hard is not any one operation but what
happens between two writes: another client acts, the write raises, the process
dies.

| Component | State | Operations | Interacts by | Hard behaviour | What makes it correct |
|---|---|---|---|---|---|
| Collection store, `storage/control_store.py` | objects, File records, `collection.json`, snapshots, `HEAD.json`, lock files | put_file, create_collection, update_collection, verify | files; called by every front end | two lock names for one HEAD; lost updates; death between writes; locks left behind | HEAD always verifies and never regresses; updates are atomic |
| Search indexes, `control_store.py`, `webui/runtime_storage.py` | index records, one head per kind, lock files | build, search, register, search_collection | read HEAD without its lock, or hold the writers' lock during a whole search | HEAD or an index head moves in mid-search; late writers | an answer is of a snapshot that was HEAD during the call |
| Interaction store, `storage/interaction_store.py` | run record, events, HEAD, lock file | create_run (and repair), append_event, import_record_set, verify_run, list_events | files; called by ask, replay, capture and the CLIs | orphan events, wedged runs, import racing append | history can be listed and only grows |
| Model-state registry, `storage/model_state_registry.py` | state records; links are run events | capture, list, compare, lineage | calls the interaction store | record and link are two writes; the scan is unlocked; others append such events too | a returned capture is stored and linked for ever |
| Remote gateway, `api/remote_http.py` | audit files; in memory: ownership, quotas, dispatch lock, connection slots | do_POST, audit, authorize, dispatch_local, start | threads; dispatcher; stores | authorization before a wait; effect before its completion record; restart | nothing unaudited, no acknowledged ownership lost, quotas hold |
| Agent dispatcher, `api/dispatcher.py`, `api/runtime.py`, `api/stdio.py` | quota counters | handle and its operations | called by the gateway and the stdio loop | check-then-charge | see the gateway |
| Ask, `webui/runtime_query.py` | none of its own | ask, council | stores, ORACLE, NEXUS | a run with half of its events; a ledger that grows between two reads | what a run says stays supported by the ledger |
| Replay, `webui/runtime_replay.py`, `storage/replay_store.py` | reports, replay records | classify, execute, timeline | stores, ask | the original is still written; a replay that stops half way; a Council configured differently | no evidence lost, no silent change of Council, a readable timeline |
| NEXUS adapter, `adapters/nexus.py` | child process, read buffer, request counter | request, discover, run_council | two pipes; the run that asked | an answer later than its timeout; answers about another question; a pipe that is not read; artifacts stored one by one | what is rendered is the council asked for; an answer is not awaited for ever |
| Consensus adapter, `adapters/consensus.py` | child process | propose, verify | three pipes; reads the store | timeout after commit; an inventory of no one moment | an accepted receipt is of a commit and of this intent |
| ORACLE adapter, `adapters/oracle.py` | none (reads a ledger) | query, persist_receipt | files | verification of a ledger that is being written | see Ask |
| ARK tools, `storage/ark_*.py`, `tools/{ark_bundle,repository_recovery}.py` | packages, bundle files, restored stores | export, verify, restore | read the store without a lock | the store moves on in mid-read; a package is spoiled; a job dies | a recovered store is valid and neither lacks what the source had nor has what it lacked |
| Portable bundle, `storage/concap_bundle.py` | output directory | build, verify, archive | files | two builds in one directory; half-written trees | a tree that verifies is one export |
| Capsules, `storage/restore_capsule.py` | none (pure) | pack, parse, verify | the two above | - | what verifies is what was packed |
| DNA lattice, `storage/dna_lattice.py` | none (pure) | place, trace | - | - | not modelled: a function without state |
| Render edge, `deployment/edge.py` | slots, rate window, inspection slot | do_POST, admit | HTTP to the gateway, and its `audit` | proxy timeout shorter than the operation | not modelled, see section 6 |
| Web UI, CLIs, mobile clients | none that lasts | one call of the runtime each | HTTP, argv | - | clients of the store modules |
| Validators, migration, release, INT composition | none | one-shot | files | - | not modelled: no behaviour over time |

Everything above meets in the file system: the web UI, the gateway, the stdio
loop and the CLIs may run at once over one control root. That is why a *client*
of the store modules stands for a process or a server thread alike.

## 2. The modules

| Module | Models | How |
|---|---|---|
| `CollectionRegister` | what a Collection promises | one register of Files changed by compare-and-set |
| `ControlStore` | the store's files, locks, operations, failures and kills | one action per persisted write |
| `ControlStoreProofs` | | theorems of `ControlStore` |
| `RunLog` | what a run promises | one append-only log |
| `InteractionStore` | run record, events, HEAD, lock, all writers, repair, verification | one action per persisted write |
| `InteractionStoreProofs` | | theorems of `InteractionStore` |
| `ModelStateRegistry` | capture; EXTENDS `InteractionStore` and drives its actions | the scan, the append and the return of a capture |
| `SearchIndex` | index builds, registrations and searches over a moving HEAD | HEAD is what `ControlStore` is proved to provide: it never regresses |
| `RemoteGateway` | connections, audit files, authorization, dispatch, quotas, ownership, restarts | one action per persisted or shared step of do_POST |
| `CouncilRecord` | what `_validate_and_render` recomputes from a council session | operators: roster, sealed ballots, tally, disposition |
| `NexusCouncil` | one adapter and its child: lines in both pipes, run_council, the put of its artifacts, its two events; EXTENDS `CouncilRecord` | one action per line written, read or awaited, per put and per append |
| `OracleLedger` | the ledger, its verification, a query's state and evidence | operators over sequences of events |
| `AskReplay` | ask, classify, replay, report, record, link, timeline; EXTENDS `OracleLedger` | one action per persisted write; each run's log is what `RunLog` promises |
| `RestoreCapsule` | pack and parse of a capsule | operators |
| `RecoverableStore` | the store as files that clients go on writing, and the two validations of it; EXTENDS `RestoreCapsule` | one action per file written |
| `ArkRecovery` | repository packages and run bundles: export, verification, restore; EXTENDS `RecoverableStore` | one action per registry read and per rename |
| `PortableBundle` | builds, verification and archive of a portable tree; EXTENDS `RestoreCapsule` | one action per file written or read |
| `ConsensusProposal` | proposals, provider processes, receipts; EXTENDS `RecoverableStore` | one action per registry read and per call of the provider |
| `OperatorTools` | the three tools beside the clients that write the store; EXTENDS `ArkRecovery`, `PortableBundle`, `ConsensusProposal` | a step is a client's write or a step of one tool |
| `RemoteGatewayProofs`, `SearchIndexProofs`, `ModelStateRegistryProofs`, `NexusCouncilProofs`, `AskReplayProofs`, `OperatorToolsProofs` | | theorems of the module each is named after; `NexusCouncilProofs` also of `CouncilRecord`'s count |
| `MC*` | | instances for TLC |

State and code correspond name by name: `snapshots`, `head`, `lock`, `owned`
(`_owned_resources`) and so on are the variables' own comments. `pc[c]` is the
place of client `c` in its call. Actions that end in `Missing`, `Exists`,
`Refused`, `Kept`, `Stale` are the early returns.

**Content identities.** SHA-256 identities are numbers given in the order
records are first written; equal content keeps its number. Nothing else about
hashing is assumed but that equal identities mean equal content.

**Writes.** `_atomic_write` writes a temporary file and `os.replace`s it: one
step. What it may leave behind (a temporary file) and what a power loss may undo
(no directory fsync) is outside the modules; see the hazards in `PROJECT.json`.

**Failures.** `Fail` is any exception inside an operation: the `with` block
releases the lock. `Kill` is the end of the process: the lock file stays
(`Dead`), and only `OperatorUnlock`, the operator's removal of the file, takes it
away. `AcquireFails` is a lock file that is there already (the store does not wait)
or that `os.write` fails to fill, which the code then leaves behind. There is no
retry in the code and none in the modules: a client that failed may call again.

**RemoteGateway** has a lock that threads wait for, and so liveness. Its
restarts keep the files and lose memory, as in the code.

**NexusCouncil.** NEXUS is not in the repository. It may answer anything, late, without
a `request_id`, or never, and it may die; what is assumed is that it answers in order
and that a reference is the hash of its object (`World` maps references to objects).
After an error the adapter stays open with whatever is in its pipe unless its caller
closes it, so the next council may read the last one's answers. A step that raises
leaves the puts and appends before it. A request is a write and a read: the write ends at
once if the pipe has room, which is no longer so (`Full`) when `Room` requests are
unanswered or when the line of council.run (up to 4 MiB) is longer than the pipe
(`Long`); then it ends when NEXUS reads, if NEXUS does. That a full pipe is one NEXUS has
*perhaps* read is no loss, as `NexusReads` may follow at once.

**AskReplay.** A process keeps one configuration as long as it lives. Requests come
from processes of different configurations, the Collection moves on or cannot be read
any more, ORACLE's ledger grows, is corrected or is spoilt by a forged event, and an
original run may still be in the making when it is classified. An exception and a
kill are one action: nothing is rolled back. A run is the number of its creation; the
code hashes the same inputs and microsecond to the same run.

**The operator's tools** take no lock. Clients write the store file by file
(`RecoverableStore`) while a tool validates it and then reads it registry by registry.
`Readings` are the forms in which an artifact may come back: whole, without a capsule,
or with other bytes in a section. `_validate_canonical_store` and `verify_run` are
taken in one instant, although they too read file by file. In `PortableBundle` a file
is the *set* of the values it can be read as, which is empty while it is half written;
a verification reads all objects in one step (`ReadObjects`), the code one by one.
The provider of `ConsensusProposal` may answer anything to `commit.propose`, commit
at any time while its process lives, and answers `receipt.verify` truthfully: that
last is the assumption the adapter itself rests on.

### What each property guards

* `HeadVerifies`, `HeadAdvances` - create and update write HEAD under *different*
  lock files. That a stale creator cannot move HEAD back rests on the descriptor
  check under its own lock, and on update refusing a Collection without HEAD.
* `AbandonedStaysUnusable` - no operation can revive a Collection that stopped
  between its descriptor and its HEAD.
* `RegisterSpec` - every update takes effect once, on the value it was computed
  from, whatever expectation the caller named; failed and killed calls have either
  no effect or the whole one.
* `HistoryListable` - the chain from HEAD is complete and numbered without gaps, and
  parents are earlier, orphan events included.
* `WedgedStaysHeadless` - `create_run` repairs a run without HEAD only if it has no
  events; a run that stopped in mid-import is never given an empty HEAD, which
  would hide events.
* `UnverifiableForever` - an event may name an orphan as its parent; the run then
  lists but never verifies, and no later operation undoes that.
* `LogSpec` - appends and imports are atomic and nothing is rolled back.
* `CapturedIsLinked` - a capture that returned has its record stored and its link shown
  from then on, whichever capture or other append made it. The converse does not hold:
  `append_event` and `import_record_set` check only the form of a model-state event, so
  a run may name a state without a record.
* `IndexHeadsResolve`, `AnswersAreLive`, `LockedAnswersAreCurrent` - a search reads HEAD
  and the index head one after the other, and may build in between: it answers
  from a snapshot that was HEAD during the call, and from HEAD itself when it holds
  the writers' lock.
* `EffectsAreAudited`, `AnsweredIsOwned`, `OwnershipIsDurable`,
  `ReadsStayEntitled`, `QuotasHold`, `RequestsEnd` - effect after audit, ownership
  across restarts, authorization across the wait for the dispatch lock, check before
  charge, and the release of the lock by every way out of the dispatch.
* `RenderAnswersItsRequest` - answers are matched to requests by an id that may be
  missing; that a render is still of the question asked rests on the references the
  later requests name and on the comparison of question and evidence state.
* `OutcomeHasItsMajority` - recomputed from seats and votes: no double seat, no opened
  ballot that was not sealed, no tie.
* `ResponseRestsOnReceipt`, `ArtifactsAreClean` - artifacts precede the events that name
  them, and every scan precedes the first put.
* `CouncilEnds` - the deadline of a read ends a call that NEXUS never answers, whatever is
  in the pipes. The write before it has no deadline (`adapters/nexus.py:326`): a call
  that meets a full pipe nobody reads does not end, and the property says that this is
  the only way.
* `StatesRestOnTheLedger` - a run's state and its evidence event are of one reading of the
  ledger, and a kept response can be persisted later only if it was ORACLE's.
* `ReplaysLoseNoEvidence` - the ledger only grows, so a report's lost evidence is all or
  nothing, and all only if ORACLE could not be read.
* `UnallowedReplaysKeepTheCouncil` - members and profiles are those of the original, if the
  classification saw them. It says nothing of an original whose basis event comes later:
  that is the run `silent_council_change`.
* `TimelineIsAForest` - links, records, reports and runs refer to one another in the order
  of creation, whatever was killed.
* `RecoveriesAreSound` - a package may hold an event without its HEAD or a snapshot
  without its File; none that verifies or restores does, and it has all that lasted from
  before the reading and nothing from after it. It may still be a mixture the source
  never stood at: a File put after the File registry was read is missing, while a
  snapshot written after that, which does not list it, and the HEAD that names the
  snapshot are there. Neither code nor documents promise more.
* `VerifiedTreesAreOneExport` - two builds in one directory can leave a mixture; it does
  not verify, and neither does a verification that reads while they write.
* `ReceiptsAreCommitted` - a printed receipt is in the provider's log for this intent and
  state, and the fingerprint, though it may be of no one moment, lists no File without its
  object.

### Behaviour worth knowing

The modules contain these outcomes; no document promises otherwise, or the promise is
too vague to check.

* An ask for a Council without members raises after the run, its basis and its evidence
  have been stored.
* A write to NEXUS has no deadline, see `CouncilEnds`. It is reached under the gateway's
  dispatch lock too, so there `RequestsEnd` rests on NEXUS reading its pipe.
* A report reads the original's events after the comparison of fingerprints, so what
  was appended in between is in the report.
* A package that fails its verification stays where it was renamed to, and a retry is
  refused until someone removes it. A run bundle replaces an earlier good one before it
  is verified.
* A run whose Files include two of the same bytes cannot be bundled: the capsule would
  have one path twice. An orphan report, event or snapshot, or a dead lock, makes the
  whole store unfit for packaging.
* A portable build that dies leaves a directory no later build accepts. A second build
  can destroy a tree that was already verified, and the archive re-reads the files
  after their verification: the property says nothing of an archive whose tree was
  disturbed in between.

### Disagreements between code and documents

Five runs are expected to find a violation; each checks one sentence of the
repository (quoted in `PROJECT.json` under findings).

* `duplicate_link`: `docs/MODEL-STATE.md:62` says re-capturing appends no duplicate
  link; two captures that list the events before either appends both append one.
* `late_registration`: `docs/PERSISTENT-STORAGE.md:179` says semantic search fails closed
  *until* a new index is registered; a registration that began before the update
  and ends after the new one takes the head file back, and search fails again.
* `unrecoverable_ownership`: `ai/remote-gateway-contract.json:43` says ownership is
  recoverable; a gateway that has written more than `MAX_AUDIT_RECORDS` files is
  refused at its next start.
* `silent_council_change`: `docs/REPLAY.md:59` says a changed Council roster is never
  silently accepted; a replay that classifies its original between that run's creation
  and its basis event, and executes after, asks other members than the original
  recorded and says that no change was authorized.
* `unacknowledged_export`: `docs/ARK-REPOSITORY-RECOVERY.md:135` says three flags are
  required for RESTRICTED source state; the class is taken from one reading and the
  package from a later one, so a File put in between goes out with none of them.

One more needs no interleaving and has no run: `docs/ARK-MINIMUM-BUNDLE.md:24` puts into a
bundle the Files required by the whole exported snapshot chain, while
`storage/ark_recovery_bundle.py:161` takes the members of the last snapshot alone
(`BundleFiles` in `ArkRecovery`), so a restored store may list Files it does not have.

## 3. The runs

| Run | Instance | Distinct states | Shows |
|---|---|---|---|
| `control_store` | 3 clients, 3 Files (one too private, two sharing bytes), 4 kinds of change, 2 creation times, 3 snapshots | 242 thousand | the five properties of the store |
| `run_and_registry` | 2 clients, one model state, one ordinary event, 4 record sets (empty, one event, two chains that part), 4 events | 511 thousand | the five properties of a run, and the registry's |
| `search_index` | 2 clients (symmetric), 2 snapshots, one embedding | 574 thousand | the searches |
| `remote_gateway` | 2 connections, 2 principals, a PUBLIC and an INTERNAL record, quotas 2 and 1, 4 audit files before no request starts, 5 accepted at a start | 353 thousand | the gateway |
| `nexus_council` | 2 councils of one adapter, 4 requests, 5 answers (1 sound for each of two questions; a doubled seat, a switched ballot, an unclean one), 1 forgeable object, 1 event of another writer, a pipe for one unread request, one request longer than that | 243 thousand | the adapter |
| `ask_replay` | an asker and a replayer, 2 runs, 2 snapshots, a ledger of 2 events, 4 configurations, a store that is new or holds a run from before replay bases | 1.1 million | ask and replay |
| `operator_tools` | 3 Files (two of the same bytes, one RESTRICTED), 4 snapshots, an event, a replay; one export and restores; 2 builders of 5 specifications; 2 proposers and 2 commits | 605 thousand | recovery, portable bundle, consensus |
| `duplicate_link`, `late_registration`, `unrecoverable_ownership`, `silent_council_change`, `unacknowledged_export` | as above; `duplicate_link` without record sets and foreign model-state events | - | the five disagreements |

**Bounds.** Every bound is a CONSTANT that stops new operations from *starting*;
what has started goes on to its end. Why they are enough:

* Three clients in `control_store`: a creator, an updater and a third that meets
  either's leftovers; three snapshots: the first, one after it, and one more for a
  writer that is a snapshot late. Four changes: an addition, one that is too
  private, an exchange, and one that contradicts itself. Each mutant in
  `PROJECT.json` is found within these bounds.
* Two clients in `run_and_registry`: an operation and what interrupts it; four
  events allow an orphan, its sibling and an event that names the orphan. One state and
  one ordinary event: captures of two states do not read each other's links. The store
  is checked with the captures running beside it, which are clients of it.
* Two snapshots in `search_index`: an index is of the old one or of the new one.
  Symmetry of the clients is sound because no property tells clients apart and
  all are safety properties.
* In `remote_gateway` one principal may create and read, the other only read; four
  audit files allow two whole requests with a kill and a restart between any two
  steps, or four begun ones. The quotas bind within that. Neither principal's
  privacy ceiling lies below the INTERNAL record and nothing is configured by
  hand, so those two conjuncts of `Authorized` are not exercised here. No
  symmetry, as liveness is checked.

* In `nexus_council` two calls are what it takes for one to read the other's answers, and
  to find its requests unread in a pipe of `Room` one; each
  unsound session breaks one rule of `_validate_and_render`, and one object may be sent
  for another.
* In `ask_replay` two runs are an original and its replay; two snapshots and two ledger
  events let both the Collection and the evidence change between them. Only one new
  question is asked, since originals do not touch each other.
* In `operator_tools` a behaviour is of one suite (recovery, portable or consensus), as
  they have only the store in common and never wait for one another. A client writes
  only while a tool is reading: a write at any other time commutes with what the tools
  do until they read again. One export is enough, since an earlier artifact may be there
  at the start. The builders are interchangeable, and so are the proposers, in every
  definition; all properties are safety properties, so the symmetry is sound.

**Deadlock** is checked in all runs but three, whose systems really may stop. At the
bound nothing begins in the gateway, and one that is down with too many audit files
stays down; an adapter that has had its councils is done; the operator's tools end, and
what they leave behind may admit no further job. `unacknowledged_export` and
`unrecoverable_ownership` share the instances of these.

**Fairness.** The stores promise nothing about progress (a lock file left behind stops
all), and their specifications state no fairness. The gateway's handlers are
threads that run by themselves: `Fairness` is weak fairness of each begun handler's
next step. It is *not* assumed that a request arrives, that anything fails, that
time passes or that the lock is fair: `threading.Lock` promises no order, and
`RequestsEnd` holds because each holder gives the lock back and requests are
finitely many (`MaxFiles`); with an endless supply of requests the code does not
guarantee it. It is assumed that an operation once dispatched returns or raises; the one
that need not is a council whose NEXUS does not read. `NexusCouncil` has weak fairness of
the adapter's own steps: run_council runs in its caller's thread, a write into a pipe
with room returns, one into a broken pipe raises, and `select` has a deadline. NEXUS owes
nothing, not even to read.
`AskReplay` and the tools state no fairness, as any call may stop for good.

**Stuttering.** TLC checks the refinements `RegisterSpec` and `LogSpec` as
properties; both abstract modules let a call be dropped at any time, since the
code may always fail.

## 4. The proofs

`ControlStoreProofs` (assuming `StoreAssumption`: identities of lock states differ
from clients, ranks are numbers, changes name Files):

* `Invariance` - `IInv` is inductive. `HeadVerifies` alone is not: that the snapshot
  an updater writes continues HEAD needs that HEAD is still what it read
  (`UpdatingInv`), which needs that it alone holds the HEAD lock (`Exclusion`) and
  that no creator is about to write HEAD while one exists (`CreatingInv`), which
  needs the creator's own lock. `PublishedInv` says that published revisions stay
  below HEAD's, which makes an identity fresh whenever HEAD takes it.
* `TypeCorrect`, `StoreVerifies`, `HeadNeverRegresses`, `AbandonedForever`.
* `StoreImplementsRegister` - the refinement mapping takes HEAD as the version and
  a client's request as pending from its start to its HEAD write; the steps that
  write HEAD map to Create and Commit, those that end otherwise to Drop, the
  rest to stuttering.

`InteractionStoreProofs` (assuming `RunAssumption`: record sets are sequences whose
parents come earlier, which `import_record_set` checks before it locks): all five
properties of the run, in two layers.

* `RunInvariance`, `RunTypeCorrect`, `RunAlwaysListable`, `WedgedForever`. The invariant
  has the same shape: one holder of the lock, and for each place in append and
  import what has been read and written there. An event joins the history only
  through HEAD, but `HistoryListable` is kept for all stored events, because orphans
  can become parents.
* `WritingInvariance`, `UnverifiableStays`, `StoreImplementsLog`. The history is a recursive
  function, the walk of `_list_events_from_head`. That the walk exists (`WalkExists`),
  is the path of the events 0, 1, ... up to HEAD (`WalkPath`), is the only such path
  (`PathIsWalk`) and is changed by no later event (`WalkStays`) is proved from the
  sequence numbers of `HistoryListable`, by a least counterexample. `WritingInv` adds
  that events are stored once and that what an appender or an import is about to
  write goes on from the history it read. An import that extends the history
  describes the same events in the same places, hence has the same identities
  (`SameIdentities`); so the history only grows at its end (`HistoryGrows`). A lineage
  parent that HEAD does not lead to is never led to later, as the place its sequence
  number gives it in the history is taken: that is `UnverifiableForever`. The
  refinement mapping shows HEAD's chain as the log and a request as pending from its
  begin to its HEAD write; AppendHead maps to Append1, ImportHead to Import, the ways
  out before them to Drop, the rest to Create, Submit or stuttering.

`RemoteGatewayProofs` (assuming `GatewayAssumption`: ranks and limits are numbers, the
unlocked state is no thread): all six safety properties of the gateway's run, for any
number of connections, principals, records, quotas and audit files, from one
inductive invariant. `QuotasHold` needs that a request found affordable still is when it
is charged (`ChargeInv`), which needs that one thread dispatches at a time
(`Exclusion`). `AnsweredIsOwned` needs that a creation is stored, then granted by an
audit file, then owned (`MakingInv`), that what was acknowledged was granted
(`GrantedInv`), and that no handler lives through a restart (`BegunInv`).

`SearchIndexProofs` (assuming `IndexAssumption`: the lock states are no clients, there
is at least one revision): all four safety properties of the search indexes, for any
clients, embeddings and number of revisions. The invariant says of each call that
what it has read of HEAD is not later than HEAD and not earlier than the call's
begin (`Reading`), that a record is stored before a head file names it (`HoldingInv`),
and that a search which took the Collection's lock still holds it (`LockedInv`),
which is why `LockedAnswersAreCurrent` needs no comparison of its own.

`ModelStateRegistryProofs` (assuming `RegistryAssumption`: states and what is appended
otherwise are payloads) builds on `InteractionStoreProofs`: every registry step is a step
of the store or leaves it alone (`StoreStep`), so the registry implements the store
(`RegistryImplementsStore`), and with it the log (`CapturedRunImplementsLog`).
`CapturedAlwaysLinked` needs of a capture that its record is stored before it does
anything else (`CapturingInv`), and of one that is in its append that the request is its
own and that, once it has only to unlock, it has either written nothing or its link is
shown (`LinkedInv`); what is shown stays so because the history only grows.

`NexusCouncilProofs` begins with the count alone, which needs no assumption: for every
session that passes the checks on roster and ballots, votes are in bijection with members
(`VotesCountMembers`), a single winner leads every other choice (`WinnerLeads`), and an
outcome has the demanded share (`OutcomeIsMajority`). Then
(assuming `CouncilAssumption`: an answer to council.run names
committed objects, and those have one of the six types a council reads): all five
invariants of the adapter, for any world, answers, requests, runs and interference. The
core of its invariant is `KnownAt(step, answers)`: what each request of run_council may
rely on of the answers before it. It is preserved because a check looks at few parts
of the answers (`Same...` lemmas) and each request replaces one (`ReadChecked`,
`KnownAfterRead`). `Persisting` says how many artifacts are stored at each put and which
event is the receipt's, and `RendersAnswer` carries what was known when a render was
made to the runs and results that keep it.

`AskReplayProofs` (assuming `AskReplayAssumption`: the store may already hold runs that an
ask made over a ledger that has grown since, and no replay; configurations and requests
are well-typed; what is cached are responses ORACLE can give): all five properties of the
run, for any number of clients, runs and ledger lines, any configurations and any such
store. The invariant says

* of each call, what it may rely on at its place (`ClientInv`): its answer rests on the
  ledger (`AnswerRests`), its run is its own and tells what the answer said
  (`RunOfCall`, `RunsAreApart`), its replay's classification still holds of the original
  (`IntentOK`), and then its report is written (`WrittenOK`);
* of the store, that each run and its evidence events were said by the ledger at one
  reading (`RunsRest`), that reports compare a run with an earlier one and lose all
  evidence or none (`ReportOK`), that a record names a report that exists
  (`RecordOK`), and that a link names a record (`LinksOK`).

`Said` quantifies over the prefixes of the ledger that verify, so it is kept by an append
(`SaidAfterAppend`) and by the repair of a spoilt last line (`SaidAfterRepair`); a ledger
that verifies contains every event an earlier answer referred to (`ResponseIsSaid`),
which is why evidence is lost only when ORACLE cannot be read. An unallowed replay keeps
the Council if the original's members were recorded by its classification, which has
then compared them (`KeepsCouncil` before the report, `KeptCouncil` after).

`OperatorToolsProofs` (assuming `StoreAssumption`: the given store is a valid one made of
the files a store can have, ranks are ranks; `PortableAssumption`: a source has a
version; `ConsensusAssumption`: the bound is a number): all four properties of the run,
for any store, any number of jobs, builds, verifications, proposals and targets, and any
export specifications. The parts of the invariant:

* `LiveOK` - the one thing the store promises at every moment: bytes before the record
  that names them, a Collection's record before its HEAD and snapshots. `Grows` is the
  action property the tools rest on: no file but the two HEADs ever goes.
* `ArkInv` - a package has collected every lasting file that its source held when it began
  and nothing that the source did not hold when it read (`CollectedOK`, `PackageOK`); a
  bundle's fingerprint is that of the run it was made from (`BundleOK`). A package that
  validates has no dangling reference and one HEAD, and lies between the two readings
  (`RecoveriesAreSound`). `AckOK` follows the privacy class of the store, which only
  rises, from the check to the last reading: RESTRICTED content leaves unacknowledged
  only if it came in between (`OnlyLateRestrictionsUnacknowledged`).
* `PortableInv` - a path of the tree can be read as one thing at most, each thing was
  written by an export that some call set out to write, and a verification has read the
  bootstrap and the index of one export (`ReadingOK`). Objects and paths are checked
  against that index, so the tree it accepts is the export's. For the archive, what was
  read is what an undisturbed tree still holds (`ArchiveOK`).
* `ConsensusInv` - an inventory lists no File without its object because File records are
  listed before the objects (`ProposalOK`), and that stays so for the intents in the
  provider's log, whichever invocation they came from.

Every invariant and every action property of the passing runs is thus also a theorem.
Model-checked only:

* `RequestsEnd` and `CouncilEnds`, which are liveness under fairness: the prover has no
  rules for ENABLED.
* the five disagreements, which are counterexamples and need no proof.

Where data is recursive (the walk from HEAD, the places of a record set, the ledger's
prefixes) the library's induction theorems cannot be used, as they take an operator as a
parameter; the proofs take a least counterexample instead (`Least`, `MaxOf`).

## 5. The plan

Done in order of how many front ends depend on a part: the two stores, what is built on
each, the gateway, then NEXUS, ask and replay, and the operator's tools; then the proofs
in the same order. Left:

1. A member of the Collection as a source of the search indexes' text, so that an
   answer's content and not only its snapshot is checked.
2. Abstract specifications for the gateway (an audited log of effects with owners) and
   for the portable tree (one export at a time), with the modules as refinements of them,
   as the two stores are of `CollectionRegister` and `RunLog`.
3. The run logs of `AskReplay` as instances of `RunLog`, so that the two proofs of the
   interaction store and of ask and replay meet in a theorem and not in this text.

The twelve runs are the seven passing and the five that find a disagreement; what is
added goes into the instances of these.

## 6. Not modelled, and why

Cryptographic identity beyond equality; archive and JSON formats, chunk sizes and DNA
transport text; HTTP and TLS; tokenisation and scores; file permissions; directory
durability after power loss; `record_audit_event`, which writes one record nobody
else reads; the threads inside one call of the consensus provider, of which the
outcomes are kept; the one-shot tools and validators, which have no behaviour over
time; the DNA lattice, a function; the web UI server and the mobile clients, which keep
no state and are clients of the modules above.

The Render edge is left out although it has state: its slots, rate window and inspection
slot are all taken and released inside one process and one request, its proxied requests
are requests of `RemoteGateway`, and its inspections only read. What it adds is that
its two own operations are audited `started` before an inspection slot is free, so that
a refused one has no `completed` record; nothing relies on that pair.
