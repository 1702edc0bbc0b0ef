---------------------------- MODULE ArkRecovery ----------------------------
(***************************************************************************)
(* The ARK tools: storage/ark_repository_bundle.py packs the whole store   *)
(* into a package directory, storage/ark_recovery_bundle.py packs one run  *)
(* into a single capsule, and both rebuild a store from what they packed.  *)
(* tools/repository_recovery.py and tools/ark_bundle.py decide whether a   *)
(* RESTRICTED export may go ahead and where the result is written.         *)
(*                                                                         *)
(* None of them takes a lock over the store: it is validated, then read    *)
(* registry by registry, while its clients write.  A package or a restored *)
(* store is staged under a name nobody opens and renamed when complete; a  *)
(* job that raises or is killed leaves at most that staging directory, so  *)
(* here it just ends.  The file of a run bundle is replaced in place.      *)
(***************************************************************************)
EXTENDS RecoverableStore

CONSTANTS Jobs,          \* invocations of a recovery tool
          Outputs,       \* names an export can be given
          Targets,       \* names a store can be restored to
          MaxStarts      \* bound: exports

VARIABLES disk,      \* what each output holds
          targets,   \* the store at each target
          job,       \* what each invocation holds
          started    \* exports begun so far

arkVars == <<disk, targets, job, started>>

Nothing == [tool |-> "none"]
Spoiled == <<"other", "bytes">>
Exports == {"package", "bundle"}

\* gated is the class of the store at the privacy check of a package, seen the
\* store when its contents were validated, got what was read after that, a
\* registry of a package at a time, next the registry whose turn it is.
NoJob == [tool |-> "none", at |-> "idle", out |-> "none", target |-> "none",
          ack |-> FALSE, gated |-> 0, seen |-> {}, got |-> {}, next |-> 0]

Launch(j, call) ==
  /\ job[j].at = "idle" /\ (call.tool \in Exports => started < MaxStarts)
  /\ job' = [job EXCEPT ![j] = call]
  /\ started' = IF call.tool \in Exports THEN started + 1 ELSE started
  /\ UNCHANGED <<live, disk, targets>>

Step(j, call) ==
  /\ job' = [job EXCEPT ![j] = call]
  /\ UNCHANGED <<live, started>>

\* A faulty form: a job that ends and is not forgotten
AbandonKeeping(j) ==
  /\ job[j].at # "idle"
  /\ Step(j, [job[j] EXCEPT !.at = "idle"])
  /\ UNCHANGED <<disk, targets>>

\* An exception, a refusal or a kill: nothing that others see was written.
Abandon(j) ==
  /\ job[j].at # "idle"
  /\ Step(j, NoJob)
  /\ UNCHANGED <<disk, targets>>

Allowed(call, rank) == rank = Restricted => call.ack

-----------------------------------------------------------------------------
(* What an artifact holds.                                                 *)

PackageShell(item) == IF item[1] = "object" THEN "OUTER_SHELL" ELSE "MID_SHELL"
BundleShell(item) ==
  IF item[1] \in {"run", "collection"} THEN "NEAR_SHELL" ELSE PackageShell(item)

\* The entries of a package whose files were labelled by what seen holds.
Entries(items, seen) == {Entry(i, i, Label(seen, i), PackageShell(i)) : i \in items}

\* Consecutive groups of entries; one capsule for each registry here.
Capsules(entries) ==
  {PackCapsule({e \in entries : e.path[1] = r}) : r \in {e.path[1] : e \in entries}}

Rows(entries) == {[item |-> e.path, privacy |-> e.privacy] : e \in entries}

\* from and to, the store when the tool began and ended reading it, and
\* gated, are kept for the properties alone.
Artifact(call, capsules, fingerprint, rank) ==
  [tool |-> call.tool, capsules |-> capsules, listed |-> capsules,
   fingerprint |-> fingerprint, privacy |-> rank, ack |-> call.ack,
   verified |-> FALSE, gated |-> call.gated, from |-> call.seen, to |-> live]

EntriesOf(artifact) == UNION {ParsedEntries(c) : c \in artifact.capsules}
ItemsOf(artifact) == {e.data : e \in EntriesOf(artifact)}

\* _load_bootstrap and _capsule_entries: exactly the capsules the bootstrap
\* names, each one a fixed point, no path in two of them.
CapsulesIntact(artifact) ==
  /\ artifact.capsules = artifact.listed
  /\ \A c \in artifact.capsules : VerifiesCapsule(c)
  /\ \A a, b \in EntriesOf(artifact) : a.path = b.path => a = b

\* _entry_map: nothing outside the one capsule of a bundle says what is in it.
BundleIntact(bundle) ==
  /\ bundle.capsules # {}
  /\ \A c \in bundle.capsules : Parses(c)

\* A faulty form: what was restored is compared with the
\* bootstrap and never validated as a store
PackageRebuildsUnvalidated(package) ==
  LET store == ItemsOf(package)
  IN  /\ CapsulesIntact(package)
      /\ Rows(Entries(store, store)) = package.fingerprint
      /\ StorePrivacy(store) = package.privacy

\* _reconstruct of a package, then the comparison with its bootstrap.
PackageRebuilds(package) ==
  LET store == ItemsOf(package)
  IN  /\ CapsulesIntact(package)
      /\ ValidStore(store)
      /\ Rows(Entries(store, store)) = package.fingerprint
      /\ StorePrivacy(store) = package.privacy

-----------------------------------------------------------------------------
(* repository_recovery export                                              *)

StartPackage(j, d, ack) ==
  Launch(j, [NoJob EXCEPT !.tool = "package", !.at = "privacy", !.out = d, !.ack = ack])

\* source_privacy_class: a collection of its own, whose only use is the class.
GatePackage(j) ==
  /\ job[j].at = "privacy"
  /\ ValidStore(live)
  /\ Allowed(job[j], StorePrivacy(live))
  /\ Step(j, [job[j] EXCEPT !.at = "validate", !.gated = StorePrivacy(live)])
  /\ UNCHANGED <<disk, targets>>

\* build_repository_recovery_package, up to _validate_canonical_store
ValidateSource(j) ==
  /\ job[j].at = "validate"
  /\ disk[job[j].out] = Nothing
  /\ ValidStore(live)
  /\ Step(j, [job[j] EXCEPT !.at = "collect", !.seen = live, !.next = 1])
  /\ UNCHANGED <<disk, targets>>

\* _collect_source: the registries in turn, each as it is when its turn comes.
CollectRegistry(j) ==
  /\ job[j].tool = "package" /\ job[j].at = "collect"
  /\ LET registry == Registries[job[j].next]
         call == [job[j] EXCEPT !.next = @ + 1,
                                !.got = @ \cup In(registry, Names(live, registry))]
     IN  Step(j, IF job[j].next = Len(Registries)
                 THEN [call EXCEPT !.at = "promote", !.next = 0] ELSE call)
  /\ UNCHANGED <<disk, targets>>

\* The capsules are staged and the staging directory renamed, which fails if
\* another export has taken the name since.
PromotePackage(j) ==
  /\ job[j].tool = "package" /\ job[j].at = "promote"
  /\ disk[job[j].out] = Nothing
  /\ LET call == job[j]
         entries == Entries(call.got, call.seen)
     IN  disk' = [disk EXCEPT ![call.out] =
           Artifact(call, Capsules(entries), Rows(entries), StorePrivacy(call.seen))]
  /\ Step(j, [job[j] EXCEPT !.at = "verify"])
  /\ UNCHANGED targets

\* verify_repository_recovery_package on what was promoted.  A package that
\* does not pass stays where it is, and the export raises.
VerifyPackage(j) ==
  /\ job[j].tool = "package" /\ job[j].at = "verify"
  /\ disk' = [disk EXCEPT ![job[j].out].verified = PackageRebuilds(disk[job[j].out])]
  /\ Step(j, NoJob)
  /\ UNCHANGED targets

-----------------------------------------------------------------------------
(* ark_bundle export                                                       *)

StartBundle(j, d, ack) ==
  Launch(j, [NoJob EXCEPT !.tool = "bundle", !.at = "verify_run", !.out = d, !.ack = ack])

\* build_ark_bundle takes the fingerprint first, under the run's lock,
FingerprintRun(j) ==
  /\ job[j].tool = "bundle" /\ job[j].at = "verify_run"
  /\ VerifiesRun(live)
  /\ Step(j, [job[j] EXCEPT !.at = "collect", !.seen = live])
  /\ UNCHANGED <<disk, targets>>

\* The Files of a bundle: what the events cite and the bound snapshot lists.
BundleFiles(events) == Members[Bound] \cup UNION {Cites[e] : e \in events}

RunContents(events) ==
  LET files == BundleFiles(events)
  IN  {Collection, Run} \cup In("event", events) \cup In("snapshot", Line[Bound])
      \cup In("file", files) \cup In("object", {ObjectOf[f] : f \in files})

BundlePrivacy(call) ==
  PrivacyMax({PrivacyRank[f] : f \in Names(call.got, "file")} \cup {CollectionRank})

\* and then reads the events again, without it; what the events and the
\* snapshots name does not change.
CollectRun(j) ==
  /\ job[j].tool = "bundle" /\ job[j].at = "collect"
  /\ Readable(live, BundleFiles(RunChain(live)))
  /\ Step(j, [job[j] EXCEPT !.at = "write", !.got = RunContents(RunChain(live))])
  /\ UNCHANGED <<disk, targets>>

\* Every File brings the entry of its own bytes, so that two Files of the
\* same bytes are a path met twice and pack_capsule refuses the bundle.
OneFileForEachObject(items) ==
  \A f, g \in Names(items, "file") : ObjectOf[f] = ObjectOf[g] => f = g

BundleLabel(call, item) ==
  CASE item[1] = "object" -> Min({PrivacyRank[f] :
         f \in {g \in Names(call.got, "file") : ObjectOf[g] = item[2]}})
    [] item[1] = "file" -> PrivacyRank[item[2]]
    [] item[1] \in {"collection", "snapshot"} -> CollectionRank
    [] OTHER -> BundlePrivacy(call)

Bundle(call) ==
  LET entries == {Entry(i, i, BundleLabel(call, i), BundleShell(i)) : i \in call.got}
  IN  Artifact(call, {PackCapsule(entries)}, RunChain(call.seen), BundlePrivacy(call))

\* The privacy check is of the bundle itself; _atomic_owner_write then puts
\* it over whatever the output held.
WriteBundle(j) ==
  /\ job[j].at = "write"
  /\ OneFileForEachObject(job[j].got)
  /\ Allowed(job[j], BundlePrivacy(job[j]))
  /\ disk' = [disk EXCEPT ![job[j].out] = Bundle(job[j])]
  /\ Step(j, [job[j] EXCEPT !.at = "verify"])
  /\ UNCHANGED targets

\* _reconstruct of a bundle: HEAD is the snapshot the run is bound to and the
\* run's HEAD its last event, whatever the source's were.
LastEvent(events) ==
  IF events = {} THEN Root ELSE CHOOSE e \in events : \A x \in events : Before[x] # e

RebuiltRun(bundle) ==
  ItemsOf(bundle) \cup {<<"head", Bound>>,
                       <<"run-head", LastEvent(Names(ItemsOf(bundle), "event"))>>}

BundleRebuilds(bundle) ==
  LET store == RebuiltRun(bundle)
  IN  /\ BundleIntact(bundle)
      /\ VerifiesRun(store)
      /\ Line[Bound] \subseteq Names(store, "snapshot")
      /\ Names(store, "event") = RunChain(store)
      /\ RunChain(store) = bundle.fingerprint

\* verify_ark_bundle, of what was written, comes after the write: a bundle that does not pass has
\* already taken the place of the one before it.
VerifyBundle(j) ==
  /\ job[j].tool = "bundle" /\ job[j].at = "verify"
  /\ disk' = [disk EXCEPT ![job[j].out].verified = BundleRebuilds(disk[job[j].out])]
  /\ Step(j, NoJob)
  /\ UNCHANGED targets

-----------------------------------------------------------------------------
(* repository_recovery restore and ark_bundle restore                      *)

Rebuilds(artifact) ==
  \/ artifact.tool = "package" /\ PackageRebuilds(artifact)
  \/ artifact.tool = "bundle" /\ BundleRebuilds(artifact)

RebuiltStore(artifact) ==
  IF artifact.tool = "package" THEN ItemsOf(artifact) ELSE RebuiltRun(artifact)

\* An artifact that was kept may be read back without one of its capsules or
\* with other bytes in one of its sections.
Readings(artifact) ==
  {artifact}
  \cup {[artifact EXCEPT !.capsules = @ \ {c}] : c \in artifact.capsules}
  \cup UNION {{[artifact EXCEPT !.capsules = (@ \ {c}) \cup {[c EXCEPT !.payload[p] = Spoiled]}] :
                  p \in DOMAIN c.payload} : c \in artifact.capsules}

StartRestore(j, d, t) ==
  /\ disk[d].tool \in Exports
  /\ targets[t] = Nothing
  /\ Launch(j, [NoJob EXCEPT !.tool = "restore", !.at = "rebuild", !.out = d, !.target = t])

\* _reconstruct into the staging directory: written out, validated, compared;
\* then os.replace of the staging directory, which fails over a store.  The
\* staging directory is the job's alone.
Rebuild(j) ==
  /\ job[j].at = "rebuild"
  /\ targets[job[j].target] = Nothing
  /\ \E a \in Readings(disk[job[j].out]) :
       /\ Rebuilds(a)
       /\ targets' = [targets EXCEPT ![job[j].target] =
            [tool |-> a.tool, store |-> RebuiltStore(a), from |-> a.from, to |-> a.to]]
  /\ Step(j, NoJob)
  /\ UNCHANGED disk

\* What an export of the run, as the tools find it, has left at an output.
KeptBundle ==
  LET call == [NoJob EXCEPT !.tool = "bundle", !.ack = TRUE, !.seen = Start,
                            !.got = RunContents(RunChain(Start))]
  IN  [Bundle(call) EXCEPT !.verified = TRUE]

ArkInit ==
  /\ live = Start
  /\ disk \in [Outputs -> {Nothing, KeptBundle}]
  /\ targets = [t \in Targets |-> Nothing]
  /\ job = [j \in Jobs |-> NoJob]
  /\ started = 0

ArkNext ==
  \E j \in Jobs :
       \/ \E d \in Outputs, ack \in BOOLEAN : StartPackage(j, d, ack) \/ StartBundle(j, d, ack)
       \/ \E d \in Outputs, t \in Targets : StartRestore(j, d, t)
       \/ GatePackage(j) \/ ValidateSource(j) \/ CollectRegistry(j)
       \/ PromotePackage(j) \/ VerifyPackage(j)
       \/ FingerprintRun(j) \/ CollectRun(j) \/ WriteBundle(j) \/ VerifyBundle(j)
       \/ Rebuild(j) \/ Abandon(j)

-----------------------------------------------------------------------------
ArkTypeOK ==
  /\ live \subseteq StoreItems
  /\ \A d \in Outputs : /\ disk[d].tool \in Exports \cup {"none"}
                        /\ disk[d] # Nothing => disk[d].privacy \in {Internal, Restricted}
  /\ \A t \in Targets : targets[t].tool \in Exports \cup {"none"}
  /\ \A j \in Jobs : /\ job[j].at = "idle" <=> job[j].tool = "none"
                     /\ job[j].tool \in Exports \cup {"restore", "none"}
                     /\ job[j].next \in 0..Len(Registries)

\* What a file of the store says once is there for good; only the two HEADs move.
Lasting(store) == {i \in store : i[1] \notin {"head", "run-head"}}

\* Between two states of the source, though perhaps neither it nor any other.
LiesBetween(store, from, to) ==
  /\ ValidStore(store)
  /\ Lasting(from) \subseteq store
  /\ Lasting(store) \subseteq to

\* The run as it was read first.
IsRunRead(store, from) ==
  /\ VerifiesRun(store)
  /\ Names(store, "head") = {Bound}
  /\ RunChain(store) = RunChain(from)

(* What is recovered is valid and lies between two states of the source,   *)
(* though the source was read without a lock while its clients wrote: a    *)
(* store restored from a package, whole or spoiled, and the one in a       *)
(* package that its export reported verified, passes the validation of a   *)
(* store, holds all lasting files the source held when the reading began   *)
(* and none it did not hold when it ended.  The source need not have stood *)
(* there: of two files written while the package was read, the later may   *)
(* be in it without the earlier, if it does not name that one.  A store    *)
(* restored from a run bundle verifies, with exactly the events the run    *)
(* had when its fingerprint was taken and, as HEAD, the snapshot the run   *)
(* is bound to                                                             *)
(* (ark_repository_bundle.py:333-373 and 724-753, ark_recovery_bundle.py). *)
RecoveriesAreSound ==
  /\ \A d \in Outputs :
       disk[d].tool = "package" /\ disk[d].verified
         => LiesBetween(ItemsOf(disk[d]), disk[d].from, disk[d].to)
  /\ \A t \in Targets :
       /\ targets[t].tool = "package" => LiesBetween(targets[t].store, targets[t].from, targets[t].to)
       /\ targets[t].tool = "bundle" => IsRunRead(targets[t].store, targets[t].from)

(* An artifact with a RESTRICTED entry was written on an explicit          *)
(* acknowledgement: "For RESTRICTED source state, export requires all      *)
(* three" (docs/ARK-REPOSITORY-RECOVERY.md:135).  The package tool asks    *)
(* for it on the class of one reading of the store and packs a later one   *)
(* (tools/repository_recovery.py:31 and 45).                               *)
RestrictedExportsAcknowledged ==
  \A d \in Outputs :
    disk[d].tool # "none" /\ (\E e \in EntriesOf(disk[d]) : e.privacy = Restricted)
      => disk[d].ack
=============================================================================
