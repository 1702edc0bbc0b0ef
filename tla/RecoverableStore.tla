-------------------------- MODULE RecoverableStore --------------------------
(***************************************************************************)
(* The CONTROL store as the recovery tools see it: a set of files, each a  *)
(* registry name and what the file holds, that clients go on writing while *)
(* a tool reads it, and the two validations the tools run on a store:      *)
(* _validate_canonical_store (storage/ark_repository_bundle.py) and        *)
(* verify_run (storage/interaction_store.py).                              *)
(*                                                                         *)
(* One Collection and one run stand for all: neither validation relates    *)
(* two of them.  Snapshots and events carry content identities, so what    *)
(* one holds and what comes before it never change.  Model-state records,  *)
(* written whole and read singly, are left out: for a package they behave  *)
(* as File records do.                                                     *)
(***************************************************************************)
EXTENDS RestoreCapsule, FiniteSetsExt

CONSTANTS Files, ObjectOf,       \* File records and the bytes each describes
          PrivacyRank,           \* PRIVACY_RANK of each File's class
          CollectionRank,        \* and of the Collection's
          Snapshots, Members,    \* snapshots and the Files each lists
          Events, Cites,         \* run events and the Files each cites
          Before,                \* the snapshot or event each one follows
          Root,                  \* what the first snapshot and event follow
          Bound,                 \* the snapshot the run is bound to
          Replays,               \* replays of the run
          Start                  \* the store as the tools find it

Internal == 1
Restricted == 2

\* The name of a file is its registry and what sets it apart there; of the
\* two HEAD files it is what they point to, the one thing they hold.
Registries == <<"object", "file", "run", "event", "run-head", "replay", "report",
                "collection", "head", "snapshot">>
In(registry, names) == {<<registry, n>> : n \in names}
Names(store, registry) == {x[2] : x \in {i \in store : i[1] = registry}}
Collection == <<"collection", "C">>
Run == <<"run", "R">>

\* A snapshot or event and all before it; nothing comes before Root.
Line[x \in Snapshots \cup Events \cup {Root}] ==
  IF x = Root THEN {} ELSE {x} \cup Line[Before[x]]

Readable(store, files) ==
  /\ files \subseteq Names(store, "file")
  /\ {ObjectOf[f] : f \in files} \subseteq Names(store, "object")

-----------------------------------------------------------------------------
(* verify_run: the chain from the run's HEAD and every bound object.       *)

RunChain(store) == UNION {Line[h] : h \in Names(store, "run-head")}

VerifiesRun(store) ==
  /\ Run \in store
  /\ Cardinality(Names(store, "run-head")) = 1
  /\ RunChain(store) \subseteq Names(store, "event")
  /\ Collection \in store /\ Bound \in Names(store, "snapshot")
  /\ Readable(store, Members[Bound] \cup UNION {Cites[e] : e \in RunChain(store)})

(* _validate_canonical_store: every record of every registry is valid and  *)
(* reachable, a registry at a time.                                        *)

FilesValid(store) == Readable(store, Names(store, "file"))

\* A Collection is a directory, which has its record and its HEAD or is refused.
CollectionValid(store) ==
  \/ \A i \in store : i[1] \notin {"collection", "head", "snapshot"}
  \/ /\ Collection \in store
     /\ \E h \in Names(store, "head") :
          /\ Names(store, "head") = {h}
          /\ Names(store, "snapshot") = Line[h]
          /\ \A s \in Line[h] : /\ Members[s] \subseteq Names(store, "file")
                                /\ \A f \in Members[s] : PrivacyRank[f] <= CollectionRank

RunsValid(store) ==
  /\ Run \in store => VerifiesRun(store)
  /\ Names(store, "event") = RunChain(store)
  /\ Names(store, "run-head") # {} => Run \in store

ReplaysValid(store) ==
  /\ Names(store, "replay") # {} => Run \in store
  /\ Names(store, "report") = Names(store, "replay")

ValidStore(store) ==
  /\ FilesValid(store)
  /\ CollectionValid(store)
  /\ RunsValid(store)
  /\ ReplaysValid(store)

-----------------------------------------------------------------------------
(* The privacy of a store and of each file of it.                          *)

\* _privacy_max: never below INTERNAL.
PrivacyMax(ranks) == Max(ranks \cup {Internal})

StorePrivacy(store) ==
  PrivacyMax({PrivacyRank[f] : f \in Names(store, "file")}
             \cup {CollectionRank : c \in Names(store, "collection")})

\* The class a package gives a file it read, by what the validation saw: an
\* object has the strictest class of the Files that describe it, and without
\* one the class of the package.
Label(store, item) ==
  CASE item[1] = "object" ->
         LET describing == {f \in Names(store, "file") : ObjectOf[f] = item[2]}
         IN  IF describing = {} THEN StorePrivacy(store)
             ELSE PrivacyMax({PrivacyRank[f] : f \in describing})
    [] item[1] = "file" -> PrivacyRank[item[2]]
    [] item[1] \in {"collection", "head", "snapshot"} -> CollectionRank
    [] OTHER -> StorePrivacy(store)

-----------------------------------------------------------------------------
(* The clients of the live store.  Each write is one file; a client that   *)
(* is killed, or whose write raises, leaves what it wrote and never makes  *)
(* the next: no step here is ever owed.                                    *)

VARIABLE live    \* the files of the store

\* ControlStore.put_file
PutObject(f) ==
  /\ live' = live \cup {<<"object", ObjectOf[f]>>}

PutRecord(f) ==
  /\ ObjectOf[f] \in Names(live, "object")
  /\ live' = live \cup {<<"file", f>>}

\* ControlStore.update_collection: the snapshot, then HEAD.
WriteSnapshot(s) ==
  /\ Before[s] \in Names(live, "head")
  /\ Members[s] \subseteq {f \in Names(live, "file") : PrivacyRank[f] <= CollectionRank}
  /\ live' = live \cup {<<"snapshot", s>>}

AdvanceHead(s) ==
  /\ s \in Names(live, "snapshot") /\ Before[s] \in Names(live, "head")
  /\ live' = (live \ {<<"head", Before[s]>>}) \cup {<<"head", s>>}

\* InteractionStore.append_event: the event, then the run's HEAD.
WriteEvent(e) ==
  /\ Before[e] \in Names(live, "run-head")
  /\ Readable(live, Cites[e])
  /\ live' = live \cup {<<"event", e>>}

AdvanceRunHead(e) ==
  /\ e \in Names(live, "event") /\ Before[e] \in Names(live, "run-head")
  /\ live' = (live \ {<<"run-head", Before[e]>>}) \cup {<<"run-head", e>>}

\* ReplayStore.write_report and write_replay
WriteReport(r) ==
  /\ live' = live \cup {<<"report", r>>}

WriteReplay(r) ==
  /\ r \in Names(live, "report")
  /\ live' = live \cup {<<"replay", r>>}

LiveNext ==
  \/ \E f \in Files : PutObject(f) \/ PutRecord(f)
  \/ \E s \in Snapshots : WriteSnapshot(s) \/ AdvanceHead(s)
  \/ \E e \in Events : WriteEvent(e) \/ AdvanceRunHead(e)
  \/ \E r \in Replays : WriteReport(r) \/ WriteReplay(r)

\* Every file a store can have.
StoreItems ==
  In("object", {ObjectOf[f] : f \in Files}) \cup In("file", Files)
  \cup {Collection, Run} \cup In("head", Snapshots) \cup In("snapshot", Snapshots)
  \cup In("event", Events) \cup In("run-head", Events \cup {Root})
  \cup In("report", Replays) \cup In("replay", Replays)

StoreAssumption ==
  /\ ObjectOf \in [Files -> {ObjectOf[f] : f \in Files}]
  /\ PrivacyRank \in [Files -> {0, Internal, Restricted}]
  /\ CollectionRank \in {0, Internal, Restricted}
  /\ Members \in [Snapshots -> SUBSET Files]
  /\ Cites \in [Events -> SUBSET Files]
  /\ Before \in [Snapshots \cup Events -> Snapshots \cup Events \cup {Root}]
  /\ Bound \in Snapshots
  /\ Start \subseteq StoreItems /\ ValidStore(Start)
ASSUME StoreAssumption
=============================================================================
