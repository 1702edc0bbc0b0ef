--------------------------- MODULE PortableBundle ---------------------------
(***************************************************************************)
(* storage/concap_bundle.py: the portable bundle.  An export specification *)
(* binds roles to pack specifications; each pack becomes a capsule kept    *)
(* under its digest, an index (OBJECTS.json) lists the capsules and binds  *)
(* the roles to them, and a bootstrap (BOOTSTRAP.json) names the index.  A *)
(* finished tree can be written into one archive.                          *)
(*                                                                         *)
(* Nothing is staged and nothing is locked: a build checks that its        *)
(* directory is empty and then writes into it file after file, so two can  *)
(* have passed the check, and a build that is killed leaves what it wrote. *)
(*                                                                         *)
(* A file is the set of the values it can be read as: one, or none while   *)
(* it is half written.  A digest stands for what it is the digest of.      *)
(***************************************************************************)
EXTENDS RestoreCapsule

CONSTANTS Sources,         \* files under the source root
          Versions,        \* what a source file can hold
          PackOf,          \* a pack specification: a set of entry rows
          ExportSpecs,     \* [class, acknowledged, bindings: role -> pack]
          ClassRank,       \* PRIVACY_RANK
          Builders,        \* calls of build_bundle
          MaxEdits         \* bound: edits of the source files

ASSUME PortableAssumption == Versions # {} /\ MaxEdits \in Nat

VARIABLES sources,     \* what each source file holds
          edits,       \* edits made so far
          tree,        \* the output directory: path -> what it can be read as
          building,    \* what each call of build_bundle holds
          reading,     \* what each verification has read
          archive,     \* the archive: path -> what was read there
          archiving,   \* where the call of write_deterministic_zip is
          exports,     \* every export some call set out to write
          verified     \* every tree a verification found good, as it read it

portableVars == <<sources, edits, tree, building, reading, archive, archiving,
                  exports, verified>>

IndexPath == <<"OBJECTS.json">>
BootstrapPath == <<"BOOTSTRAP.json">>
ObjectPath(object) == <<"objects", object>>

HalfWritten == {}

\* f with value at x, as a dict item that is set.
With(f, x, value) ==
  [y \in DOMAIN f \cup {x} |-> IF y = x THEN value ELSE f[y]]

\* A verification is made by each build and by the archiver, whose own is all
\* that the verify command does.
Zip == "write_deterministic_zip"
Readers == Builders \cup {Zip}

NoBuild == [at |-> "new", spec |-> "none", packs |-> <<>>, todo |-> {}, open |-> {}]
NoReading == [at |-> "none", bootstrap |-> {}, index |-> {}]

-----------------------------------------------------------------------------
(* What an export is made of.                                              *)

\* validate_export_spec
ValidSpec(spec) ==
  /\ DOMAIN spec.bindings # {}
  /\ spec.class = "RESTRICTED" => spec.acknowledged

Packs(spec) == {spec.bindings[r] : r \in DOMAIN spec.bindings}

\* _portable_capsule_from_pack: every entry within the class of the export,
\* and none says where its bytes came from.
Exportable(pack, class) ==
  \A row \in PackOf[pack] : ClassRank[row.privacy] <= ClassRank[class]

CapsuleOfPack(pack) ==
  PackCapsule({Entry(row.path, sources[row.source], row.privacy, row.recovery) :
                 row \in PackOf[pack]})

Objects(packs) == {packs[p] : p \in DOMAIN packs}

\* The export a call writes once its packs are read.
IndexOf(spec, packs) ==
  [spec |-> spec, objects |-> Objects(packs),
   roles |-> [r \in DOMAIN spec.bindings |-> packs[spec.bindings[r]]]]

\* The files of an export.  The bootstrap repeats the bundle's identity and
\* class, which the index it names has too.
FilesOf(index) ==
  [path \in {ObjectPath(o) : o \in index.objects} \cup {IndexPath, BootstrapPath} |->
     CASE path = IndexPath -> {index}
       [] path = BootstrapPath -> {[index |-> index, class |-> index.spec.class]}
       [] OTHER -> {path[2]}]

-----------------------------------------------------------------------------
(* build_bundle                                                            *)

BuildStep(b, call) ==
  /\ building' = [building EXCEPT ![b] = call]
  /\ UNCHANGED <<sources, edits, archive>>

StartBuild(b, spec) ==
  /\ building[b].at = "new"
  /\ ValidSpec(ExportSpecs[spec])
  /\ DOMAIN tree = {}
  /\ BuildStep(b, [NoBuild EXCEPT !.at = "read", !.spec = spec])
  /\ UNCHANGED <<tree, reading, archiving, exports, verified>>

\* A pack is read once, whatever the number of roles bound to it; the sources
\* may change between two packs.  After the last the objects are known.
ReadPack(b) ==
  /\ building[b].at = "read"
  /\ LET call == building[b]
         spec == ExportSpecs[call.spec]
     IN  \E pack \in Packs(spec) \ DOMAIN call.packs :
           LET packs == With(call.packs, pack, CapsuleOfPack(pack))
               export == IndexOf(spec, packs)
           IN  /\ Exportable(pack, spec.class)
               /\ VerifiesCapsule(CapsuleOfPack(pack))
               /\ \/ /\ DOMAIN packs # Packs(spec)
                     /\ BuildStep(b, [call EXCEPT !.packs = packs])
                     /\ UNCHANGED exports
                  \/ /\ DOMAIN packs = Packs(spec)
                     /\ BuildStep(b, [call EXCEPT !.packs = packs, !.at = "write",
                                                  !.todo = DOMAIN FilesOf(export)])
                     /\ exports' = exports \cup {export}
  /\ UNCHANGED <<tree, reading, archiving, verified>>

\* The archive is of a tree nobody wrote in since its verification began.
Write(path, content) ==
  /\ tree' = With(tree, path, content)
  /\ archiving' = [archiving EXCEPT !.undisturbed = FALSE]

\* _write_bundle_bytes: the objects, then the index, then the bootstrap.  A
\* RESTRICTED file must not exist yet; any other is emptied.
OpenFile(b) ==
  /\ building[b].at = "write" /\ building[b].open = {}
  /\ \E path \in building[b].todo :
       /\ path = IndexPath => building[b].todo = {IndexPath, BootstrapPath}
       /\ path = BootstrapPath => building[b].todo = {BootstrapPath}
       /\ ExportSpecs[building[b].spec].class = "RESTRICTED" => path \notin DOMAIN tree
       /\ Write(path, HalfWritten)
       /\ BuildStep(b, [building[b] EXCEPT !.open = {path}, !.todo = @ \ {path}])
  /\ UNCHANGED <<reading, exports, verified>>

\* The bytes.  Where another call has written since, its tail may stay behind
\* them.
FillFile(b) ==
  /\ building[b].at = "write"
  /\ \E path \in building[b].open :
       LET call == building[b]
           bytes == FilesOf(IndexOf(ExportSpecs[call.spec], call.packs))[path]
       IN  /\ \/ Write(path, bytes)
              \/ tree[path] \notin {HalfWritten, bytes} /\ Write(path, HalfWritten)
           /\ BuildStep(b, [call EXCEPT !.open = {},
                                        !.at = IF call.todo = {} THEN "verify" ELSE @])
  /\ UNCHANGED <<reading, exports, verified>>

\* An exception or a kill: what was written stays, and keeps the next call out.
AbandonBuild(b) ==
  /\ building[b].at \in {"read", "write", "verify"}
  /\ BuildStep(b, [NoBuild EXCEPT !.at = "ended"])
  /\ reading' = [reading EXCEPT ![b] = NoReading]
  /\ UNCHANGED <<tree, archiving, exports, verified>>

\* It ends with a verification of its directory.
FinishBuild(b) ==
  /\ building[b].at = "verify" /\ reading[b].at = "good"
  /\ BuildStep(b, [NoBuild EXCEPT !.at = "ended"])
  /\ reading' = [reading EXCEPT ![b] = NoReading]
  /\ UNCHANGED <<tree, archiving, exports, verified>>

-----------------------------------------------------------------------------
(* verify_bundle reads the bootstrap, the index, the index again for its   *)
(* digest, the objects, and last the directory.                            *)

FileAt(path) == IF path \in DOMAIN tree THEN tree[path] ELSE {}

\* Each object has the bytes of its name, and nothing above the class.
ObjectsAgree(index) ==
  \A o \in index.objects :
    /\ FileAt(ObjectPath(o)) = {o}
    /\ VerifiesCapsule(o)
    /\ \A row \in o.rows : /\ row.source = NoSource
                           /\ ClassRank[row.privacy] <= ClassRank[index.spec.class]

\* _validate_index: roles are bound to objects of the index.
ValidIndex(index) ==
  /\ index.objects # {}
  /\ \A r \in DOMAIN index.roles : index.roles[r] \in index.objects

Verifies(v) ==
  /\ reading[v].at = "none"
  /\ IF v = Zip THEN archiving.at = "verify" ELSE building[v].at = "verify"

ReadStep(v, read) ==
  /\ reading' = [reading EXCEPT ![v] = read]
  /\ UNCHANGED <<sources, edits, tree, building, archive, archiving, exports>>

ReadBootstrap(v) ==
  /\ Verifies(v)
  /\ FileAt(BootstrapPath) # {}
  /\ ReadStep(v, [NoReading EXCEPT !.at = "index", !.bootstrap = FileAt(BootstrapPath)])
  /\ UNCHANGED verified

ReadIndex(v) ==
  /\ reading[v].at = "index"
  /\ FileAt(IndexPath) # {}
  /\ ReadStep(v, [reading[v] EXCEPT !.at = "digest", !.index = FileAt(IndexPath)])
  /\ UNCHANGED verified

\* The digest of the bytes, the identity of the index that was parsed, and the
\* class both declare.
IndexAgrees(bootstrap, index, bytes) ==
  /\ bytes = {bootstrap.index}
  /\ ValidIndex(index)
  /\ bootstrap.index = index
  /\ bootstrap.class = index.spec.class

DigestIndex(v) ==
  /\ reading[v].at = "digest"
  /\ \E bootstrap \in reading[v].bootstrap, index \in reading[v].index :
       IndexAgrees(bootstrap, index, FileAt(IndexPath))
  /\ ReadStep(v, [reading[v] EXCEPT !.at = "objects"])
  /\ UNCHANGED verified

ReadObjects(v) ==
  /\ reading[v].at = "objects"
  /\ \A index \in reading[v].index : ObjectsAgree(index)
  /\ ReadStep(v, [reading[v] EXCEPT !.at = "files"])
  /\ UNCHANGED verified

\* A faulty form: what is declared is there, and maybe more
FileSetSuffices(index) == DOMAIN FilesOf(index) \subseteq DOMAIN tree

\* The files that are there are the files that are declared.
FileSetAgrees(index) == DOMAIN tree = DOMAIN FilesOf(index)

\* What was read: the two documents, and under the name of each file found an
\* object that was checked, or one that was not.
ReadTree(read, paths) ==
  [path \in paths |->
     CASE path = IndexPath -> read.index
       [] path = BootstrapPath -> read.bootstrap
       [] OTHER -> IF \E i \in read.index : path[2] \in i.objects THEN {path[2]}
                   ELSE HalfWritten]

ListFiles(v) ==
  /\ reading[v].at = "files"
  /\ \A index \in reading[v].index : FileSetAgrees(index)
  /\ ReadStep(v, [NoReading EXCEPT !.at = "good"])
  /\ verified' = verified \cup {ReadTree(reading[v], DOMAIN tree)}

-----------------------------------------------------------------------------
(* write_deterministic_zip                                                 *)

ZipStep(call) ==
  /\ archiving' = call
  /\ UNCHANGED <<sources, edits, tree, building, exports, verified>>

\* A call that finds no bootstrap raises at once, and may be made again.
StartZip ==
  /\ archiving.at = "new" /\ archive = <<>>
  /\ FileAt(BootstrapPath) # {}
  /\ ZipStep([archiving EXCEPT !.at = "verify", !.undisturbed = TRUE])
  /\ UNCHANGED <<archive, reading>>

\* The files are listed anew, and the archive must not exist yet.
OpenZip ==
  /\ archiving.at = "verify" /\ reading[Zip].at = "good"
  /\ ZipStep([archiving EXCEPT !.at = "members", !.todo = DOMAIN tree])
  /\ reading' = [reading EXCEPT ![Zip] = NoReading]
  /\ UNCHANGED archive

\* Every file is read a second time, in the order of the names.
AddMember ==
  /\ archiving.at = "members"
  /\ \E path \in archiving.todo :
       /\ path # BootstrapPath => BootstrapPath \notin archiving.todo
       /\ path \notin {BootstrapPath, IndexPath} => IndexPath \notin archiving.todo
       /\ archive' = With(archive, path, FileAt(path))
       /\ ZipStep([archiving EXCEPT !.todo = @ \ {path}])
  /\ UNCHANGED reading

CloseZip ==
  /\ archiving.at = "members" /\ archiving.todo = {}
  /\ ZipStep([archiving EXCEPT !.at = "closed"])
  /\ UNCHANGED <<archive, reading>>

\* An exception removes the archive; a kill leaves it, unclosed and unreadable.
AbandonZip ==
  /\ archiving.at \in {"verify", "members"}
  /\ ZipStep([archiving EXCEPT !.at = "ended", !.todo = {}])
  /\ reading' = [reading EXCEPT ![Zip] = NoReading]
  /\ archive' \in {archive, <<>>}

-----------------------------------------------------------------------------
\* An edit while no call reads the sources is counted where one reads again.
EditSource(s, version) ==
  /\ edits < MaxEdits
  /\ \E b \in Builders : building[b].at = "read"
  /\ sources[s] # version
  /\ edits' = edits + 1
  /\ sources' = [sources EXCEPT ![s] = version]
  /\ UNCHANGED <<tree, building, reading, archive, archiving, exports, verified>>

PortableInit ==
  /\ sources \in [Sources -> {CHOOSE v \in Versions : TRUE}]
  /\ edits = 0
  /\ tree = <<>>
  /\ building = [b \in Builders |-> NoBuild]
  /\ reading = [v \in Readers |-> NoReading]
  /\ archive = <<>>
  /\ archiving = [at |-> "new", todo |-> {}, undisturbed |-> FALSE]
  /\ exports = {}
  /\ verified = {}

PortableNext ==
  \/ \E b \in Builders :
       \/ \E spec \in DOMAIN ExportSpecs : StartBuild(b, spec)
       \/ ReadPack(b) \/ OpenFile(b) \/ FillFile(b) \/ FinishBuild(b) \/ AbandonBuild(b)
  \/ \E v \in Readers :
       \/ ReadBootstrap(v) \/ ReadIndex(v) \/ DigestIndex(v)
       \/ ReadObjects(v) \/ ListFiles(v)
  \/ StartZip \/ OpenZip \/ AddMember \/ CloseZip \/ AbandonZip
  \/ \E s \in Sources, version \in Versions : EditSource(s, version)

-----------------------------------------------------------------------------
PortableTypeOK ==
  /\ sources \in [Sources -> Versions]
  /\ edits \in 0..MaxEdits
  /\ \A path \in DOMAIN tree : Cardinality(tree[path]) <= 1
  /\ \A b \in Builders : building[b].at \in {"new", "read", "write", "verify", "ended"}
  /\ \A v \in Readers :
       reading[v].at \in {"none", "index", "digest", "objects", "files", "good"}
  /\ archiving.at \in {"new", "verify", "members", "closed", "ended"}

(* A tree that a verification found good is one export, whole and with     *)
(* nothing else in it: what was read there is exactly what one call of     *)
(* build_bundle set out to write, though the reading takes several steps   *)
(* in which other calls write in the same directory, though half-written   *)
(* trees stay behind, and though the sources change between two reads.     *)
(* Nothing in it is above the class the export was allowed.  The archive   *)
(* of a tree nobody wrote in meanwhile is such a tree; of any other it is  *)
(* what its second reading found (storage/concap_bundle.py:569-670, 722).  *)
VerifiedTreesAreOneExport ==
  /\ \A found \in verified : \E export \in exports :
       /\ found = FilesOf(export)
       /\ ValidSpec(export.spec)
       /\ \A o \in export.objects : \A row \in o.rows :
            ClassRank[row.privacy] <= ClassRank[export.spec.class]
  /\ archiving.at = "closed" /\ archiving.undisturbed => archive \in verified
=============================================================================
