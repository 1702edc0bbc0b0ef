---------------------------- MODULE SearchIndex ----------------------------
(***************************************************************************)
(* storage/control_store.py and webui/runtime_storage.py: the search       *)
(* indexes of one Collection, built, registered and searched while others  *)
(* update the Collection.  Lexical and semantic indexes each have a head   *)
(* file of their own, a lock file of their own, and records that are never *)
(* changed once written.                                                   *)
(*                                                                         *)
(* The Collection is the register that ControlStore implements: its HEAD   *)
(* never returns to an earlier snapshot, so snapshots are numbered in the  *)
(* order HEAD takes them.                                                  *)
(***************************************************************************)
EXTENDS Naturals

CONSTANTS Clients,     \* processes and threads that use the store
          Embeddings,  \* vectors and embedding descriptors callers register
          Terms,       \* stands for the term counts of a lexical index
          Free, Dead,  \* lock states: no lock file; its owner is gone
          MaxHead      \* bound: HEAD moves no further

ASSUME IndexAssumption ==
  /\ Free \notin Clients /\ Dead \notin Clients /\ Free # Dead
  /\ MaxHead \in Nat \ {0}

Kinds == {"lexical", "semantic"}
LockNames == Kinds \cup {"collection"}

\* The index_id covers everything but built_at.
Index == [kind : Kinds, snapshot : 1 .. MaxHead, content : Embeddings \cup {Terms}]
NoIndex == [kind |-> "none"]
NoSnapshot == 0

VARIABLES head,      \* the Collection's HEAD snapshot
          indexes,   \* search-index records stored
          indexHead, \* index-heads/: the index each kind's head names
          lock,      \* the lock files
          pc,        \* what each client does next
          outer,     \* the snapshot search_collection read under its lock
          seen,      \* the snapshot the search read
          index,     \* the index a client writes or answers from
          began,     \* history: HEAD when the call began
          registered \* history: snapshots with a completed registration

locals == <<outer, seen, index, began>>
vars == <<head, indexes, indexHead, lock, pc, locals, registered>>

Steps == {"idle", "locked_read", "search_read", "search_head", "build",
          "semantic_read", "semantic_head", "register", "index_lock",
          "index_record", "index_head", "index_unlock", "answer"}

TypeOK ==
  /\ head \in 1 .. MaxHead
  /\ indexes \subseteq Index
  /\ \A k \in Kinds : indexHead[k] = NoIndex \/ indexHead[k] \in Index
  /\ lock \in [LockNames -> Clients \cup {Free, Dead}]
  /\ pc \in [Clients -> Steps]
  /\ outer \in [Clients -> 0 .. MaxHead]
  /\ seen \in [Clients -> 0 .. MaxHead]
  /\ \A c \in Clients : index[c] = NoIndex \/ index[c] \in Index
  /\ began \in [Clients -> 0 .. MaxHead]
  /\ registered \subseteq 1 .. MaxHead

Init ==
  /\ head = 1
  /\ indexes = {}
  /\ indexHead = [k \in Kinds |-> NoIndex]
  /\ lock = [l \in LockNames |-> Free]
  /\ pc = [c \in Clients |-> "idle"]
  /\ outer = [c \in Clients |-> NoSnapshot]
  /\ seen = [c \in Clients |-> NoSnapshot]
  /\ index = [c \in Clients |-> NoIndex]
  /\ began = [c \in Clients |-> NoSnapshot]
  /\ registered = {}

Goto(c, from, to) == pc[c] = from /\ pc' = [pc EXCEPT ![c] = to]

Forget(c) ==
  /\ outer' = [outer EXCEPT ![c] = NoSnapshot]
  /\ seen' = [seen EXCEPT ![c] = NoSnapshot]
  /\ index' = [index EXCEPT ![c] = NoIndex]
  /\ began' = [began EXCEPT ![c] = NoSnapshot]

Acquire(c, l) == lock[l] = Free /\ lock' = [lock EXCEPT ![l] = c]

\* What the caller's with blocks still hold is given up when the call ends.
End(c) ==
  /\ pc' = [pc EXCEPT ![c] = "idle"]
  /\ lock' = [l \in LockNames |-> IF lock[l] = c THEN Free ELSE lock[l]]
  /\ Forget(c)

-----------------------------------------------------------------------------
(* update_collection by somebody: see ControlStore.                        *)

MoveHead ==
  /\ lock["collection"] = Free
  /\ head < MaxHead
  /\ head' = head + 1
  /\ UNCHANGED <<indexes, indexHead, lock, pc, locals, registered>>

-----------------------------------------------------------------------------
(* search_collection takes the Collection's writer lock and then searches; *)
(* search_lexical does not lock.                                           *)

BeginLockedSearchUnlocked(c) ==
  /\ Goto(c, "idle", "locked_read")
  /\ began' = [began EXCEPT ![c] = head]
  /\ UNCHANGED <<head, indexes, indexHead, lock, outer, seen, index, registered>>

BeginLockedSearch(c) ==
  /\ Goto(c, "idle", "locked_read")
  /\ Acquire(c, "collection")
  /\ began' = [began EXCEPT ![c] = head]
  /\ UNCHANGED <<head, indexes, indexHead, outer, seen, index, registered>>

LockedRead(c) ==
  /\ Goto(c, "locked_read", "search_read")
  /\ outer' = [outer EXCEPT ![c] = head]
  /\ UNCHANGED <<head, indexes, indexHead, lock, seen, index, began, registered>>

Begin(c, step) ==
  /\ Goto(c, "idle", step)
  /\ began' = [began EXCEPT ![c] = head]
  /\ UNCHANGED <<head, indexes, indexHead, lock, outer, seen, index, registered>>

BeginSearch(c) == Begin(c, "search_read")

SearchRead(c) ==
  /\ \/ Goto(c, "search_read", "search_head")
     \/ Goto(c, "semantic_read", "semantic_head")
  /\ seen' = [seen EXCEPT ![c] = head]
  /\ UNCHANGED <<head, indexes, indexHead, lock, outer, index, began, registered>>

HasHead(k) == indexHead[k] # NoIndex

FreshAny(c, k) == HasHead(k)

\* The index head names an index for the snapshot the search has read.
Fresh(c, k) == HasHead(k) /\ indexHead[k].snapshot = seen[c]

AnswerFrom(c, k) ==
  /\ Fresh(c, k)
  /\ index' = [index EXCEPT ![c] = indexHead[k]]
  /\ UNCHANGED <<head, indexes, indexHead, lock, outer, seen, began, registered>>

SearchIndexed(c) == Goto(c, "search_head", "answer") /\ AnswerFrom(c, "lexical")

SearchStale(c) ==
  /\ Goto(c, "search_head", "build")
  /\ ~Fresh(c, "lexical")
  /\ UNCHANGED <<head, indexes, indexHead, lock, locals, registered>>

-----------------------------------------------------------------------------
(* build_lexical_index, by itself or inside a search, and                  *)
(* register_semantic_index: both read HEAD (a search for the second time), *)
(* compute the record, and call _write_index.                              *)

BeginBuild(c) == Begin(c, "build")

BeginRegister(c) == Begin(c, "register")

BuildFromSearch(c) ==
  /\ Goto(c, "build", "index_lock")
  /\ index' = [index EXCEPT ![c] =
       [kind |-> "lexical", snapshot |-> seen[c], content |-> Terms]]
  /\ UNCHANGED <<head, indexes, indexHead, lock, outer, seen, began, registered>>

Build(c) ==
  /\ Goto(c, "build", "index_lock")
  /\ index' = [index EXCEPT ![c] =
       [kind |-> "lexical", snapshot |-> head, content |-> Terms]]
  /\ UNCHANGED <<head, indexes, indexHead, lock, outer, seen, began, registered>>

\* The vectors cover the members of the snapshot that is HEAD now.
Register(c) ==
  /\ Goto(c, "register", "index_lock")
  /\ \E e \in Embeddings :
       index' = [index EXCEPT ![c] =
         [kind |-> "semantic", snapshot |-> head, content |-> e]]
  /\ UNCHANGED <<head, indexes, indexHead, lock, outer, seen, began, registered>>

IndexLock(c) ==
  /\ Goto(c, "index_lock", "index_record")
  /\ Acquire(c, index[c].kind)
  /\ UNCHANGED <<head, indexes, indexHead, locals, registered>>

IndexRecordSkipped(c) ==
  /\ Goto(c, "index_record", "index_head")
  /\ UNCHANGED <<head, indexes, indexHead, lock, locals, registered>>

\* A record with this identity that is there already is kept.
IndexRecord(c) ==
  /\ Goto(c, "index_record", "index_head")
  /\ indexes' = indexes \cup {index[c]}
  /\ UNCHANGED <<head, indexHead, lock, locals, registered>>

IndexHead(c) ==
  /\ Goto(c, "index_head", "index_unlock")
  /\ indexHead' = [indexHead EXCEPT ![index[c].kind] = index[c]]
  /\ UNCHANGED <<head, indexes, lock, locals, registered>>

\* A search goes on to answer from the index it has built.
IndexUnlockInSearch(c) ==
  /\ seen[c] # NoSnapshot
  /\ Goto(c, "index_unlock", "answer")
  /\ lock' = [lock EXCEPT ![index[c].kind] = Free]
  /\ UNCHANGED <<head, indexes, indexHead, locals, registered>>

IndexUnlock(c) ==
  /\ pc[c] = "index_unlock" /\ seen[c] = NoSnapshot
  /\ registered' = IF index[c].kind = "semantic"
                   THEN registered \cup {index[c].snapshot} ELSE registered
  /\ End(c)
  /\ UNCHANGED <<head, indexes, indexHead>>

-----------------------------------------------------------------------------
(* search_semantic                                                         *)

BeginSemantic(c) == Begin(c, "semantic_read")

SemanticIndexed(c) ==
  Goto(c, "semantic_head", "answer") /\ AnswerFrom(c, "semantic")

\* No index, or one for another snapshot: the search fails closed.
SemanticStale(c) ==
  /\ pc[c] = "semantic_head" /\ ~Fresh(c, "semantic")
  /\ End(c)
  /\ UNCHANGED <<head, indexes, indexHead, registered>>

Answer(c) ==
  /\ pc[c] = "answer"
  /\ End(c)
  /\ UNCHANGED <<head, indexes, indexHead, registered>>

-----------------------------------------------------------------------------
(* Failures                                                                *)

\* A read or write raises, or a lock file is there already.
Fail(c) ==
  /\ pc[c] \notin {"idle", "index_unlock"}
  /\ End(c)
  /\ UNCHANGED <<head, indexes, indexHead, registered>>

\* The process is killed: its lock files stay, those of a search included.  A
\* lock file whose first write raises stays in the same way.
Kill(c) ==
  /\ pc[c] # "idle"
  /\ pc' = [pc EXCEPT ![c] = "idle"]
  /\ lock' = [l \in LockNames |-> IF lock[l] = c THEN Dead ELSE lock[l]]
  /\ Forget(c)
  /\ UNCHANGED <<head, indexes, indexHead, registered>>

OperatorUnlock(l) ==
  /\ lock[l] = Dead
  /\ lock' = [lock EXCEPT ![l] = Free]
  /\ UNCHANGED <<head, indexes, indexHead, pc, locals, registered>>

Search(c) ==
  \/ BeginLockedSearch(c) \/ LockedRead(c) \/ BeginSearch(c) \/ SearchRead(c)
  \/ SearchIndexed(c) \/ SearchStale(c) \/ Answer(c)
  \/ BeginSemantic(c) \/ SemanticIndexed(c) \/ SemanticStale(c)

Write(c) ==
  \/ BeginBuild(c) \/ Build(c) \/ BeginRegister(c) \/ Register(c)
  \/ IndexLock(c) \/ IndexRecord(c) \/ IndexHead(c)
  \/ IndexUnlockInSearch(c) \/ IndexUnlock(c)

Next ==
  \/ MoveHead
  \/ \E c \in Clients : Search(c) \/ Write(c) \/ Fail(c) \/ Kill(c)
  \/ \E l \in LockNames : OperatorUnlock(l)

Spec == Init /\ [][Next]_vars

-----------------------------------------------------------------------------
(* Properties                                                              *)

\* An index head, read at any moment and without a lock, names a stored record
\* of its own kind: get_index never meets an unknown index_id.
IndexHeadsResolve ==
  \A k \in Kinds : HasHead(k) => indexHead[k] \in indexes /\ indexHead[k].kind = k

\* No search answers from an index whose snapshot was not HEAD at some moment
\* of the call, whoever updates the Collection or rewrites an index head while
\* it runs (HEAD takes the snapshots in order, each once).
AnswersAreLive ==
  \A c \in Clients : pc[c] = "answer" =>
    index[c] \in indexes /\ began[c] <= index[c].snapshot /\ index[c].snapshot <= head

\* A search that holds the Collection's lock answers for exactly the snapshot it
\* read first, which is HEAD still: the mismatch that search_collection raises
\* on its own results cannot happen.
LockedAnswersAreCurrent ==
  \A c \in Clients : pc[c] = "answer" /\ outer[c] # NoSnapshot =>
    outer[c] = head /\ index[c].snapshot = head

\* "semantic search fails closed until a new index is registered"
\* (docs/PERSISTENT-STORAGE.md:179): once an index for the present HEAD has been
\* registered, the head file names one.  A registration that read an earlier
\* HEAD and writes late takes the head file back.
RegisteredIndexServes ==
  head \in registered => indexHead["semantic"].snapshot = head
=============================================================================
