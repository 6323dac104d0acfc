----------------------------- MODULE Bm25Cache -----------------------------
(***************************************************************************)
(* The BM25 index of server/agent/node/retriever.py: one copy in the memory *)
(* of each Python process, guarded by a lock with a double check, and one   *)
(* copy on disk (a pickle and a version file) that all processes share.     *)
(* Ingestion adds vectors to Pinecone and then invalidates the copy of its  *)
(* own process and the one on disk.                                         *)
(*                                                                         *)
(* A step is one access to memory, disk or Pinecone.  A copy of the index   *)
(* is the set of chunks it was built from.  A retrieval or an ingestion     *)
(* runs in any process.                                                     *)
(***************************************************************************)
EXTENDS Integers, FiniteSets

CONSTANTS
  Processes,    \* Python processes
  Threads,      \* threads that retrieve
  Ingesters,    \* threads that ingest, each one batch
  Chunks,       \* vectors Pinecone may hold
  Initial,      \* vectors it holds at first
  None,         \* no copy, no file, nobody
  Torn,         \* a pickle that cannot be read
  Overlapping,  \* whether vectors are added while an index is built
  Replacing,    \* whether vectors are replaced one for one
  Failing       \* whether Pinecone and the disk may fail

Workers == Threads \cup Ingesters

ASSUME WorkersAssumption == Threads \cap Ingesters = {}
ASSUME NoneAssumption    == None \notin Threads
ASSUME InitialAssumption == Initial \subseteq Chunks
ASSUME ChunksAssumption  == IsFiniteSet(Chunks)
ASSUME SwitchAssumption  == {Overlapping, Replacing, Failing} \subseteq BOOLEAN

VARIABLES
  index,     \* what Pinecone holds
  memory,    \* _bm25_cache["instance"] of each process
  lock,      \* holder of _bm25_lock of each process
  pickle,    \* _BM25_CACHE_FILE: the writer's name while it is written
  version,   \* _BM25_VERSION_FILE
  pc,        \* the step each thread takes next
  at,        \* the process it runs in
  found,     \* the copy a thread is building or has loaded
  stamp,     \* the version a thread has read
  batch,     \* the vectors an ingester adds
  cold,      \* history: the process had no copy when the retrieval began
  due,       \* history: what had been ingested when the retrieval began
  ingested,  \* history: what was ingested and invalidated for
  quiet      \* history: nothing failed and no vector changed during a build

files  == <<pickle, version>>
locals == <<at, found, stamp, cold, due>>
vars   == <<index, memory, lock, pickle, version, pc, at, found, stamp, batch,
            cold, due, ingested, quiet>>

----------------------------------------------------------------------------
Unknown == -1

\* Mutant: the version names the index but counts nothing.
PineconeVersion_NameOnly == 0

\* The vector counts; the hash adds nothing to them.
PineconeVersion == Cardinality(index)

\* The code up to here failed in no way that it passes over in silence.
Fine == UNCHANGED quiet

Fails == Failing /\ quiet' = FALSE

\* _get_pinecone_version reports an error as a version of its own.
GetPineconeVersion(v) ==
  \/ v = PineconeVersion /\ Fine
  \/ v = Unknown /\ Fails

\* A thread is between the listing of Pinecone and the end of the save.
Building == {"list", "fetch", "open", "dump", "version", "stamp"}

Goto(t, step) == pc' = [pc EXCEPT ![t] = step]

Release(t) == lock' = [lock EXCEPT ![at[t]] = None]

Remember(t, copy) == memory' = [memory EXCEPT ![at[t]] = copy]

Forgotten(t) ==
  /\ Goto(t, "idle")
  /\ at' = [at EXCEPT ![t] = None]
  /\ found' = [found EXCEPT ![t] = {}]
  /\ stamp' = [stamp EXCEPT ![t] = Unknown]
  /\ cold' = [cold EXCEPT ![t] = FALSE]
  /\ due' = [due EXCEPT ![t] = {}]

Init ==
  /\ index = Initial
  /\ memory = [p \in Processes |-> None]
  /\ lock = [p \in Processes |-> None]
  /\ pickle = None
  /\ version = None
  /\ pc = [w \in Workers |-> "idle"]
  /\ at = [w \in Workers |-> None]
  /\ found = [t \in Threads |-> {}]
  /\ stamp = [t \in Threads |-> Unknown]
  /\ batch = [i \in Ingesters |-> {}]
  /\ cold = [t \in Threads |-> FALSE]
  /\ due = [t \in Threads |-> {}]
  /\ ingested = {}
  /\ quiet = TRUE

----------------------------------------------------------------------------
(* _get_bm25_retriever *)

\* The fast path, without the lock.
Retrieve(t, p) ==
  /\ pc[t] = "idle"
  /\ at' = [at EXCEPT ![t] = p]
  /\ due' = [due EXCEPT ![t] = ingested]
  /\ cold' = [cold EXCEPT ![t] = memory[p] = None]
  /\ IF memory[p] # None
     THEN /\ found' = [found EXCEPT ![t] = memory[p]]
          /\ Goto(t, "use")
     ELSE /\ Goto(t, "acquire")
          /\ UNCHANGED found
  /\ UNCHANGED <<index, memory, lock, stamp, batch, ingested, quiet>>
  /\ UNCHANGED files

\* Mutant: the copy is not looked for again under the lock.
Acquire_NoSecondCheck(t) ==
  /\ pc[t] = "acquire"
  /\ lock[at[t]] = None
  /\ lock' = [lock EXCEPT ![at[t]] = t]
  /\ Goto(t, "load")
  /\ UNCHANGED <<index, memory, at, found, stamp, batch, cold, due, ingested,
                 quiet>>
  /\ UNCHANGED files

\* The lock, and the check that is made again under it.
Acquire(t) ==
  /\ pc[t] = "acquire"
  /\ lock[at[t]] = None
  /\ IF memory[at[t]] # None
     THEN /\ found' = [found EXCEPT ![t] = memory[at[t]]]
          /\ Goto(t, "use")
          /\ UNCHANGED lock
     ELSE /\ lock' = [lock EXCEPT ![at[t]] = t]
          /\ Goto(t, "load")
          /\ UNCHANGED found
  /\ UNCHANGED <<index, memory, at, stamp, batch, cold, due, ingested, quiet>>
  /\ UNCHANGED files

\* Mutant: the lock is not freed on an exception.
Raise_Locked(t) ==
  /\ Forgotten(t)
  /\ UNCHANGED <<lock, memory>>

\* The retrieval ends with an exception; the with statement frees the lock.
Raise(t) ==
  /\ Forgotten(t)
  /\ Release(t)
  /\ UNCHANGED memory

\* The copy is kept for the process and the lock freed.
Keep(t, copy) ==
  /\ Remember(t, copy)
  /\ found' = [found EXCEPT ![t] = copy]
  /\ Goto(t, "use")
  /\ Release(t)
  /\ UNCHANGED <<at, stamp, cold, due>>

\* Neither file may be missing.
LoadVersion(t) ==
  /\ pc[t] = "load"
  /\ IF pickle = None \/ version = None
     THEN Goto(t, "list") /\ UNCHANGED stamp
     ELSE /\ Goto(t, "compare")
          /\ stamp' = [stamp EXCEPT ![t] = version]
  /\ UNCHANGED <<index, memory, lock, at, found, batch, cold, due, ingested,
                 quiet>>
  /\ UNCHANGED files

CompareVersion(t) ==
  /\ pc[t] = "compare"
  /\ \E v \in {PineconeVersion, Unknown} :
       /\ GetPineconeVersion(v)
       /\ Goto(t, IF stamp[t] = v THEN "unpickle" ELSE "list")
  /\ UNCHANGED <<index, memory, lock, batch, ingested>>
  /\ UNCHANGED locals
  /\ UNCHANGED files

\* A file that a thread has opened for writing, or one that was cut short.
Unreadable == Threads \cup {Torn}

\* An unreadable pickle is rebuilt.  One that has gone since is an OSError, and
\* one written by two processes at once may raise anything: neither is caught.
Unpickle(t) ==
  /\ pc[t] = "unpickle"
  /\ \/ /\ pickle \in {None, Torn}
        /\ Raise(t)
     \/ /\ pickle \in Unreadable
        /\ Goto(t, "list")
        /\ UNCHANGED <<memory, lock>>
        /\ UNCHANGED locals
     \/ /\ pickle \notin Unreadable \cup {None}
        /\ Keep(t, pickle)
  /\ UNCHANGED <<index, batch, ingested, quiet>>
  /\ UNCHANGED files

ListIds(t) ==
  /\ pc[t] = "list"
  /\ found' = [found EXCEPT ![t] = index]
  /\ Goto(t, "fetch")
  /\ UNCHANGED <<index, memory, lock, at, stamp, batch, cold, due, ingested,
                 quiet>>
  /\ UNCHANGED files

\* Mutant: the last batch of ids is never fetched.
Fetched_WithoutLastBatch(ids) == {}

\* The listed vectors that are still there.
Fetched(ids) == ids \cap index

\* No chunks at all are not saved.
Built(t, docs) ==
  IF docs = {}
  THEN Keep(t, {})
  ELSE /\ Remember(t, docs)
       /\ found' = [found EXCEPT ![t] = docs]
       /\ Goto(t, "open")
       /\ UNCHANGED <<lock, at, stamp, cold, due>>

\* On an error the zero-vector query returns some of what is there; if that
\* fails as well the error is raised.
FetchChunks(t) ==
  /\ pc[t] = "fetch"
  /\ \/ Built(t, Fetched(found[t])) /\ Fine
     \/ (\E docs \in SUBSET index : Built(t, docs)) /\ Fails
     \/ Raise(t) /\ Fails
  /\ UNCHANGED <<index, batch, ingested>>
  /\ UNCHANGED files

\* A save that fails is given up; the copy in memory stays.
Saved(t) == Goto(t, "use") /\ Release(t)

OpenPickle(t) ==
  /\ pc[t] = "open"
  /\ \/ /\ pickle' = t
        /\ Goto(t, "dump")
        /\ Fine
        /\ UNCHANGED lock
     \/ /\ Fails
        /\ Saved(t)
        /\ UNCHANGED pickle
  /\ UNCHANGED <<index, memory, version, batch, ingested>>
  /\ UNCHANGED locals

\* A file opened or unlinked by another process since is another file's
\* contents, or nobody's.
DumpPickle(t) ==
  /\ pc[t] = "dump"
  /\ \/ /\ pickle' \in IF pickle = t THEN {found[t]}
                       ELSE IF pickle = None THEN {None} ELSE {pickle, Torn}
        /\ Goto(t, "version")
        /\ Fine
        /\ UNCHANGED lock
     \/ /\ Fails
        /\ pickle' = IF pickle = t THEN Torn ELSE pickle
        /\ Saved(t)
  /\ UNCHANGED <<index, memory, version, batch, ingested>>
  /\ UNCHANGED locals

GetVersion(t) ==
  /\ pc[t] = "version"
  /\ \E v \in {PineconeVersion, Unknown} :
       /\ GetPineconeVersion(v)
       /\ stamp' = [stamp EXCEPT ![t] = v]
  /\ Goto(t, "stamp")
  /\ UNCHANGED <<index, memory, lock, at, found, batch, cold, due, ingested>>
  /\ UNCHANGED files

WriteVersion(t) ==
  /\ pc[t] = "stamp"
  /\ version' = stamp[t]
  /\ Saved(t)
  /\ UNCHANGED <<index, memory, pickle, batch, ingested, quiet>>
  /\ UNCHANGED locals

\* The retriever the thread got answers its query.
Use(t) ==
  /\ pc[t] = "use"
  /\ Forgotten(t)
  /\ UNCHANGED <<index, memory, lock, batch, ingested, quiet>>
  /\ UNCHANGED files

----------------------------------------------------------------------------
(* Ingestion and invalidate_bm25_cache *)

BuildGoesOn == \E t \in Threads : pc[t] \in Building

Upsert(i, p) ==
  /\ pc[i] = "idle"
  /\ BuildGoesOn => Overlapping
  /\ \E c \in Chunks \ index :
       /\ index' = index \cup {c}
       /\ batch' = [batch EXCEPT ![i] = {c}]
  /\ quiet' = (quiet /\ ~BuildGoesOn)
  /\ at' = [at EXCEPT ![i] = p]
  /\ Goto(i, "clear")
  /\ UNCHANGED <<memory, lock, found, stamp, cold, due, ingested>>
  /\ UNCHANGED files

ClearMemory(i) ==
  /\ pc[i] = "clear"
  /\ lock[at[i]] = None
  /\ Remember(i, None)
  /\ Goto(i, "unlink_pickle")
  /\ UNCHANGED <<index, lock, batch, ingested, quiet>>
  /\ UNCHANGED locals
  /\ UNCHANGED files

\* The invalidation returns; an OSError while unlinking is passed over.
Invalidated(i) ==
  /\ ingested' = ingested \cup batch[i]
  /\ Goto(i, "done")

UnlinkPickle(i) ==
  /\ pc[i] = "unlink_pickle"
  /\ \/ /\ pickle' = None
        /\ Goto(i, "unlink_version")
        /\ Fine
        /\ UNCHANGED ingested
     \/ /\ Fails
        /\ Invalidated(i)
        /\ UNCHANGED pickle
  /\ UNCHANGED <<index, memory, lock, version, batch>>
  /\ UNCHANGED locals

UnlinkVersion(i) ==
  /\ pc[i] = "unlink_version"
  /\ \/ version' = None /\ Fine
     \/ UNCHANGED version /\ Fails
  /\ Invalidated(i)
  /\ UNCHANGED <<index, memory, lock, pickle, batch>>
  /\ UNCHANGED locals

\* A document is updated in the vector store, outside this code.
Replace ==
  /\ Replacing
  /\ \E c \in index \ ingested, d \in Chunks \ index :
       index' = (index \ {c}) \cup {d}
  /\ quiet' = FALSE
  /\ UNCHANGED <<memory, lock, pc, batch, ingested>>
  /\ UNCHANGED locals
  /\ UNCHANGED files

\* A process is restarted.  One that ingests is not: an ingestion that is cut
\* off is never said to have finished.
Restart(p) ==
  LET mine == {t \in Threads : at[t] = p}
      Keeps(f, default) == [t \in Threads |-> IF t \in mine THEN default ELSE f[t]]
  IN
  /\ \A i \in Ingesters : at[i] = p => pc[i] = "done"
  /\ memory' = [memory EXCEPT ![p] = None]
  /\ lock' = [lock EXCEPT ![p] = None]
  /\ pc' = [w \in Workers |-> IF w \in mine THEN "idle" ELSE pc[w]]
  /\ at' = [w \in Workers |-> IF w \in mine THEN None ELSE at[w]]
  /\ found' = Keeps(found, {})
  /\ stamp' = Keeps(stamp, Unknown)
  /\ cold' = Keeps(cold, FALSE)
  /\ due' = Keeps(due, {})
  /\ pickle' = IF pickle \in mine THEN Torn ELSE pickle
  /\ UNCHANGED <<index, version, batch, ingested, quiet>>

Thread(t) ==
  \/ Acquire(t)
  \/ LoadVersion(t)
  \/ CompareVersion(t)
  \/ Unpickle(t)
  \/ ListIds(t)
  \/ FetchChunks(t)
  \/ OpenPickle(t)
  \/ DumpPickle(t)
  \/ GetVersion(t)
  \/ WriteVersion(t)
  \/ Use(t)

Invalidate(i) == ClearMemory(i) \/ UnlinkPickle(i) \/ UnlinkVersion(i)

Next ==
  \/ \E t \in Threads : (\E p \in Processes : Retrieve(t, p)) \/ Thread(t)
  \/ \E i \in Ingesters : (\E p \in Processes : Upsert(i, p)) \/ Invalidate(i)
  \/ Replace
  \/ \E p \in Processes : Restart(p)

Spec == Init /\ [][Next]_vars

----------------------------------------------------------------------------
(* Properties *)

Copies == SUBSET Chunks

ThreadSteps == {"idle", "acquire", "load", "compare", "unpickle", "use"}
                 \cup Building
IngesterSteps == {"idle", "clear", "unlink_pickle", "unlink_version", "done"}

\* The variables stay within their types, and only a thread that is past the
\* lock holds it.
TypeOK ==
  /\ index \in Copies
  /\ memory \in [Processes -> Copies \cup {None}]
  /\ lock \in [Processes -> Threads \cup {None}]
  /\ pickle \in Copies \cup Threads \cup {None, Torn}
  /\ version \in Int \cup {None}
  /\ pc \in [Workers -> ThreadSteps \cup IngesterSteps]
  /\ at \in [Workers -> Processes \cup {None}]
  /\ found \in [Threads -> Copies]
  /\ stamp \in [Threads -> Int]
  /\ batch \in [Ingesters -> Copies]
  /\ cold \in [Threads -> BOOLEAN]
  /\ due \in [Threads -> Copies]
  /\ ingested \in Copies
  /\ quiet \in BOOLEAN

\* The index of a process is built or loaded once: after that its threads use
\* the same copy until it is invalidated or the process restarts.
BuiltOnce ==
  [][\A p \in Processes :
       memory[p] # None => memory'[p] \in {memory[p], None}]_vars

\* While a thread builds nobody else of its process does; the builder is the
\* one who holds the lock, and whoever holds it is building: no error on the
\* way leaves a process locked.
OneBuilder ==
  \A t \in Threads, p \in Processes :
    lock[p] = t <=>
      at[t] = p /\ pc[t] \in Building \cup {"load", "compare", "unpickle"}

\* A thread found the versions equal and goes on to read the pickle.
Loads(t) == pc[t] = "compare" /\ pc'[t] = "unpickle"

PickleIsValid == pickle \in Unreadable \cup {None} \/ pickle = index

\* As long as nothing failed and no vector changed while an index was built, a
\* pickle whose version agrees, and that can be read, is what Pinecone holds:
\* three processes that write the two files at once do not mix them up.
QuietLoadIsValid == [][\A t \in Threads : (quiet /\ Loads(t)) => PickleIsValid]_vars

\* Under the same conditions a retrieval that began in a process without a
\* copy is answered from an index with everything ingested before.
ColdStartIsFresh ==
  \A t \in Threads :
    (quiet /\ pc[t] = "use" /\ cold[t]) => due[t] \subseteq found[t]

=============================================================================
