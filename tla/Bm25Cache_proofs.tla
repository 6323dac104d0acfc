-------------------------- MODULE Bm25Cache_proofs --------------------------
(***************************************************************************)
(* Proofs about Bm25Cache, for any number of processes, threads, ingesters *)
(* and chunks, whatever fails and whenever a process restarts.             *)
(***************************************************************************)
EXTENDS Bm25Cache, FiniteSetTheorems, TLAPS

\* The steps at which a thread holds the lock of its process.
Holding == Building \cup {"load", "compare", "unpickle"}

\* Those before it keeps a copy.
Empty == {"load", "compare", "unpickle", "list", "fetch"}

\* What the lock is about.
LockType ==
  /\ memory \in [Processes -> Copies \cup {None}]
  /\ lock \in [Processes -> Threads \cup {None}]
  /\ pc \in [Workers -> ThreadSteps \cup IngesterSteps]
  /\ at \in [Workers -> Processes \cup {None}]

\* A thread that has begun is in a process.
Placed == \A w \in Workers : pc[w] \notin {"idle", "done"} => at[w] \in Processes

\* A process has no copy while one is built or loaded for it.
NoCopyYet == \A t \in Threads : pc[t] \in Empty => memory[at[t]] = None

LockInv == OneBuilder /\ NoCopyYet

----------------------------------------------------------------------------
(* The type invariant. *)

\* The names of the steps.
LEMMA StepsAre ==
  ThreadSteps \cup IngesterSteps =
    {"idle", "acquire", "load", "compare", "unpickle", "use", "list", "fetch", "open",
     "dump", "version", "stamp", "clear", "unlink_pickle", "unlink_version", "done"}
BY DEF ThreadSteps, IngesterSteps, Building

\* The version is a number.
LEMMA VersionType ==
  ASSUME index \in Copies, NEW v \in {PineconeVersion, Unknown}
  PROVE  v \in Int
<1>1. IsFiniteSet(index)
  BY ChunksAssumption, FS_Subset DEF Copies
<1>2. QED
  BY <1>1, FS_CardinalityType DEF PineconeVersion, Unknown

\* What a thread holds of its own.
LocalType ==
  /\ found \in [Threads -> Copies]
  /\ stamp \in [Threads -> Int]
  /\ cold \in [Threads -> BOOLEAN]
  /\ due \in [Threads -> Copies]

\* What all share.
SharedType ==
  /\ index \in Copies
  /\ pickle \in Copies \cup Threads \cup {None, Torn}
  /\ version \in Int \cup {None}
  /\ batch \in [Ingesters -> Copies]
  /\ ingested \in Copies
  /\ quiet \in BOOLEAN

TypeInv == LockType /\ LocalType /\ SharedType /\ Placed

\* A thread that is done with its retrieval is as it was before.
LEMMA ForgottenType ==
  ASSUME LockType, LocalType, Placed, NEW t \in Threads, Forgotten(t)
  PROVE  /\ LocalType' /\ Placed'
         /\ pc' \in [Workers -> ThreadSteps \cup IngesterSteps]
         /\ at' \in [Workers -> Processes \cup {None}]
<1>1. t \in Workers /\ "idle" \in ThreadSteps \cup IngesterSteps
  BY DEF Workers, ThreadSteps
<1>2. LocalType'
  BY DEF LocalType, Forgotten, Copies, Unknown
<1>3. /\ pc' \in [Workers -> ThreadSteps \cup IngesterSteps]
      /\ at' \in [Workers -> Processes \cup {None}]
  BY <1>1 DEF LockType, Forgotten, Goto
<1>4. Placed'
  BY <1>1 DEF LockType, Placed, Forgotten, Goto
<1>5. QED
  BY <1>2, <1>3, <1>4

\* A thread that goes on stays where it is.
LEMMA GotoType ==
  ASSUME LockType, Placed, NEW w \in Workers, NEW step \in ThreadSteps \cup IngesterSteps,
         Goto(w, step), UNCHANGED at, at[w] \in Processes
  PROVE  Placed' /\ pc' \in [Workers -> ThreadSteps \cup IngesterSteps]
BY DEF LockType, Placed, Goto

\* The lock that is released becomes nobody's, those of other processes stay.
LEMMA ReleaseType ==
  ASSUME LockType, NEW t \in Threads, Release(t)
  PROVE  lock' \in [Processes -> Threads \cup {None}]
BY DEF LockType, Release

\* What a process keeps is a copy of the index or nothing.
LEMMA RememberType ==
  ASSUME LockType, NEW w \in Workers, NEW copy \in Copies \cup {None}, Remember(w, copy)
  PROVE  memory' \in [Processes -> Copies \cup {None}]
BY DEF LockType, Remember

\* An exception ends a retrieval.
LEMMA RaiseType ==
  ASSUME LockType, LocalType, Placed, NEW t \in Threads, Raise(t)
  PROVE  LockType' /\ LocalType' /\ Placed'
BY ForgottenType, ReleaseType DEF Raise, LockType

\* So does a copy that is kept.
LEMMA KeepType ==
  ASSUME LockType, LocalType, Placed, NEW t \in Threads, at[t] \in Processes,
         NEW copy \in Copies, Keep(t, copy)
  PROVE  LockType' /\ LocalType' /\ Placed'
<1>1. t \in Workers /\ "use" \in ThreadSteps \cup IngesterSteps
  BY DEF Workers, ThreadSteps
<1>2. Placed' /\ pc' \in [Workers -> ThreadSteps \cup IngesterSteps]
  BY <1>1, GotoType DEF Keep
<1>3. QED
  BY <1>1, <1>2, ReleaseType, RememberType DEF Keep, LockType, LocalType

\* Every step keeps the types.
LEMMA TypeInvNext ==
  ASSUME TypeInv, [Next]_vars
  PROVE  TypeInv'
<1>0. /\ LockType /\ LocalType /\ SharedType /\ Placed
      /\ \A t \in Threads : t \in Workers /\ found[t] \in Copies
      /\ \A i \in Ingesters : i \in Workers
  BY DEF TypeInv, Workers, LocalType
<1>s. /\ ThreadSteps \subseteq ThreadSteps \cup IngesterSteps
      /\ Building \subseteq ThreadSteps
      /\ {"idle", "acquire", "load", "compare", "unpickle", "use"} \subseteq ThreadSteps
      /\ {"list", "fetch", "open", "dump", "version", "stamp"} = Building
      /\ {"clear", "unlink_pickle", "unlink_version", "done"} \subseteq IngesterSteps
  BY DEF ThreadSteps, IngesterSteps, Building
<1>q. \A x \in {quiet, FALSE} : x \in BOOLEAN
  BY <1>0 DEF SharedType
<1>1. ASSUME NEW t \in Threads, NEW p \in Processes, Retrieve(t, p) PROVE TypeInv'
  <2>1. memory[p] # None => memory[p] \in Copies
    BY <1>0 DEF LockType
  <2>2. /\ pc' \in [Workers -> ThreadSteps \cup IngesterSteps]
        /\ at' \in [Workers -> Processes \cup {None}]
    BY <1>0, <1>1, <1>s DEF Retrieve, Goto, LockType
  <2>3. LocalType'
    BY <1>0, <1>1, <2>1 DEF Retrieve, LocalType, SharedType
  <2>4. Placed'
    BY <1>0, <1>1 DEF Retrieve, Goto, Placed, LockType
  <2>5. QED
    BY <1>0, <1>1, <2>2, <2>3, <2>4 DEF Retrieve, files, TypeInv, LockType, SharedType
<1>2. ASSUME NEW t \in Threads, Acquire(t) PROVE TypeInv'
  <2>1. at[t] \in Processes
    BY <1>0, <1>2 DEF Acquire, Placed
  <2>2. PICK step \in {"use", "load"} : Goto(t, step)
    BY <1>2 DEF Acquire
  <2>3. Placed' /\ pc' \in [Workers -> ThreadSteps \cup IngesterSteps]
    BY <1>0, <1>2, <1>s, <2>1, <2>2, GotoType DEF Acquire
  <2>4. found' \in [Threads -> Copies] /\ lock' \in [Processes -> Threads \cup {None}]
    BY <1>0, <1>2, <2>1 DEF Acquire, LocalType, LockType
  <2>5. QED
    BY <1>0, <1>2, <2>3, <2>4 DEF Acquire, files, TypeInv, LockType, LocalType, SharedType
<1>3. ASSUME NEW t \in Threads, LoadVersion(t) PROVE TypeInv'
  <2>1. at[t] \in Processes
    BY <1>0, <1>3 DEF LoadVersion, Placed
  <2>2. PICK step \in {"list", "compare"} : Goto(t, step)
    BY <1>3 DEF LoadVersion
  <2>3. Placed' /\ pc' \in [Workers -> ThreadSteps \cup IngesterSteps]
    BY <1>0, <1>3, <1>s, <2>1, <2>2, GotoType DEF LoadVersion
  <2>4. stamp' \in [Threads -> Int]
    BY <1>0, <1>3 DEF LoadVersion, LocalType, SharedType
  <2>5. QED
    BY <1>0, <1>3, <2>3, <2>4 DEF LoadVersion, files, TypeInv, LockType, LocalType, SharedType
<1>4. ASSUME NEW t \in Threads, CompareVersion(t) PROVE TypeInv'
  <2>1. at[t] \in Processes
    BY <1>0, <1>4 DEF CompareVersion, Placed
  <2>2. PICK step \in {"unpickle", "list"} : Goto(t, step)
    BY <1>4 DEF CompareVersion
  <2>3. Placed' /\ pc' \in [Workers -> ThreadSteps \cup IngesterSteps]
    BY <1>0, <1>4, <1>s, <2>1, <2>2, GotoType DEF CompareVersion, locals
  <2>4. quiet' \in BOOLEAN
    BY <1>0, <1>4 DEF CompareVersion, GetPineconeVersion, Fine, Fails, SharedType
  <2>5. QED
    BY <1>0, <1>4, <2>3, <2>4
    DEF CompareVersion, files, locals, TypeInv, LockType, LocalType, SharedType
<1>5. ASSUME NEW t \in Threads, Unpickle(t) PROVE TypeInv'
  <2>1. at[t] \in Processes
    BY <1>0, <1>5 DEF Unpickle, Placed
  <2>2. SharedType'
    BY <1>0, <1>5 DEF Unpickle, files, SharedType
  <2>3. CASE Raise(t)
    BY <1>0, <2>2, <2>3, RaiseType DEF TypeInv
  <2>4. CASE Goto(t, "list") /\ UNCHANGED <<memory, lock>> /\ UNCHANGED locals
    BY <1>0, <1>s, <2>1, <2>2, <2>4, GotoType DEF locals, TypeInv, LockType, LocalType
  <2>5. CASE pickle \notin Unreadable \cup {None} /\ Keep(t, pickle)
    <3>1. pickle \in Copies
      BY <1>0, <2>5 DEF Unreadable, SharedType
    <3>2. QED
      BY <1>0, <2>1, <2>2, <2>5, <3>1, KeepType DEF TypeInv
  <2>6. QED
    BY <1>5, <2>3, <2>4, <2>5 DEF Unpickle
<1>6. ASSUME NEW t \in Threads, ListIds(t) PROVE TypeInv'
  <2>1. at[t] \in Processes
    BY <1>0, <1>6 DEF ListIds, Placed
  <2>2. Placed' /\ pc' \in [Workers -> ThreadSteps \cup IngesterSteps]
    BY <1>0, <1>6, <1>s, <2>1, GotoType DEF ListIds
  <2>3. found' \in [Threads -> Copies]
    BY <1>0, <1>6 DEF ListIds, LocalType, SharedType
  <2>4. QED
    BY <1>0, <1>6, <2>2, <2>3 DEF ListIds, files, TypeInv, LockType, LocalType, SharedType
<1>7. ASSUME NEW t \in Threads, FetchChunks(t) PROVE TypeInv'
  <2>1. at[t] \in Processes
    BY <1>0, <1>7 DEF FetchChunks, Placed
  <2>2. SharedType'
    BY <1>0, <1>7 DEF FetchChunks, Fine, Fails, files, SharedType
  <2>3. ASSUME NEW docs \in Copies, Built(t, docs) PROVE LockType' /\ LocalType' /\ Placed'
    <3>1. CASE docs = {}
      BY <1>0, <2>1, <2>3, <3>1, KeepType DEF Built, Copies
    <3>2. CASE docs # {}
      <4>1. Placed' /\ pc' \in [Workers -> ThreadSteps \cup IngesterSteps]
        BY <1>0, <1>s, <2>1, <2>3, <3>2, GotoType DEF Built
      <4>2. QED
        BY <1>0, <2>3, <3>2, <4>1, RememberType DEF Built, LockType, LocalType
    <3>3. QED
      BY <3>1, <3>2
  <2>4. Fetched(found[t]) \in Copies /\ \A docs \in SUBSET index : docs \in Copies
    BY <1>0 DEF Fetched, Copies, SharedType
  <2>5. QED
    BY <1>0, <1>7, <2>2, <2>3, <2>4, RaiseType DEF FetchChunks, TypeInv
<1>8. ASSUME NEW t \in Threads, OpenPickle(t) PROVE TypeInv'
  <2>1. at[t] \in Processes
    BY <1>0, <1>8 DEF OpenPickle, Placed
  <2>2. PICK step \in {"dump", "use"} : Goto(t, step)
    BY <1>8 DEF OpenPickle, Saved
  <2>3. Placed' /\ pc' \in [Workers -> ThreadSteps \cup IngesterSteps]
    BY <1>0, <1>8, <1>s, <2>1, <2>2, GotoType DEF OpenPickle, locals
  <2>4. lock' \in [Processes -> Threads \cup {None}]
    BY <1>0, <1>8, ReleaseType DEF OpenPickle, Saved, LockType
  <2>5. SharedType'
    BY <1>0, <1>8 DEF OpenPickle, Fine, Fails, SharedType
  <2>6. QED
    BY <1>0, <1>8, <2>3, <2>4, <2>5 DEF OpenPickle, locals, TypeInv, LockType, LocalType
<1>9. ASSUME NEW t \in Threads, DumpPickle(t) PROVE TypeInv'
  <2>1. at[t] \in Processes
    BY <1>0, <1>9 DEF DumpPickle, Placed
  <2>2. PICK step \in {"version", "use"} : Goto(t, step)
    BY <1>9 DEF DumpPickle, Saved
  <2>3. Placed' /\ pc' \in [Workers -> ThreadSteps \cup IngesterSteps]
    BY <1>0, <1>9, <1>s, <2>1, <2>2, GotoType DEF DumpPickle, locals
  <2>4. lock' \in [Processes -> Threads \cup {None}]
    BY <1>0, <1>9, ReleaseType DEF DumpPickle, Saved, LockType
  <2>5. pickle' \in {found[t], None, pickle, Torn}
    BY <1>9 DEF DumpPickle
  <2>6. SharedType'
    BY <1>0, <1>9, <2>5 DEF DumpPickle, Fine, Fails, SharedType
  <2>7. QED
    BY <1>0, <1>9, <2>3, <2>4, <2>6 DEF DumpPickle, locals, TypeInv, LockType, LocalType
<1>10. ASSUME NEW t \in Threads, GetVersion(t) PROVE TypeInv'
  <2>1. at[t] \in Processes
    BY <1>0, <1>10 DEF GetVersion, Placed
  <2>2. Placed' /\ pc' \in [Workers -> ThreadSteps \cup IngesterSteps]
    BY <1>0, <1>10, <1>s, <2>1, GotoType DEF GetVersion
  <2>3. stamp' \in [Threads -> Int]
    BY <1>0, <1>10, VersionType DEF GetVersion, LocalType, SharedType
  <2>4. quiet' \in BOOLEAN
    BY <1>0, <1>10 DEF GetVersion, GetPineconeVersion, Fine, Fails, SharedType
  <2>5. QED
    BY <1>0, <1>10, <2>2, <2>3, <2>4
    DEF GetVersion, files, TypeInv, LockType, LocalType, SharedType
<1>11. ASSUME NEW t \in Threads, WriteVersion(t) PROVE TypeInv'
  <2>1. at[t] \in Processes
    BY <1>0, <1>11 DEF WriteVersion, Placed
  <2>2. Placed' /\ pc' \in [Workers -> ThreadSteps \cup IngesterSteps]
    BY <1>0, <1>11, <1>s, <2>1, GotoType DEF WriteVersion, Saved, locals
  <2>3. lock' \in [Processes -> Threads \cup {None}]
    BY <1>0, <1>11, ReleaseType DEF WriteVersion, Saved
  <2>4. version' \in Int
    BY <1>0, <1>11 DEF WriteVersion, LocalType
  <2>5. QED
    BY <1>0, <1>11, <2>2, <2>3, <2>4
    DEF WriteVersion, locals, TypeInv, LockType, LocalType, SharedType
<1>12. ASSUME NEW t \in Threads, Use(t) PROVE TypeInv'
  BY <1>0, <1>12, ForgottenType DEF Use, files, TypeInv, LockType, SharedType
<1>13. ASSUME NEW i \in Ingesters, NEW p \in Processes, Upsert(i, p) PROVE TypeInv'
  <2>1. PICK c \in Chunks \ index : index' = index \cup {c} /\ batch' = [batch EXCEPT ![i] = {c}]
    BY <1>13 DEF Upsert
  <2>2. SharedType'
    BY <1>0, <1>13, <2>1 DEF Upsert, files, SharedType, Copies
  <2>3. LockType' /\ Placed'
    BY <1>0, <1>13, <1>s DEF Upsert, Goto, LockType, Placed
  <2>4. QED
    BY <1>0, <1>13, <2>2, <2>3 DEF Upsert, TypeInv, LocalType
<1>14. ASSUME NEW i \in Ingesters, ClearMemory(i) PROVE TypeInv'
  <2>1. at[i] \in Processes
    BY <1>0, <1>14 DEF ClearMemory, Placed
  <2>2. Placed' /\ pc' \in [Workers -> ThreadSteps \cup IngesterSteps]
    BY <1>0, <1>14, <1>s, <2>1, GotoType DEF ClearMemory, locals
  <2>3. QED
    BY <1>0, <1>14, <2>2, RememberType
    DEF ClearMemory, files, locals, TypeInv, LockType, LocalType, SharedType
<1>15. ASSUME NEW i \in Ingesters, UnlinkPickle(i) \/ UnlinkVersion(i) PROVE TypeInv'
  <2>1. at[i] \in Processes
    BY <1>0, <1>15 DEF UnlinkPickle, UnlinkVersion, Placed
  <2>2. PICK step \in {"unlink_version", "done"} : Goto(i, step)
    BY <1>15 DEF UnlinkPickle, UnlinkVersion, Invalidated
  <2>3. Placed' /\ pc' \in [Workers -> ThreadSteps \cup IngesterSteps]
    BY <1>0, <1>15, <1>s, <2>1, <2>2, GotoType DEF UnlinkPickle, UnlinkVersion, locals
  <2>4. SharedType'
    BY <1>0, <1>15 DEF UnlinkPickle, UnlinkVersion, Invalidated, Fine, Fails, SharedType, Copies
  <2>5. QED
    BY <1>0, <1>15, <2>3, <2>4 DEF UnlinkPickle, UnlinkVersion, locals, TypeInv, LockType, LocalType
<1>16. CASE Replace
  BY <1>0, <1>16 DEF Replace, files, locals, TypeInv, LockType, LocalType, SharedType, Placed, Copies
<1>17. ASSUME NEW p \in Processes, Restart(p) PROVE TypeInv'
  <2>1. LockType' /\ Placed'
    BY <1>0, <1>17, <1>s DEF Restart, LockType, Placed
  <2>2. LocalType'
    <3>1. /\ found' = [t \in Threads |-> IF t \in {x \in Threads : at[x] = p} THEN {} ELSE found[t]]
          /\ stamp' = [t \in Threads |-> IF t \in {x \in Threads : at[x] = p} THEN Unknown ELSE stamp[t]]
          /\ cold' = [t \in Threads |-> IF t \in {x \in Threads : at[x] = p} THEN FALSE ELSE cold[t]]
          /\ due' = [t \in Threads |-> IF t \in {x \in Threads : at[x] = p} THEN {} ELSE due[t]]
      BY <1>17 DEF Restart
    <3>2. {} \in Copies /\ Unknown \in Int
      BY DEF Copies, Unknown
    <3>3. /\ found' \in [Threads -> Copies]
          /\ stamp' \in [Threads -> Int]
          /\ due' \in [Threads -> Copies]
      BY <1>0, <3>1, <3>2 DEF LocalType
    <3>4. cold' \in [Threads -> BOOLEAN]
      BY <1>0, <3>1 DEF LocalType
    <3>5. QED
      BY <3>3, <3>4 DEF LocalType
  <2>3. SharedType'
    BY <1>0, <1>17 DEF Restart, SharedType
  <2>4. QED
    BY <2>1, <2>2, <2>3 DEF TypeInv
<1>18. CASE UNCHANGED vars
  BY <1>0, <1>18 DEF vars, TypeInv, LockType, LocalType, SharedType, Placed
<1>19. QED
  BY <1>1, <1>2, <1>3, <1>4, <1>5, <1>6, <1>7, <1>8, <1>9, <1>10, <1>11, <1>12, <1>13,
     <1>14, <1>15, <1>16, <1>17, <1>18 DEF Next, Thread, Invalidate

\* The strengthened type invariant holds throughout.
LEMMA TypeInvAlways == Spec => []TypeInv
<1>1. Init => TypeInv
  <2> SUFFICES ASSUME Init PROVE TypeInv
    OBVIOUS
  <2>1. LockType
    BY DEF Init, LockType, ThreadSteps
  <2>2. LocalType
    BY DEF Init, LocalType, Copies, Unknown
  <2>3. SharedType
    BY InitialAssumption DEF Init, SharedType, Copies
  <2>4. Placed
    BY DEF Init, Placed
  <2>5. QED
    BY <2>1, <2>2, <2>3, <2>4 DEF TypeInv
<1>2. QED
  BY <1>1, TypeInvNext, PTL DEF Spec

\* The variables keep their types.
THEOREM TypeCorrect == Spec => []TypeOK
<1>1. TypeInv => TypeOK
  BY DEF TypeInv, LockType, LocalType, SharedType, TypeOK
<1>2. QED
  BY <1>1, TypeInvAlways, PTL

----------------------------------------------------------------------------
(* The lock. *)

\* What the lock does not depend on: a step of a thread that keeps it, or that
\* never had it.
LEMMA Kept ==
  ASSUME TypeInv, LockInv, NEW t \in Threads,
         UNCHANGED <<memory, lock, at>>,
         \A x \in Threads \ {t} : pc'[x] = pc[x],
         pc[t] \in Holding <=> pc'[t] \in Holding,
         pc'[t] \in Empty => pc[t] \in Empty
  PROVE  LockInv'
<1>1. OneBuilder'
  BY DEF LockInv, OneBuilder, Holding
<1>2. NoCopyYet'
  BY DEF LockInv, NoCopyYet
<1>3. QED
  BY <1>1, <1>2 DEF LockInv

\* Whoever frees the lock held it, and nobody else does.
LEMMA Freed ==
  ASSUME TypeInv, LockInv, NEW t \in Threads, pc[t] \in Holding, Release(t),
         pc'[t] \notin Holding,
         \A x \in Threads \ {t} : pc'[x] = pc[x] /\ at'[x] = at[x],
         \A p \in Processes \ {at[t]} : memory'[p] = memory[p]
  PROVE  LockInv'
<1>0. /\ at[t] \in Processes /\ lock[at[t]] = t
      /\ lock \in [Processes -> Threads \cup {None}]
      /\ Empty \subseteq Holding
  BY DEF TypeInv, LockType, Placed, LockInv, OneBuilder, Holding, Building, Empty, Workers
<1>1. lock'[at[t]] = None /\ \A p \in Processes \ {at[t]} : lock'[p] = lock[p]
  BY <1>0 DEF Release
<1>2. ASSUME NEW x \in Threads \ {t}, pc[x] \in Holding PROVE at[x] # at[t]
  BY <1>0, <1>2 DEF LockInv, OneBuilder, Holding
<1>3. OneBuilder'
  <2> SUFFICES ASSUME NEW x \in Threads, NEW p \in Processes
               PROVE  lock'[p] = x <=> at'[x] = p /\ pc'[x] \in Holding
    BY DEF OneBuilder, Holding
  <2>1. CASE x = t
    BY <1>0, <1>1, <2>1, NoneAssumption DEF LockInv, OneBuilder, Holding
  <2>2. CASE x # t
    <3>1. pc'[x] = pc[x] /\ at'[x] = at[x]
      BY <2>2
    <3>2. lock[p] = x <=> at[x] = p /\ pc[x] \in Holding
      BY DEF LockInv, OneBuilder, Holding
    <3>3. CASE p = at[t]
      BY <1>1, <1>2, <2>2, <3>1, <3>3, NoneAssumption
    <3>4. CASE p # at[t]
      BY <1>1, <3>1, <3>2, <3>4
    <3>5. QED
      BY <3>3, <3>4
  <2>3. QED
    BY <2>1, <2>2
<1>4. NoCopyYet'
  <2> SUFFICES ASSUME NEW x \in Threads, pc'[x] \in Empty PROVE memory'[at'[x]] = None
    BY DEF NoCopyYet
  <2>1. x # t
    BY <1>0
  <2>2. pc'[x] = pc[x] /\ at'[x] = at[x] /\ at[x] # at[t] /\ memory[at[x]] = None
    BY <1>0, <1>2, <2>1 DEF LockInv, NoCopyYet
  <2>3. at[x] \in Processes
    BY <2>2 DEF TypeInv, Placed, Workers, Empty
  <2>4. QED
    BY <2>2, <2>3
<1>5. QED
  BY <1>3, <1>4 DEF LockInv

\* A thread whose retrieval ends is in no step any more.
LEMMA ForgottenEffect ==
  ASSUME TypeInv, NEW t \in Threads, Forgotten(t)
  PROVE  /\ pc'[t] \notin Holding /\ pc'[t] \notin Empty
         /\ \A x \in Threads \ {t} : pc'[x] = pc[x] /\ at'[x] = at[x]
BY DEF TypeInv, LockType, Forgotten, Goto, Holding, Building, Empty, Workers

\* A thread that goes on leaves the others where they are.
LEMMA GotoEffect ==
  ASSUME TypeInv, NEW t \in Threads, NEW step, Goto(t, step)
  PROVE  pc'[t] = step /\ \A x \in Threads \ {t} : pc'[x] = pc[x]
BY DEF TypeInv, LockType, Goto, Workers

\* An exception and a copy that is kept both free the lock.
LEMMA EndsFreed ==
  ASSUME TypeInv, LockInv, NEW t \in Threads, pc[t] \in Holding,
         Raise(t) \/ (\E copy : Keep(t, copy))
                  \/ (Saved(t) /\ UNCHANGED <<memory, at>>)
  PROVE  LockInv'
<1>0. at[t] \in Processes /\ memory \in [Processes -> Copies \cup {None}]
  BY DEF TypeInv, LockType, Placed, Workers, Holding, Building
<1>1. CASE Raise(t)
  BY <1>1, ForgottenEffect, Freed DEF Raise
<1>2. CASE \E copy : Keep(t, copy)
  <2>1. \A p \in Processes \ {at[t]} : memory'[p] = memory[p]
    BY <1>0, <1>2 DEF Keep, Remember
  <2>2. pc'[t] = "use" /\ \A x \in Threads \ {t} : pc'[x] = pc[x] /\ at'[x] = at[x]
    BY <1>2, GotoEffect DEF Keep
  <2>3. QED
    BY <1>2, <2>1, <2>2, Freed DEF Keep, Holding, Building
<1>3. CASE Saved(t) /\ UNCHANGED <<memory, at>>
  <2>1. pc'[t] = "use" /\ \A x \in Threads \ {t} : pc'[x] = pc[x] /\ at'[x] = at[x]
    BY <1>3, GotoEffect DEF Saved
  <2>2. QED
    BY <1>3, <2>1, Freed DEF Saved, Holding, Building
<1>4. QED
  BY <1>1, <1>2, <1>3

\* Ingesters and the environment leave locks and threads alone, and never make
\* a copy.
LEMMA Aside ==
  ASSUME LockInv, UNCHANGED lock,
         \A t \in Threads : pc'[t] = pc[t] /\ at'[t] = at[t],
         \A t \in Threads : pc[t] \in Empty /\ memory[at[t]] = None => memory'[at[t]] = None
  PROVE  LockInv'
<1>1. OneBuilder'
  BY DEF LockInv, OneBuilder
<1>2. NoCopyYet'
  BY DEF LockInv, NoCopyYet
<1>3. QED
  BY <1>1, <1>2 DEF LockInv

\* Outside of the steps that hold it a thread has no lock.
LEMMA NotHolding ==
  ASSUME LockInv, NEW t \in Threads, pc[t] \notin Holding, NEW p \in Processes
  PROVE  lock[p] # t
BY DEF LockInv, OneBuilder, Holding

\* Nor has anyone else of a process whose lock a thread holds, or is free.
LEMMA HeldByOne ==
  ASSUME LockInv, NEW t \in Threads, NEW p \in Processes, lock[p] \in {t, None},
         NEW x \in Threads \ {t}, pc[x] \in Holding
  PROVE  at[x] # p
BY NoneAssumption DEF LockInv, OneBuilder, Holding

\* Every step keeps the lock and the copies in agreement.
LEMMA LockInvNext ==
  ASSUME TypeInv, LockInv, [Next]_vars
  PROVE  LockInv'
<1>0. /\ lock \in [Processes -> Threads \cup {None}]
      /\ memory \in [Processes -> Copies \cup {None}]
      /\ pc \in [Workers -> ThreadSteps \cup IngesterSteps]
      /\ at \in [Workers -> Processes \cup {None}]
      /\ \A t \in Threads : t \in Workers /\ t \notin Ingesters
      /\ Empty \subseteq Holding
      /\ \A t \in Threads : pc[t] \in Holding => at[t] \in Processes
      /\ \A t \in Threads : pc[t] \in Empty => memory[at[t]] = None
  BY WorkersAssumption
  DEF TypeInv, LockType, Placed, Workers, Holding, Building, Empty, LockInv, NoCopyYet
<1>1. ASSUME NEW t \in Threads, NEW p \in Processes, Retrieve(t, p) PROVE LockInv'
  <2>1. /\ pc[t] = "idle" /\ pc'[t] \in {"use", "acquire"} /\ UNCHANGED <<lock, memory>>
        /\ \A x \in Threads \ {t} : pc'[x] = pc[x] /\ at'[x] = at[x]
    BY <1>0, <1>1 DEF Retrieve, Goto
  <2>2. pc[t] \notin Holding /\ pc'[t] \notin Holding /\ pc'[t] \notin Empty
    BY <2>1 DEF Holding, Building, Empty
  <2>3. OneBuilder'
    BY <2>1, <2>2, NotHolding DEF LockInv, OneBuilder, Holding
  <2>4. NoCopyYet'
    BY <2>1, <2>2 DEF LockInv, NoCopyYet
  <2>5. QED
    BY <2>3, <2>4 DEF LockInv
<1>2. ASSUME NEW t \in Threads, Acquire(t) PROVE LockInv'
  <2>0. at[t] \in Processes
    BY <1>0, <1>2 DEF Acquire, TypeInv, Placed
  <2>1. /\ pc[t] = "acquire" /\ lock[at[t]] = None /\ UNCHANGED <<memory, at>>
        /\ \A x \in Threads \ {t} : pc'[x] = pc[x]
        /\ \/ pc'[t] = "use" /\ UNCHANGED lock
           \/ pc'[t] = "load" /\ lock' = [lock EXCEPT ![at[t]] = t] /\ memory[at[t]] = None
    BY <1>0, <1>2 DEF Acquire, Goto
  <2>2. CASE pc'[t] = "use" /\ UNCHANGED lock
    BY <2>1, <2>2, Kept DEF Holding, Building, Empty
  <2>3. CASE pc'[t] = "load" /\ lock' = [lock EXCEPT ![at[t]] = t] /\ memory[at[t]] = None
    <3>1. pc[t] \notin Holding /\ pc'[t] \in Holding
      BY <2>1, <2>3 DEF Holding, Building
    <3>2. lock'[at[t]] = t /\ \A p \in Processes \ {at[t]} : lock'[p] = lock[p]
      BY <1>0, <2>0, <2>3
    <3>3. OneBuilder'
      <4> SUFFICES ASSUME NEW x \in Threads, NEW p \in Processes
                   PROVE  lock'[p] = x <=> at'[x] = p /\ pc'[x] \in Holding
        BY DEF OneBuilder, Holding
      <4>1. CASE x = t
        BY <2>1, <3>1, <3>2, <4>1, NotHolding
      <4>2. CASE x # t
        <5>1. lock[p] = x <=> at[x] = p /\ pc[x] \in Holding
          BY DEF LockInv, OneBuilder, Holding
        <5>2. pc[x] \in Holding => at[x] # at[t]
          BY <2>0, <2>1, <4>2, HeldByOne
        <5>3. QED
          BY <2>1, <3>2, <4>2, <5>1, <5>2
      <4>3. QED
        BY <4>1, <4>2
    <3>4. NoCopyYet'
      BY <2>1, <2>3 DEF LockInv, NoCopyYet
    <3>5. QED
      BY <3>3, <3>4 DEF LockInv
  <2>4. QED
    BY <2>1, <2>2, <2>3
\* The steps of a thread that neither takes nor frees the lock.
<1>3. ASSUME NEW t \in Threads, UNCHANGED <<memory, lock, at>>,
             \/ /\ pc[t] \in {"load", "compare", "unpickle", "list"}
                /\ \E step \in {"compare", "unpickle", "list", "fetch"} : Goto(t, step)
             \/ /\ pc[t] \in {"open", "dump", "version"}
                /\ \E step \in {"dump", "version", "stamp"} : Goto(t, step)
      PROVE  LockInv'
  BY <1>3, GotoEffect, Kept DEF Holding, Building, Empty
<1>4. ASSUME NEW t \in Threads, LoadVersion(t) \/ CompareVersion(t) \/ ListIds(t) PROVE LockInv'
  BY <1>3, <1>4 DEF LoadVersion, CompareVersion, ListIds, locals
<1>5. ASSUME NEW t \in Threads, Unpickle(t) PROVE LockInv'
  <2>1. pc[t] = "unpickle" /\ pc[t] \in Holding
    BY <1>5 DEF Unpickle, Holding
  <2>2. CASE Raise(t) \/ Keep(t, pickle)
    BY <2>1, <2>2, EndsFreed
  <2>3. CASE Goto(t, "list") /\ UNCHANGED <<memory, lock>> /\ UNCHANGED locals
    BY <1>3, <2>1, <2>3 DEF locals
  <2>4. QED
    BY <1>5, <2>2, <2>3 DEF Unpickle
<1>6. ASSUME NEW t \in Threads, FetchChunks(t) PROVE LockInv'
  <2>1. pc[t] = "fetch" /\ pc[t] \in Holding /\ at[t] \in Processes
    BY <1>0, <1>6 DEF FetchChunks, Holding, Building
  <2>2. ASSUME NEW docs, Built(t, docs) PROVE LockInv'
    <3>1. CASE docs = {}
      BY <2>1, <2>2, <3>1, EndsFreed DEF Built
    <3>2. CASE docs # {}
      <4>1. /\ pc'[t] = "open" /\ \A x \in Threads \ {t} : pc'[x] = pc[x]
            /\ UNCHANGED <<lock, at>>
            /\ \A p \in Processes \ {at[t]} : memory'[p] = memory[p]
        BY <1>0, <2>2, <3>2, GotoEffect DEF Built, Remember
      <4>2. pc'[t] \in Holding /\ pc'[t] \notin Empty /\ lock[at[t]] = t
        BY <2>1, <4>1 DEF Holding, Building, Empty, LockInv, OneBuilder
      <4>3. OneBuilder'
        BY <2>1, <4>1, <4>2 DEF LockInv, OneBuilder, Holding
      <4>4. NoCopyYet'
        <5> SUFFICES ASSUME NEW x \in Threads, pc'[x] \in Empty PROVE memory'[at'[x]] = None
          BY DEF NoCopyYet
        <5>1. x # t /\ pc[x] \in Empty
          BY <4>1, <4>2
        <5>2. at[x] # at[t] /\ at[x] \in Processes
          BY <1>0, <2>1, <4>2, <5>1, HeldByOne
        <5>3. QED
          BY <1>0, <4>1, <5>1, <5>2
      <4>5. QED
        BY <4>3, <4>4 DEF LockInv
    <3>3. QED
      BY <3>1, <3>2
  <2>3. QED
    BY <1>6, <2>1, <2>2, EndsFreed DEF FetchChunks
<1>7. ASSUME NEW t \in Threads, OpenPickle(t) \/ DumpPickle(t) PROVE LockInv'
  <2>1. /\ pc[t] \in {"open", "dump"} /\ pc[t] \in Holding /\ UNCHANGED <<memory, at>>
        /\ Saved(t) \/ (UNCHANGED lock /\ \E step \in {"dump", "version", "stamp"} : Goto(t, step))
    BY <1>7 DEF OpenPickle, DumpPickle, locals, Holding, Building
  <2>2. QED
    BY <1>3, <2>1, EndsFreed
<1>8. ASSUME NEW t \in Threads, GetVersion(t) PROVE LockInv'
  BY <1>3, <1>8 DEF GetVersion
<1>9. ASSUME NEW t \in Threads, WriteVersion(t) PROVE LockInv'
  BY <1>9, EndsFreed DEF WriteVersion, locals, Holding, Building
<1>10. ASSUME NEW t \in Threads, Use(t) PROVE LockInv'
  <2>1. /\ pc[t] \notin Holding /\ pc'[t] \notin Holding /\ pc'[t] \notin Empty
        /\ \A x \in Threads \ {t} : pc'[x] = pc[x] /\ at'[x] = at[x]
        /\ UNCHANGED <<memory, lock>>
    BY <1>10, ForgottenEffect DEF Use, Holding, Building
  <2>2. OneBuilder'
    BY <2>1, NotHolding DEF LockInv, OneBuilder, Holding
  <2>3. NoCopyYet'
    BY <2>1 DEF LockInv, NoCopyYet
  <2>4. QED
    BY <2>2, <2>3 DEF LockInv
<1>11. ASSUME NEW i \in Ingesters, NEW p \in Processes, Upsert(i, p) PROVE LockInv'
  BY <1>0, <1>11, Aside DEF Upsert, Goto
<1>12. ASSUME NEW i \in Ingesters, Invalidate(i) PROVE LockInv'
  <2>1. /\ UNCHANGED <<lock, at>> /\ \E step : Goto(i, step)
        /\ UNCHANGED memory \/ Remember(i, None)
    BY <1>12 DEF Invalidate, ClearMemory, UnlinkPickle, UnlinkVersion, Invalidated, locals
  <2>2. \A t \in Threads : pc'[t] = pc[t] /\ at'[t] = at[t]
    BY <1>0, <2>1 DEF Goto
  <2>3. \A t \in Threads : pc[t] \in Empty => memory'[at[t]] = None
    BY <1>0, <2>1 DEF Remember
  <2>4. QED
    BY <2>1, <2>2, <2>3, Aside
<1>13. CASE Replace \/ UNCHANGED vars
  BY <1>13, Aside DEF Replace, locals, vars
<1>14. ASSUME NEW p \in Processes, Restart(p) PROVE LockInv'
  <2>1. /\ lock' = [lock EXCEPT ![p] = None] /\ memory' = [memory EXCEPT ![p] = None]
        /\ \A t \in Threads : at[t] = p => pc'[t] = "idle" /\ at'[t] = None
        /\ \A t \in Threads : at[t] # p => pc'[t] = pc[t] /\ at'[t] = at[t]
    BY <1>0, <1>14 DEF Restart
  <2>2. "idle" \notin Holding /\ "idle" \notin Empty
    BY DEF Holding, Building, Empty
  <2>3. OneBuilder'
    <3> SUFFICES ASSUME NEW x \in Threads, NEW q \in Processes
                 PROVE  lock'[q] = x <=> at'[x] = q /\ pc'[x] \in Holding
      BY DEF OneBuilder, Holding
    <3>1. lock[q] = x <=> at[x] = q /\ pc[x] \in Holding
      BY DEF LockInv, OneBuilder, Holding
    <3>2. QED
      BY <1>0, <2>1, <2>2, <3>1, NoneAssumption
  <2>4. NoCopyYet'
    BY <1>0, <2>1, <2>2 DEF NoCopyYet
  <2>5. QED
    BY <2>3, <2>4 DEF LockInv
<1>15. QED
  BY <1>1, <1>2, <1>4, <1>5, <1>6, <1>7, <1>8, <1>9, <1>10, <1>11, <1>12, <1>13, <1>14
  DEF Next, Thread

\* Locks and copies agree throughout.
LEMMA LockInvAlways == Spec => []LockInv
<1>1. Init => LockInv
  BY NoneAssumption DEF Init, LockInv, OneBuilder, NoCopyYet, Building, Empty, Workers
<1>2. QED
  BY <1>1, LockInvNext, TypeInvAlways, PTL DEF Spec

\* The builder is the one who holds the lock, and whoever holds it is building.
THEOREM OneBuilderAtATime == Spec => []OneBuilder
BY LockInvAlways, PTL DEF LockInv

\* A process never replaces a copy by another one without being told to forget
\* it, or restarting, in between.
THEOREM CopyBuiltOnce == Spec => BuiltOnce
<1>1. ASSUME TypeInv, LockInv, [Next]_vars, NEW p \in Processes, memory[p] # None
      PROVE  memory'[p] \in {memory[p], None}
  <2>0. memory \in [Processes -> Copies \cup {None}]
        /\ \A t \in Threads : pc[t] \in Empty => memory[at[t]] = None
    BY <1>1 DEF TypeInv, LockType, LockInv, NoCopyYet
  <2>1. ASSUME NEW t \in Threads, NEW copy, Remember(t, copy), pc[t] \in Empty
        PROVE  memory'[p] = memory[p]
    BY <1>1, <2>0, <2>1 DEF Remember
  <2>2. ASSUME NEW i \in Ingesters, ClearMemory(i) PROVE memory'[p] \in {memory[p], None}
    BY <2>0, <2>2 DEF ClearMemory, Remember
  <2>3. ASSUME NEW q \in Processes, Restart(q) PROVE memory'[p] \in {memory[p], None}
    BY <2>0, <2>3 DEF Restart
  <2>4. ASSUME NEW t \in Threads, Unpickle(t) PROVE memory'[p] = memory[p]
    BY <2>1, <2>4 DEF Unpickle, Raise, Keep, Empty
  <2>5. ASSUME NEW t \in Threads, FetchChunks(t) PROVE memory'[p] = memory[p]
    BY <2>1, <2>5 DEF FetchChunks, Built, Raise, Keep, Empty
  <2>6. QED
    BY <1>1, <2>2, <2>3, <2>4, <2>5
    DEF Next, Thread, Invalidate, vars, Retrieve, Acquire, LoadVersion, CompareVersion,
        ListIds, OpenPickle, DumpPickle, GetVersion, WriteVersion, Use, Upsert,
        UnlinkPickle, UnlinkVersion, Replace
<1>2. TypeInv /\ LockInv /\ [Next]_vars =>
        [\A p \in Processes : memory[p] # None => memory'[p] \in {memory[p], None}]_vars
  BY <1>1
<1>3. QED
  BY <1>2, TypeInvAlways, LockInvAlways, PTL DEF Spec, BuiltOnce

----------------------------------------------------------------------------
(* What one step does to one thread, and to what all share. *)

Same(u) ==
  /\ pc'[u] = pc[u] /\ at'[u] = at[u] /\ found'[u] = found[u]
  /\ stamp'[u] = stamp[u] /\ (cold'[u] => cold[u]) /\ due'[u] = due[u]

\* A thread leaves the others alone.
LEMMA OtherThreads ==
  ASSUME TypeInv, NEW t \in Threads, NEW u \in Threads, u # t,
         (\E p \in Processes : Retrieve(t, p)) \/ Thread(t)
  PROVE  Same(u)
<1>0. /\ u \in Workers /\ t \in Workers /\ u # t
      /\ pc \in [Workers -> ThreadSteps \cup IngesterSteps]
      /\ at \in [Workers -> Processes \cup {None}]
      /\ LocalType
  BY DEF TypeInv, LockType, Workers
<1> USE <1>0 DEF Same, Goto, LocalType
<1>1. ASSUME NEW p \in Processes, Retrieve(t, p) PROVE Same(u)
  <2>1. pc'[u] = pc[u] /\ found'[u] = found[u]
    BY <1>1 DEF Retrieve
  <2>2. at'[u] = at[u] /\ (cold'[u] => cold[u]) /\ due'[u] = due[u] /\ stamp'[u] = stamp[u]
    BY <1>1 DEF Retrieve
  <2>3. QED
    BY <2>1, <2>2
<1>2. CASE Acquire(t)
  BY <1>2 DEF Acquire
<1>3. CASE LoadVersion(t)
  BY <1>3 DEF LoadVersion
<1>4. CASE CompareVersion(t)
  BY <1>4 DEF CompareVersion, locals
<1>5. CASE Unpickle(t)
  BY <1>5 DEF Unpickle, Raise, Keep, Forgotten, locals
<1>6. CASE ListIds(t)
  BY <1>6 DEF ListIds
<1>7. CASE FetchChunks(t)
  BY <1>7 DEF FetchChunks, Built, Raise, Keep, Forgotten
<1>8. CASE OpenPickle(t)
  BY <1>8 DEF OpenPickle, Saved, locals
<1>9. CASE DumpPickle(t)
  BY <1>9 DEF DumpPickle, Saved, locals
<1>10. CASE GetVersion(t)
  BY <1>10 DEF GetVersion
<1>11. CASE WriteVersion(t)
  BY <1>11 DEF WriteVersion, Saved, locals
<1>12. CASE Use(t)
  BY <1>12 DEF Use, Forgotten
<1>13. QED
  BY <1>1, <1>2, <1>3, <1>4, <1>5, <1>6, <1>7, <1>8, <1>9, <1>10, <1>11, <1>12 DEF Thread

\* A thread stays as it is, takes a step of its own, or is restarted.
LEMMA Moves ==
  ASSUME TypeInv, [Next]_vars, NEW u \in Threads
  PROVE  \/ Same(u)
         \/ \E p \in Processes : Retrieve(u, p)
         \/ Thread(u)
         \/ (pc'[u] = "idle" /\ due'[u] = {})
<1>0. /\ u \in Workers /\ u \notin Ingesters
      /\ pc \in [Workers -> ThreadSteps \cup IngesterSteps]
      /\ at \in [Workers -> Processes \cup {None}]
      /\ LocalType
  BY WorkersAssumption DEF TypeInv, LockType, Workers
<1>1. ASSUME NEW t \in Threads, (\E p \in Processes : Retrieve(t, p)) \/ Thread(t)
      PROVE  Same(u) \/ (\E p \in Processes : Retrieve(u, p)) \/ Thread(u)
  BY <1>1, OtherThreads
<1>2. ASSUME NEW i \in Ingesters, (\E p \in Processes : Upsert(i, p)) \/ Invalidate(i) PROVE Same(u)
  BY <1>0, <1>2
  DEF Upsert, Invalidate, ClearMemory, UnlinkPickle, UnlinkVersion, Invalidated, Goto, locals, Same
<1>3. CASE Replace \/ UNCHANGED vars
  BY <1>3 DEF Replace, locals, vars, Same
<1>4. ASSUME NEW p \in Processes, Restart(p) PROVE Same(u) \/ (pc'[u] = "idle" /\ due'[u] = {})
  <2>1. CASE at[u] = p
    <3>1. /\ pc' = [w \in Workers |-> IF w \in {x \in Threads : at[x] = p} THEN "idle" ELSE pc[w]]
          /\ due' = [x \in Threads |-> IF x \in {y \in Threads : at[y] = p} THEN {} ELSE due[x]]
      BY <1>4 DEF Restart
    <3>2. QED
      BY <1>0, <2>1, <3>1
  <2>2. CASE at[u] # p
    <3>1. pc'[u] = pc[u] /\ at'[u] = at[u]
      BY <1>0, <1>4, <2>2 DEF Restart
    <3>2. found'[u] = found[u] /\ stamp'[u] = stamp[u]
      BY <1>4, <2>2 DEF Restart
    <3>3. due'[u] = due[u]
      BY <1>4, <2>2 DEF Restart
    <3>4. cold'[u] => cold[u]
      BY <1>0, <1>4, <2>2 DEF Restart, LocalType
    <3>5. QED
      BY <3>1, <3>2, <3>3, <3>4 DEF Same
  <2>3. QED
    BY <2>1, <2>2
<1>5. QED
  BY <1>1, <1>2, <1>3, <1>4 DEF Next

\* As long as nothing fails the index is stable, but for vectors that are added
\* while nobody builds.
LEMMA IndexGrows ==
  ASSUME TypeInv, [Next]_vars, quiet'
  PROVE  /\ quiet
         /\ \/ index' = index
            \/ /\ ~BuildGoesOn /\ pickle' = pickle /\ version' = version /\ memory' = memory
               /\ ingested' = ingested
               /\ \E c \in Chunks \ index : index' = index \cup {c}
               /\ \A u \in Threads : Same(u)
<1>1. ASSUME NEW t \in Threads, (\E p \in Processes : Retrieve(t, p)) \/ Thread(t)
      PROVE  quiet /\ index' = index
  BY <1>1
  DEF Thread, Retrieve, Acquire, LoadVersion, CompareVersion, GetPineconeVersion, Fine, Fails,
      Unpickle, ListIds, FetchChunks, OpenPickle, DumpPickle, GetVersion, WriteVersion, Use
<1>2. ASSUME NEW i \in Ingesters, NEW p \in Processes, Upsert(i, p)
      PROVE  /\ quiet /\ ~BuildGoesOn /\ pickle' = pickle /\ version' = version
             /\ memory' = memory /\ ingested' = ingested
             /\ \E c \in Chunks \ index : index' = index \cup {c}
             /\ \A u \in Threads : Same(u)
  <2>1. \A u \in Threads : u \in Workers /\ u # i
    BY WorkersAssumption DEF Workers
  <2>2. QED
    BY <1>2, <2>1 DEF Upsert, files, Same, Goto, TypeInv, LockType
<1>3. ASSUME NEW i \in Ingesters, Invalidate(i) PROVE quiet /\ index' = index
  BY <1>3 DEF Invalidate, ClearMemory, UnlinkPickle, UnlinkVersion, Fine, Fails
<1>4. CASE Replace
  BY <1>4 DEF Replace
<1>5. CASE (\E p \in Processes : Restart(p)) \/ UNCHANGED vars
  BY <1>5 DEF Restart, vars
<1>6. QED
  BY <1>1, <1>2, <1>3, <1>4, <1>5 DEF Next

\* Only a dump puts a copy into the pickle.
LEMMA PickleIsWritten ==
  ASSUME TypeInv, [Next]_vars
  PROVE  \/ pickle' = pickle
         \/ pickle' \in Unreadable \cup {None}
         \/ \E t \in Threads : DumpPickle(t) /\ pickle' = found[t]
<1>1. ASSUME NEW t \in Threads, (\E p \in Processes : Retrieve(t, p)) \/ Thread(t)
      PROVE  \/ pickle' = pickle
             \/ pickle' \in Unreadable \cup {None}
             \/ DumpPickle(t) /\ pickle' = found[t]
  <2>1. CASE DumpPickle(t)
    BY <2>1 DEF DumpPickle, Unreadable
  <2>2. CASE OpenPickle(t)
    BY <2>2 DEF OpenPickle, Unreadable
  <2>3. CASE ~DumpPickle(t) /\ ~OpenPickle(t)
    BY <1>1, <2>3
    DEF Thread, Retrieve, Acquire, LoadVersion, CompareVersion, Unpickle, ListIds, FetchChunks,
        GetVersion, WriteVersion, Use, files
  <2>4. QED
    BY <2>1, <2>2, <2>3
<1>2. ASSUME NEW i \in Ingesters, (\E p \in Processes : Upsert(i, p)) \/ Invalidate(i)
      PROVE  pickle' = pickle \/ pickle' = None
  BY <1>2 DEF Upsert, Invalidate, ClearMemory, UnlinkPickle, UnlinkVersion, files
<1>3. CASE Replace \/ (\E p \in Processes : Restart(p)) \/ UNCHANGED vars
  BY <1>3 DEF Replace, Restart, vars, files, Unreadable
<1>4. QED
  BY <1>1, <1>2, <1>3 DEF Next

\* Only the last step of a save puts a version into its file.
LEMMA VersionIsWritten ==
  ASSUME TypeInv, [Next]_vars
  PROVE  \/ version' = version \/ version' = None
         \/ \E t \in Threads : WriteVersion(t) /\ version' = stamp[t] /\ pickle' = pickle
<1>1. ASSUME NEW t \in Threads, (\E p \in Processes : Retrieve(t, p)) \/ Thread(t)
      PROVE  version' = version \/ (WriteVersion(t) /\ version' = stamp[t] /\ pickle' = pickle)
  BY <1>1
  DEF Thread, Retrieve, Acquire, LoadVersion, CompareVersion, Unpickle, ListIds, FetchChunks,
      OpenPickle, DumpPickle, GetVersion, WriteVersion, Use, files
<1>2. ASSUME NEW i \in Ingesters, (\E p \in Processes : Upsert(i, p)) \/ Invalidate(i)
      PROVE  version' = version \/ version' = None
  BY <1>2 DEF Upsert, Invalidate, ClearMemory, UnlinkPickle, UnlinkVersion, files
<1>3. CASE Replace \/ (\E p \in Processes : Restart(p)) \/ UNCHANGED vars
  BY <1>3 DEF Replace, Restart, vars, files
<1>4. QED
  BY <1>1, <1>2, <1>3 DEF Next

----------------------------------------------------------------------------
(* QuietLoadIsValid *)

\* The steps of a build after the listing, and of a save after the opening.
Listed == {"fetch", "open", "dump", "version", "stamp"}
Opened == {"dump", "version", "stamp"}

\* As long as nothing failed and no vector changed during a build: what is
\* built is what Pinecone holds; no version is ahead of it; and one that is up
\* to date, in its file or read from it, stands beside a pickle that is.
QuietInv ==
  quiet =>
    /\ \A t \in Threads : pc[t] \in Listed => found[t] = index
    /\ \A t \in Threads : pc[t] \in Opened => PickleIsValid
    /\ \A t \in Threads : pc[t] = "stamp" => stamp[t] = PineconeVersion
    /\ version # None => version \in Nat /\ version <= PineconeVersion
    /\ version # None /\ version = PineconeVersion => PickleIsValid
    /\ \A t \in Threads : pc[t] = "compare" =>
         /\ stamp[t] \in Nat /\ stamp[t] <= PineconeVersion
         /\ stamp[t] = PineconeVersion => PickleIsValid

\* The version is a count.
LEMMA VersionCounts ==
  ASSUME index \in Copies
  PROVE  PineconeVersion \in Nat
<1>1. IsFiniteSet(index)
  BY ChunksAssumption, FS_Subset DEF Copies
<1>2. QED
  BY <1>1, FS_CardinalityType DEF PineconeVersion

\* It counts a vector that is added.
LEMMA VersionGrows ==
  ASSUME index \in Copies, NEW c \in Chunks \ index, index' = index \cup {c}
  PROVE  PineconeVersion' = PineconeVersion + 1
<1>1. IsFiniteSet(index)
  BY ChunksAssumption, FS_Subset DEF Copies
<1>2. Cardinality(index \cup {c}) = Cardinality(index) + 1
  BY <1>1, FS_AddElement
<1>3. QED
  BY <1>2 DEF PineconeVersion

\* A thread comes to a step of a build, or to the comparison, by its own action
\* only.
LEMMA WayThere ==
  ASSUME TypeInv, NEW u \in Threads, (\E p \in Processes : Retrieve(u, p)) \/ Thread(u)
  PROVE  /\ pc'[u] \in Listed => \/ ListIds(u) /\ pc'[u] = "fetch"
                                 \/ FetchChunks(u) /\ pc'[u] = "open"
                                 \/ OpenPickle(u) /\ pc'[u] = "dump"
                                 \/ DumpPickle(u) /\ pc'[u] = "version"
                                 \/ GetVersion(u) /\ pc'[u] = "stamp"
         /\ pc'[u] = "compare" => LoadVersion(u)
         /\ pc'[u] = "unpickle" => CompareVersion(u)
<1>0. u \in Workers /\ pc \in [Workers -> ThreadSteps \cup IngesterSteps]
  BY DEF TypeInv, LockType, Workers
<1> USE <1>0 DEF Goto, Listed
<1>1. CASE \E p \in Processes : Retrieve(u, p)
  BY <1>1 DEF Retrieve
<1>2. CASE Acquire(u)
  BY <1>2 DEF Acquire
<1>3. CASE LoadVersion(u)
  BY <1>3 DEF LoadVersion
<1>4. CASE CompareVersion(u)
  BY <1>4 DEF CompareVersion
<1>5. CASE Unpickle(u)
  BY <1>5 DEF Unpickle, Raise, Keep, Forgotten
<1>6. CASE ListIds(u)
  BY <1>6 DEF ListIds
<1>7. CASE FetchChunks(u)
  BY <1>7 DEF FetchChunks, Built, Raise, Keep, Forgotten
<1>8. CASE OpenPickle(u)
  BY <1>8 DEF OpenPickle, Saved
<1>9. CASE DumpPickle(u)
  BY <1>9 DEF DumpPickle, Saved
<1>10. CASE GetVersion(u)
  BY <1>10 DEF GetVersion
<1>11. CASE WriteVersion(u)
  BY <1>11 DEF WriteVersion, Saved
<1>12. CASE Use(u)
  BY <1>12 DEF Use, Forgotten
<1>13. QED
  BY <1>1, <1>2, <1>3, <1>4, <1>5, <1>6, <1>7, <1>8, <1>9, <1>10, <1>11, <1>12 DEF Thread

\* A pickle that is valid stays so while the index does not change.
LEMMA ValidStays ==
  ASSUME TypeInv, QuietInv, [Next]_vars, quiet', index' = index, PickleIsValid
  PROVE  PickleIsValid'
<1>1. quiet
  BY IndexGrows
<1>2. ASSUME NEW t \in Threads, DumpPickle(t) PROVE found[t] = index
  BY <1>1, <1>2 DEF QuietInv, DumpPickle, Listed
<1>3. QED
  BY <1>2, PickleIsWritten DEF PickleIsValid, Unreadable

\* Every step keeps what is said of the quiet time.
LEMMA QuietInvNext ==
  ASSUME TypeInv, QuietInv, [Next]_vars
  PROVE  QuietInv'
<1> SUFFICES ASSUME quiet' PROVE QuietInv'
  BY DEF QuietInv
<1>0. quiet /\ index \in Copies /\ PineconeVersion \in Nat
      /\ LocalType
  BY IndexGrows, VersionCounts DEF TypeInv, SharedType
<1>q. /\ \A t \in Threads : pc[t] \in Listed => found[t] = index
      /\ \A t \in Threads : pc[t] \in Opened => PickleIsValid
      /\ \A t \in Threads : pc[t] = "stamp" => stamp[t] = PineconeVersion
      /\ version # None => version \in Nat /\ version <= PineconeVersion
      /\ version # None /\ version = PineconeVersion => PickleIsValid
      /\ \A t \in Threads : pc[t] = "compare" =>
           /\ stamp[t] \in Nat /\ stamp[t] <= PineconeVersion
           /\ stamp[t] = PineconeVersion => PickleIsValid
  BY <1>0 DEF QuietInv
<1>1. CASE index' = index
  <2>1. PineconeVersion' = PineconeVersion
    BY <1>1 DEF PineconeVersion
  <2>2. PickleIsValid => PickleIsValid'
    BY <1>1, ValidStays
  <2>3. ASSUME NEW u \in Threads, pc'[u] \in Listed PROVE found'[u] = index'
    <3>1. CASE Same(u)
      BY <1>1, <1>q, <2>3, <3>1 DEF Same
    <3>2. CASE ListIds(u)
      BY <1>0, <1>1, <3>2 DEF ListIds, LocalType
    <3>3. CASE FetchChunks(u) /\ pc'[u] = "open"
      <4>1. found[u] = index
        BY <1>q, <3>3 DEF FetchChunks, Listed
      <4>2. Built(u, Fetched(found[u]))
        BY <3>3, <1>0, TypeInvNext DEF FetchChunks, Fails, Raise, Forgotten, Goto, TypeInv, LockType, Workers
      <4>3. found'[u] = Fetched(found[u])
        BY <1>0, <4>2 DEF Built, Keep, LocalType
      <4>4. QED
        BY <1>1, <4>1, <4>3 DEF Fetched
    <3>4. CASE OpenPickle(u) \/ DumpPickle(u) \/ GetVersion(u)
      <4>1. pc[u] \in Listed /\ found' = found
        BY <3>4 DEF OpenPickle, DumpPickle, GetVersion, Listed, locals
      <4>2. QED
        BY <1>1, <1>q, <4>1
    <3>5. QED
      BY <2>3, <3>1, <3>2, <3>3, <3>4, Moves, WayThere DEF Listed
  <2>4. ASSUME NEW u \in Threads, pc'[u] \in Opened PROVE PickleIsValid'
    <3>1. CASE Same(u)
      BY <1>q, <2>2, <2>4, <3>1 DEF Same
    <3>2. CASE OpenPickle(u)
      BY <2>4, <3>2, <1>0, TypeInvNext
      DEF OpenPickle, Fails, Unreadable, PickleIsValid
    <3>3. CASE DumpPickle(u) \/ GetVersion(u)
      BY <1>q, <2>2, <3>3 DEF DumpPickle, GetVersion, Opened
    <3>4. QED
      BY <2>4, <3>1, <3>2, <3>3, Moves, WayThere DEF Opened, Listed
  <2>5. ASSUME NEW u \in Threads, pc'[u] = "stamp" PROVE stamp'[u] = PineconeVersion'
    <3>1. CASE Same(u)
      BY <1>q, <2>1, <2>5, <3>1 DEF Same
    <3>2. CASE GetVersion(u)
      BY <1>0, <2>1, <3>2 DEF GetVersion, GetPineconeVersion, Fails, LocalType
    <3>3. QED
      BY <2>5, <3>1, <3>2, Moves, WayThere DEF Listed
  <2>6. ASSUME version' # None PROVE /\ version' \in Nat /\ version' <= PineconeVersion'
                                     /\ version' = PineconeVersion' => PickleIsValid'
    <3>1. CASE version' = version
      BY <1>q, <2>1, <2>2, <2>6, <3>1
    <3>2. ASSUME NEW t \in Threads, WriteVersion(t), version' = stamp[t]
          PROVE  version' = PineconeVersion' /\ PickleIsValid'
      BY <1>q, <2>1, <2>2, <3>2 DEF WriteVersion, Opened
    <3>3. QED
      BY <1>0, <2>1, <2>6, <3>1, <3>2, VersionIsWritten
  <2>7. ASSUME NEW u \in Threads, pc'[u] = "compare"
        PROVE  /\ stamp'[u] \in Nat /\ stamp'[u] <= PineconeVersion'
               /\ stamp'[u] = PineconeVersion' => PickleIsValid'
    <3>1. CASE Same(u)
      BY <1>q, <2>1, <2>2, <2>7, <3>1 DEF Same
    <3>2. CASE LoadVersion(u)
      <4>1. version # None /\ stamp'[u] = version
        BY <1>0, <2>7, <3>2, TypeInvNext DEF LoadVersion, Goto, LocalType, TypeInv, LockType, Workers
      <4>2. QED
        BY <1>q, <2>1, <2>2, <4>1
    <3>3. QED
      BY <2>7, <3>1, <3>2, Moves, WayThere
  <2>8. QED
    BY <2>3, <2>4, <2>5, <2>6, <2>7 DEF QuietInv
<1>2. ASSUME ~BuildGoesOn, pickle' = pickle, version' = version,
             NEW c \in Chunks \ index, index' = index \cup {c},
             \A u \in Threads : Same(u)
      PROVE  QuietInv'
  <2>1. PineconeVersion' = PineconeVersion + 1
    BY <1>0, <1>2, VersionGrows
  <2>2. \A u \in Threads : pc'[u] = pc[u] /\ stamp'[u] = stamp[u] /\ pc[u] \notin Building
    BY <1>2 DEF Same, BuildGoesOn
  <2>3. \A u \in Threads : pc'[u] \notin Listed /\ pc'[u] \notin Opened /\ pc'[u] # "stamp"
    BY <2>2 DEF Listed, Opened, Building
  <2>4. version' # None => /\ version' \in Nat /\ version' <= PineconeVersion'
                           /\ version' # PineconeVersion'
    BY <1>0, <1>2, <1>q, <2>1
  <2>5. \A u \in Threads : pc'[u] = "compare" =>
          /\ stamp'[u] \in Nat /\ stamp'[u] <= PineconeVersion'
          /\ stamp'[u] # PineconeVersion'
    BY <1>0, <1>q, <2>1, <2>2
  <2>6. QED
    BY <2>3, <2>4, <2>5 DEF QuietInv
<1>3. QED
  BY <1>1, <1>2, IndexGrows

\* So it is at all times.
LEMMA QuietInvAlways == Spec => []QuietInv
<1>1. Init => QuietInv
  BY DEF Init, QuietInv, Listed, Opened, Workers
<1>2. QED
  BY <1>1, QuietInvNext, TypeInvAlways, PTL DEF Spec

\* A pickle whose version agrees is what Pinecone holds, as long as nothing
\* failed and no vector changed while an index was built: of the two files that
\* any number of processes write one after the other.
THEOREM QuietLoadsAreValid == Spec => QuietLoadIsValid
<1>1. ASSUME TypeInv, QuietInv, [Next]_vars, NEW t \in Threads, quiet, Loads(t)
      PROVE  PickleIsValid
  <2>1. CompareVersion(t)
    BY <1>1, Moves, WayThere DEF Loads, Same
  <2>2. PICK v \in {PineconeVersion, Unknown} :
          pc' = [pc EXCEPT ![t] = IF stamp[t] = v THEN "unpickle" ELSE "list"]
    BY <2>1 DEF CompareVersion, Goto
  <2>3. stamp[t] = v
    BY <1>1, <2>2 DEF Loads, TypeInv, LockType, Workers
  <2>4. stamp[t] \in Nat /\ (stamp[t] = PineconeVersion => PickleIsValid)
    BY <1>1 DEF Loads, QuietInv
  <2>5. QED
    BY <2>2, <2>3, <2>4 DEF Unknown
<1>2. TypeInv /\ QuietInv /\ [Next]_vars =>
        [\A t \in Threads : (quiet /\ Loads(t)) => PickleIsValid]_vars
  BY <1>1
<1>3. QED
  BY <1>2, TypeInvAlways, QuietInvAlways, PTL DEF Spec, QuietLoadIsValid

----------------------------------------------------------------------------
(* ColdStartIsFresh *)

Readable == pickle \notin Unreadable \cup {None}

\* As long as nothing failed and no vector changed during a build: what was
\* ingested is in the index and in every pickle that can be read, what is being
\* invalidated for is there as well from the unlinking on, and a copy that a
\* process has got since a cold retrieval began has what this one is due.
FreshInv ==
  quiet =>
    /\ ingested \subseteq index
    /\ \A i \in Ingesters :
         pc[i] \in {"clear", "unlink_pickle", "unlink_version"} => batch[i] \subseteq index
    /\ Readable => ingested \subseteq pickle
    /\ \A i \in Ingesters : pc[i] = "unlink_version" /\ Readable => batch[i] \subseteq pickle
    /\ \A t \in Threads : due[t] \subseteq ingested
    /\ \A t \in Threads :
         pc[t] = "acquire" /\ cold[t] /\ memory[at[t]] # None => due[t] \subseteq memory[at[t]]
    /\ ColdStartIsFresh

\* What was ingested grows with the end of an invalidation only.
LEMMA IngestedGrows ==
  ASSUME TypeInv, [Next]_vars, quiet'
  PROVE  \/ ingested' = ingested
         \/ \E i \in Ingesters : /\ pc[i] = "unlink_version"
                                 /\ ingested' = ingested \cup batch[i]
                                 /\ pickle' = pickle /\ index' = index
<1>1. ASSUME NEW t \in Threads, (\E p \in Processes : Retrieve(t, p)) \/ Thread(t)
      PROVE  ingested' = ingested
  BY <1>1
  DEF Thread, Retrieve, Acquire, LoadVersion, CompareVersion, Unpickle, ListIds, FetchChunks,
      OpenPickle, DumpPickle, GetVersion, WriteVersion, Use
<1>2. ASSUME NEW i \in Ingesters, (\E p \in Processes : Upsert(i, p)) \/ Invalidate(i)
      PROVE  \/ ingested' = ingested
             \/ /\ pc[i] = "unlink_version" /\ ingested' = ingested \cup batch[i]
                /\ pickle' = pickle /\ index' = index
  BY <1>2 DEF Upsert, Invalidate, ClearMemory, UnlinkPickle, UnlinkVersion, Invalidated, Fails
<1>3. CASE Replace \/ (\E p \in Processes : Restart(p)) \/ UNCHANGED vars
  BY <1>3 DEF Replace, Restart, vars
<1>4. QED
  BY <1>1, <1>2, <1>3 DEF Next

\* An ingester stays as it is or takes a step of its own.
LEMMA IngesterMoves ==
  ASSUME TypeInv, [Next]_vars, NEW i \in Ingesters
  PROVE  \/ pc'[i] = pc[i] /\ batch'[i] = batch[i]
         \/ (\E p \in Processes : Upsert(i, p))
         \/ Invalidate(i)
<1>0. /\ i \in Workers /\ i \notin Threads
      /\ pc \in [Workers -> ThreadSteps \cup IngesterSteps]
      /\ batch \in [Ingesters -> Copies]
  BY WorkersAssumption DEF TypeInv, LockType, SharedType, Workers
<1>1. ASSUME NEW t \in Threads, (\E p \in Processes : Retrieve(t, p)) \/ Thread(t)
      PROVE  pc'[i] = pc[i] /\ batch'[i] = batch[i]
  BY <1>0, <1>1
  DEF Thread, Retrieve, Acquire, LoadVersion, CompareVersion, Unpickle, ListIds, FetchChunks,
      OpenPickle, DumpPickle, GetVersion, WriteVersion, Use, Goto, Saved, Built, Keep, Raise,
      Forgotten
<1>2. ASSUME NEW j \in Ingesters, (\E p \in Processes : Upsert(j, p)) \/ Invalidate(j)
      PROVE  j = i \/ (pc'[i] = pc[i] /\ batch'[i] = batch[i])
  BY <1>0, <1>2
  DEF Upsert, Invalidate, ClearMemory, UnlinkPickle, UnlinkVersion, Invalidated, Goto
<1>3. CASE Replace \/ (\E p \in Processes : Restart(p)) \/ UNCHANGED vars
  BY <1>0, <1>3 DEF Replace, Restart, vars
<1>4. QED
  BY <1>1, <1>2, <1>3 DEF Next

\* A retrieval that goes on is due what it was, and one that begins what was
\* ingested before.
LEMMA DueIs ==
  ASSUME TypeInv, [Next]_vars, NEW t \in Threads
  PROVE  due'[t] \in {due[t], ingested, {}}
<1>0. due \in [Threads -> Copies]
  BY DEF TypeInv, LocalType
<1>1. ASSUME NEW p \in Processes, Retrieve(t, p) PROVE due'[t] = ingested
  BY <1>0, <1>1 DEF Retrieve
<1>2. CASE Thread(t)
  BY <1>0, <1>2
  DEF Thread, Acquire, LoadVersion, CompareVersion, Unpickle, ListIds, FetchChunks, OpenPickle,
      DumpPickle, GetVersion, WriteVersion, Use, Built, Keep, Raise, Forgotten, locals
<1>3. QED
  BY <1>1, <1>2, Moves DEF Same

\* A copy that a thread builds has everything that was ingested.
LEMMA BuiltIsFresh ==
  ASSUME QuietInv, FreshInv, quiet, NEW t \in Threads, FetchChunks(t), quiet'
  PROVE  \/ Raise(t)
         \/ /\ Built(t, index) /\ found[t] = index
            /\ ingested \subseteq index
<1>1. found[t] = index
  BY DEF FetchChunks, QuietInv, Listed
<1>2. Fetched(found[t]) = index
  BY <1>1 DEF Fetched
<1>3. QED
  BY <1>1, <1>2 DEF FetchChunks, Fails, FreshInv

\* So has every copy that a process gets.
LEMMA MemoryIsFresh ==
  ASSUME TypeInv, QuietInv, FreshInv, [Next]_vars, quiet', NEW p \in Processes
  PROVE  memory'[p] \in {memory[p], None} \/ ingested \subseteq memory'[p]
<1>0. quiet /\ memory \in [Processes -> Copies \cup {None}]
  BY IndexGrows DEF TypeInv, LockType
<1>1. ASSUME NEW t \in Threads, NEW copy, Remember(t, copy), ingested \subseteq copy
      PROVE  memory'[p] = memory[p] \/ ingested \subseteq memory'[p]
  BY <1>0, <1>1 DEF Remember
<1>2. ASSUME NEW t \in Threads, Unpickle(t)
      PROVE  memory'[p] = memory[p] \/ ingested \subseteq memory'[p]
  BY <1>0, <1>1, <1>2 DEF Unpickle, Raise, Keep, FreshInv, Readable
<1>3. ASSUME NEW t \in Threads, FetchChunks(t)
      PROVE  memory'[p] = memory[p] \/ ingested \subseteq memory'[p]
  <2>1. CASE Raise(t)
    BY <2>1 DEF Raise
  <2>2. CASE Built(t, index) /\ ingested \subseteq index
    <3>1. Remember(t, index)
      BY <2>2 DEF Built, Keep
    <3>2. QED
      BY <1>1, <2>2, <3>1
  <2>3. QED
    BY <1>0, <1>3, <2>1, <2>2, BuiltIsFresh
<1>4. ASSUME NEW i \in Ingesters, ClearMemory(i) PROVE memory'[p] \in {memory[p], None}
  BY <1>0, <1>4 DEF ClearMemory, Remember
<1>5. ASSUME NEW q \in Processes, Restart(q) PROVE memory'[p] \in {memory[p], None}
  BY <1>0, <1>5 DEF Restart
<1>6. QED
  BY <1>2, <1>3, <1>4, <1>5
  DEF Next, Thread, Invalidate, vars, Retrieve, Acquire, LoadVersion, CompareVersion, ListIds,
      OpenPickle, DumpPickle, GetVersion, WriteVersion, Use, Upsert, UnlinkPickle, UnlinkVersion,
      Replace

\* A cold retrieval waits for the lock as soon as it has begun.
LEMMA ColdWaits ==
  ASSUME TypeInv, NEW t \in Threads, pc'[t] = "acquire",
         (\E p \in Processes : Retrieve(t, p)) \/ Thread(t)
  PROVE  memory'[at'[t]] = None
<1>0. t \in Workers /\ pc \in [Workers -> ThreadSteps \cup IngesterSteps]
      /\ at \in [Workers -> Processes \cup {None}]
  BY DEF TypeInv, LockType, Workers
<1>1. ASSUME NEW p \in Processes, Retrieve(t, p) PROVE memory'[at'[t]] = None
  BY <1>0, <1>1 DEF Retrieve, Goto
<1>2. ~Thread(t)
  BY <1>0
  DEF Thread, Acquire, LoadVersion, CompareVersion, Unpickle, ListIds, FetchChunks, OpenPickle,
      DumpPickle, GetVersion, WriteVersion, Use, Goto, Saved, Built, Keep, Raise, Forgotten
<1>3. QED
  BY <1>1, <1>2

\* A cold retrieval is answered from memory, from the pickle or from a build.
LEMMA ColdAnswers ==
  ASSUME TypeInv, QuietInv, FreshInv, quiet, quiet', NEW t \in Threads,
         pc'[t] = "use", cold'[t],
         (\E p \in Processes : Retrieve(t, p)) \/ Thread(t)
  PROVE  due'[t] = due[t] /\ due[t] \subseteq found'[t]
<1>0. /\ t \in Workers /\ pc \in [Workers -> ThreadSteps \cup IngesterSteps]
      /\ LocalType
  BY DEF TypeInv, LockType, Workers
<1>f. /\ due[t] \subseteq ingested /\ ingested \subseteq index
      /\ Readable => ingested \subseteq pickle
      /\ pc[t] = "acquire" /\ cold[t] /\ memory[at[t]] # None => due[t] \subseteq memory[at[t]]
  BY DEF FreshInv
<1>1. CASE \E p \in Processes : Retrieve(t, p)
  <2>1. PICK p \in Processes : Retrieve(t, p)
    BY <1>1
  <2>2. memory[p] = None
    BY <1>0, <2>1 DEF Retrieve, LocalType
  <2>3. pc'[t] = "acquire"
    BY <1>0, <2>1, <2>2 DEF Retrieve, Goto
  <2>4. QED
    BY <2>3
<1>2. CASE Acquire(t)
  BY <1>0, <1>2, <1>f DEF Acquire, Goto, LocalType
<1>3. CASE Unpickle(t)
  <2>1. Keep(t, pickle) /\ Readable
    BY <1>0, <1>3 DEF Unpickle, Raise, Forgotten, Goto, Readable
  <2>2. found'[t] = pickle /\ due' = due
    BY <1>0, <2>1 DEF Keep, LocalType
  <2>3. QED
    BY <1>f, <2>1, <2>2
<1>4. CASE FetchChunks(t)
  <2>1. Built(t, index)
    BY <1>0, <1>4, BuiltIsFresh DEF Raise, Forgotten, Goto
  <2>2. found'[t] = index /\ due' = due
    BY <1>0, <2>1 DEF Built, Keep, LocalType
  <2>3. QED
    BY <1>f, <2>2
<1>5. CASE OpenPickle(t) \/ DumpPickle(t) \/ WriteVersion(t)
  <2>1. pc[t] \in Listed /\ found' = found /\ due' = due
    BY <1>5 DEF OpenPickle, DumpPickle, WriteVersion, Listed, locals
  <2>2. QED
    BY <1>f, <2>1 DEF QuietInv
<1>6. CASE LoadVersion(t) \/ CompareVersion(t) \/ ListIds(t) \/ GetVersion(t) \/ Use(t)
  BY <1>0, <1>6 DEF LoadVersion, CompareVersion, ListIds, GetVersion, Use, Forgotten, Goto
<1>7. QED
  BY <1>1, <1>2, <1>3, <1>4, <1>5, <1>6 DEF Thread

\* Every step keeps it.
LEMMA FreshInvNext ==
  ASSUME TypeInv, QuietInv, FreshInv, [Next]_vars
  PROVE  FreshInv'
<1> SUFFICES ASSUME quiet' PROVE FreshInv'
  BY DEF FreshInv
<1>0. quiet /\ index \subseteq index'
  BY IndexGrows
<1>f. /\ ingested \subseteq index
      /\ \A i \in Ingesters :
           pc[i] \in {"clear", "unlink_pickle", "unlink_version"} => batch[i] \subseteq index
      /\ Readable => ingested \subseteq pickle
      /\ \A i \in Ingesters : pc[i] = "unlink_version" /\ Readable => batch[i] \subseteq pickle
      /\ \A t \in Threads : due[t] \subseteq ingested
      /\ \A t \in Threads :
           pc[t] = "acquire" /\ cold[t] /\ memory[at[t]] # None => due[t] \subseteq memory[at[t]]
      /\ ColdStartIsFresh
  BY <1>0 DEF FreshInv
<1>g. ingested \subseteq ingested'
  BY IngestedGrows
<1>p. ASSUME Readable'
      PROVE  \/ pickle' = pickle /\ Readable
             \/ pickle' = index /\ ingested' = ingested
                /\ \A i \in Ingesters : pc'[i] = pc[i] /\ batch'[i] = batch[i]
  <2>1. ASSUME NEW t \in Threads, DumpPickle(t), pickle' = found[t]
        PROVE  pickle' = index /\ ingested' = ingested
               /\ \A i \in Ingesters : pc'[i] = pc[i] /\ batch'[i] = batch[i]
    <3>1. found[t] = index
      BY <1>0, <2>1 DEF DumpPickle, QuietInv, Listed
    <3>2. \A i \in Ingesters : i \in Workers /\ i # t
      BY WorkersAssumption DEF Workers
    <3>3. QED
      BY <2>1, <3>1, <3>2 DEF DumpPickle, Saved, Goto, TypeInv, LockType
  <2>2. QED
    BY <1>p, <2>1, PickleIsWritten DEF Readable, Unreadable
<1>1. ingested' \subseteq index'
  BY <1>0, <1>f, IngestedGrows
<1>2. ASSUME NEW i \in Ingesters, pc'[i] \in {"clear", "unlink_pickle", "unlink_version"}
      PROVE  batch'[i] \subseteq index'
  <2>0. i \in Workers /\ pc \in [Workers -> ThreadSteps \cup IngesterSteps]
        /\ batch \in [Ingesters -> Copies]
    BY DEF TypeInv, LockType, SharedType, Workers
  <2>1. ASSUME NEW p \in Processes, Upsert(i, p) PROVE batch'[i] \subseteq index'
    BY <2>0, <2>1 DEF Upsert
  <2>2. CASE Invalidate(i)
    BY <1>0, <1>f, <2>0, <2>2
    DEF Invalidate, ClearMemory, UnlinkPickle, UnlinkVersion, Goto
  <2>3. QED
    BY <1>0, <1>2, <1>f, <2>1, <2>2, IngesterMoves
<1>3. Readable' => ingested' \subseteq pickle'
  BY <1>f, <1>p, IngestedGrows
<1>4. ASSUME NEW i \in Ingesters, pc'[i] = "unlink_version", Readable'
      PROVE  batch'[i] \subseteq pickle'
  <2>0. i \in Workers /\ pc \in [Workers -> ThreadSteps \cup IngesterSteps]
    BY DEF TypeInv, LockType, Workers
  <2>1. CASE pc'[i] = pc[i] /\ batch'[i] = batch[i]
    BY <1>4, <1>f, <1>p, <2>1
  <2>2. ~\E p \in Processes : Upsert(i, p)
    BY <1>4, <2>0 DEF Upsert, Goto
  <2>3. ~Invalidate(i)
    BY <1>4, <2>0
    DEF Invalidate, ClearMemory, UnlinkPickle, UnlinkVersion, Invalidated, Fails, Goto, Readable
  <2>4. QED
    BY <2>1, <2>2, <2>3, IngesterMoves
<1>5. ASSUME NEW t \in Threads PROVE due'[t] \subseteq ingested'
  BY <1>f, <1>g, DueIs
<1>6. ASSUME NEW t \in Threads, pc'[t] = "acquire", cold'[t], memory'[at'[t]] # None
      PROVE  due'[t] \subseteq memory'[at'[t]]
  <2>1. Same(t)
    BY <1>6, Moves, ColdWaits
  <2>2. at[t] \in Processes
    BY <1>6, <2>1 DEF Same, TypeInv, Placed, Workers
  <2>3. CASE memory'[at[t]] = memory[at[t]]
    BY <1>6, <1>f, <2>1, <2>3 DEF Same
  <2>4. CASE ingested \subseteq memory'[at[t]]
    BY <1>f, <2>1, <2>4 DEF Same
  <2>5. QED
    BY <1>6, <2>1, <2>2, <2>3, <2>4, MemoryIsFresh DEF Same
<1>7. ColdStartIsFresh'
  <2> SUFFICES ASSUME NEW t \in Threads, pc'[t] = "use", cold'[t]
               PROVE  due'[t] \subseteq found'[t]
    BY DEF ColdStartIsFresh
  <2>1. CASE Same(t)
    BY <1>0, <1>f, <2>1 DEF Same, ColdStartIsFresh
  <2>2. CASE (\E p \in Processes : Retrieve(t, p)) \/ Thread(t)
    BY <1>0, <2>2, ColdAnswers
  <2>3. QED
    BY <2>1, <2>2, Moves
<1>8. QED
  BY <1>1, <1>2, <1>3, <1>4, <1>5, <1>6, <1>7 DEF FreshInv

\* A retrieval that began in a process without a copy is answered from an index
\* with everything ingested before, as long as nothing failed and no vector
\* changed while an index was built: of the invalidation, which empties the
\* memory of one process only, and of the files, which all share.
THEOREM ColdStartsAreFresh == Spec => []ColdStartIsFresh
<1>1. Init => FreshInv /\ ColdStartIsFresh
  BY DEF Init, FreshInv, ColdStartIsFresh, Readable, Workers
<1>2. TypeInv /\ FreshInv => ColdStartIsFresh
  BY DEF FreshInv, ColdStartIsFresh
<1>3. QED
  BY <1>1, <1>2, FreshInvNext, TypeInvAlways, QuietInvAlways, PTL DEF Spec
=============================================================================
