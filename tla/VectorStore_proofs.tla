------------------------- MODULE VectorStore_proofs -------------------------
(***************************************************************************)
(* Proofs about the modules that use the vector store: Ingestion, for any    *)
(* set of files, batch size, number of attempts and number of runs;          *)
(* Retrieval, for any clients, chain of models and numbers of attempts; and  *)
(* RankFusion, for any number of rankings of any length and any weights.     *)
(***************************************************************************)
EXTENDS Ingestion, Retrieval, RankFusion,
        FiniteSetTheorems, NaturalsInduction, WellFoundedInduction, TLAPS

\* What the runs before this one, and this one, may have stored of a file.
Base  == runs * MaxAttempts - MaxAttempts
Bound == runs * MaxAttempts

\* A batch is being stored in embedding_node only, with an attempt left.
BatchInv ==
  /\ batch # {} => node = "embedding" /\ attempt < MaxAttempts
  /\ batch \cap todo = {}
  /\ node = "embedding" => batch \cup todo \subseteq documents
  /\ node \in {"ingestion", "cleaning", "chunking", "embedding"} => runs >= 1

\* A file that has not been sent in this run is there as often as earlier runs
\* left it, one that is being sent once more for each attempt.
CopiesInv ==
  \A f \in Pdfs :
    /\ copies[f] <= Bound
    /\ node \in {"ingestion", "cleaning", "chunking"} => copies[f] <= Base
    /\ node = "embedding" /\ f \in todo => copies[f] <= Base
    /\ f \in batch => copies[f] <= Base + attempt

\* In embedding_node every document that is done with is stored or skipped.
StoredInv ==
  node = "embedding" =>
    \A f \in documents \ (todo \cup batch \cup skipped) : copies[f] >= 1

Inv == TypeOK /\ BatchInv /\ CopiesInv

----------------------------------------------------------------------------
\* The bounds are numbers, one run apart.
LEMMA Bounds ==
  ASSUME TypeOK
  PROVE  /\ Bound \in Nat /\ Base \in Int /\ Bound = Base + MaxAttempts
         /\ MaxAttempts \in Nat \ {0} /\ runs \in Nat
         /\ (runs + 1) * MaxAttempts = Bound + MaxAttempts
<1>1. runs \in Nat /\ MaxAttempts \in Nat \ {0}
  BY AttemptsAssumption, RunsAssumption DEF TypeOK
<1>2. runs * MaxAttempts \in Nat
  BY <1>1
<1>3. (runs + 1) * MaxAttempts = runs * MaxAttempts + MaxAttempts
  BY <1>1
<1>4. QED
  BY <1>1, <1>2, <1>3 DEF Bound, Base

\* One more call of add_documents stores each file of the batch at most once.
LEMMA StoredEffect ==
  ASSUME TypeOK, copies' = Stored \/ UNCHANGED copies
  PROVE  /\ copies' \in [Pdfs -> Nat]
         /\ \A f \in Pdfs : copies[f] <= copies'[f]
         /\ \A f \in batch : copies'[f] <= copies[f] + 1
         /\ \A f \in Pdfs \ batch : copies'[f] = copies[f]
BY DEF TypeOK, Stored

\* The empty batch.
LEMMA NoBatch == Cardinality({}) <= BatchSize
BY FS_EmptySet, BatchAssumption

\* Every node sets one of the statuses, or none.
LEMMA StatusNext ==
  ASSUME status \in Statuses, [Next]_vars
  PROVE  status' \in Statuses
<1>1. CASE Run
  BY <1>1 DEF Run, Statuses
<1>2. CASE IngestionDone
  BY <1>2 DEF IngestionDone, Statuses
<1>3. CASE CleaningDone
  BY <1>3 DEF CleaningDone, Statuses
<1>4. CASE Chunk
  BY <1>4 DEF Chunk, Statuses
<1>5. CASE NoDocuments \/ NoVectorStore \/ InvalidateCache
  BY <1>5 DEF NoDocuments, NoVectorStore, InvalidateCache, End, Statuses
<1>6. CASE AddFails
  BY <1>6 DEF AddFails, Retry, GiveUp, End, Statuses
<1>7. CASE UNCHANGED vars \/ ConvertPdf \/ CleanFile \/ NextBatch \/ AddDocuments \/ Crash
  BY <1>7 DEF vars, ConvertPdf, CleanFile, NextBatch, AddDocuments, Crash
<1>8. QED
  BY <1>1, <1>2, <1>3, <1>4, <1>5, <1>6, <1>7 DEF Next, Node

\* Every step keeps the types.
LEMMA TypeNext ==
  ASSUME Inv, [Next]_vars
  PROVE  TypeOK'
<1>0. /\ TypeOK /\ BatchInv
      /\ MaxAttempts \in Nat \ {0} /\ BatchSize \in Nat \ {0} /\ MaxRuns \in Nat
  BY AttemptsAssumption, BatchAssumption, RunsAssumption DEF Inv
<1>s. status' \in Statuses
  BY <1>0, StatusNext DEF TypeOK
<1>1. CASE Run
  BY <1>0, <1>s, <1>1 DEF Run, Enter, TypeOK
<1>2. CASE ConvertPdf \/ CleanFile
  BY <1>0, <1>2 DEF ConvertPdf, CleanFile, TypeOK, Contents
<1>3. CASE IngestionDone \/ CleaningDone
  <2>1. /\ node' \in {"cleaning", "chunking"} /\ todo' = Written
        /\ UNCHANGED <<markdown, documents, batch, attempt, copies, runs, skipped>>
    BY <1>3 DEF IngestionDone, CleaningDone, Enter
  <2>2. QED
    BY <1>0, <1>s, <2>1 DEF Written, TypeOK
<1>4. CASE Chunk
  <2>1. /\ node' = "embedding" /\ todo' \subseteq todo /\ documents' \subseteq todo
        /\ batch' = {} /\ attempt' = 0 /\ UNCHANGED <<markdown, copies, runs, skipped>>
    BY <1>4 DEF Chunk, Enter
  <2>2. QED
    BY <1>0, <1>s, <2>1, NoBatch DEF TypeOK
<1>5. CASE NoDocuments \/ NoVectorStore \/ InvalidateCache
  <2>1. /\ node' = "end" /\ todo' = {} /\ documents' \in {documents, {}}
        /\ UNCHANGED <<markdown, batch, attempt, copies, runs, skipped>>
    BY <1>5 DEF NoDocuments, NoVectorStore, InvalidateCache, End, Enter
  <2>2. QED
    BY <1>0, <1>s, <2>1 DEF TypeOK
<1>6. CASE NextBatch
  <2>1. PICK b \in SUBSET todo :
          /\ Cardinality(b) = BatchSize \/ (b = todo /\ Cardinality(b) < BatchSize)
          /\ batch' = b /\ todo' = todo \ b
    BY <1>6 DEF NextBatch
  <2>2. Cardinality(b) \in Nat
    BY <1>0, PdfsAssumption, FS_Subset, FS_CardinalityType DEF TypeOK
  <2>3. Cardinality(batch') <= BatchSize
    BY <1>0, <2>1, <2>2
  <2>4. QED
    BY <1>0, <1>s, <1>6, <2>1, <2>3 DEF NextBatch, TypeOK
<1>7. CASE AddDocuments
  BY <1>0, <1>s, <1>7, StoredEffect, NoBatch DEF AddDocuments, TypeOK
<1>8. CASE AddFails
  <2>1. copies' \in [Pdfs -> Nat]
    BY <1>0, <1>s, <1>8, StoredEffect DEF AddFails, MayHaveStored
  <2>2. PICK rateLimit \in BOOLEAN : Retry(rateLimit) \/ GiveUp(rateLimit)
    BY <1>8 DEF AddFails
  <2>3. CASE Retry(rateLimit)
    <3>1. attempt' \in 0..MaxAttempts
      BY <1>0, <1>s, <1>8, <2>3 DEF AddFails, Retry, BatchInv, TypeOK
    <3>2. batch' \in {batch, {}} /\ skipped' \subseteq Pdfs
      BY <1>0, <1>s, <2>3 DEF Retry, TypeOK
    <3>3. QED
      BY <1>0, <1>s, <1>8, <2>1, <2>3, <3>1, <3>2, NoBatch DEF AddFails, Retry, TypeOK
  <2>4. CASE GiveUp(rateLimit)
    <3>1. /\ node' = "end" /\ todo' = {} /\ batch' = {}
          /\ UNCHANGED <<markdown, documents, attempt, runs, skipped>>
      BY <1>8, <2>4 DEF AddFails, GiveUp, End, Enter
    <3>2. QED
      BY <1>0, <1>s, <2>1, <3>1, NoBatch DEF TypeOK
  <2>5. QED
    BY <2>2, <2>3, <2>4
<1>9. CASE Crash
  <2>1. copies' \in [Pdfs -> Nat]
    BY <1>0, <1>9, StoredEffect DEF Crash, MayHaveStored
  <2>2. markdown' \in [Pdfs -> Contents]
    BY <1>0, <1>9 DEF Crash, TypeOK, Contents
  <2>3. QED
    BY <1>0, <1>s, <1>9, <2>1, <2>2, NoBatch DEF Crash, Enter, TypeOK
<1>10. CASE UNCHANGED vars
  BY <1>0, <1>10 DEF vars, TypeOK
<1>11. QED
  BY <1>1, <1>2, <1>3, <1>4, <1>5, <1>6, <1>7, <1>8, <1>9, <1>10 DEF Next, Node

\* Every step keeps the bounds.
LEMMA CopiesNext ==
  ASSUME Inv, [Next]_vars
  PROVE  BatchInv' /\ CopiesInv'
<1>0. /\ TypeOK /\ BatchInv /\ CopiesInv
      /\ MaxAttempts \in Nat \ {0} /\ runs \in Nat /\ attempt \in Nat
      /\ Bound \in Nat /\ Base \in Int /\ Bound = Base + MaxAttempts
      /\ \A f \in Pdfs : copies[f] \in Nat
  BY Bounds DEF Inv, TypeOK
<1>1. CASE Run
  <2>1. batch = {} /\ batch' = {} /\ runs' = runs + 1 /\ node' = "ingestion" /\ UNCHANGED copies
    BY <1>0, <1>1 DEF Run, Enter, BatchInv
  <2>2. Bound' = Bound + MaxAttempts /\ Base' = Bound
    BY <1>0, <2>1, Bounds DEF Bound, Base
  <2>3. QED
    BY <1>0, <2>1, <2>2 DEF BatchInv, CopiesInv
<1>2. CASE ConvertPdf \/ CleanFile \/ IngestionDone \/ CleaningDone
  <2>1. /\ batch = {} /\ UNCHANGED <<batch, runs, copies>>
        /\ node \in {"ingestion", "cleaning"}
        /\ node' \in {"ingestion", "cleaning", "chunking"}
    BY <1>0, <1>2 DEF ConvertPdf, CleanFile, IngestionDone, CleaningDone, Enter, BatchInv
  <2>2. QED
    BY <1>0, <2>1 DEF BatchInv, CopiesInv, Bound, Base
<1>3. CASE Chunk
  <2>1. batch' = {} /\ UNCHANGED <<runs, copies>> /\ node = "chunking" /\ node' = "embedding"
        /\ todo' = documents'
    BY <1>3 DEF Chunk, Enter
  <2>2. QED
    BY <1>0, <2>1 DEF BatchInv, CopiesInv, Bound, Base
<1>4. CASE NoDocuments \/ NoVectorStore \/ InvalidateCache
  <2>1. batch' = batch /\ UNCHANGED <<runs, copies, attempt>> /\ node' = "end" /\ todo' = {}
        /\ (batch = {} \/ node = "embedding")
    BY <1>4 DEF NoDocuments, NoVectorStore, InvalidateCache, End, Enter
  <2>2. batch = {}
    BY <1>0, <1>4 DEF NoDocuments, NoVectorStore, InvalidateCache, BatchInv
  <2>3. QED
    BY <1>0, <2>1, <2>2 DEF BatchInv, CopiesInv, Bound, Base
<1>5. CASE NextBatch
  <2>1. PICK b \in SUBSET todo : batch' = b /\ todo' = todo \ b
    BY <1>5 DEF NextBatch
  <2>2. UNCHANGED <<node, runs, copies, documents>> /\ node = "embedding" /\ attempt' = 0
    BY <1>5 DEF NextBatch
  <2>3. QED
    BY <1>0, <2>1, <2>2 DEF BatchInv, CopiesInv, Bound, Base
<1>6. ASSUME node = "embedding", batch # {}, copies' = Stored \/ UNCHANGED copies, UNCHANGED runs
      PROVE  /\ \A f \in Pdfs : copies'[f] <= Bound'
             /\ \A f \in Pdfs \ batch : copies'[f] = copies[f]
             /\ \A f \in batch : copies'[f] <= Base' + (attempt + 1)
             /\ Bound' = Bound /\ Base' = Base
  <2>1. /\ \A f \in batch : copies'[f] <= copies[f] + 1
        /\ \A f \in Pdfs \ batch : copies'[f] = copies[f]
        /\ copies' \in [Pdfs -> Nat]
    BY <1>0, <1>6, StoredEffect
  <2>2. Bound' = Bound /\ Base' = Base
    BY <1>6 DEF Bound, Base
  <2>3. \A f \in batch : copies'[f] <= Base + (attempt + 1)
    BY <1>0, <2>1 DEF CopiesInv, TypeOK
  <2>4. attempt + 1 <= MaxAttempts
    BY <1>0, <1>6 DEF BatchInv
  <2>5. \A f \in batch : copies'[f] <= Bound
    BY <1>0, <2>1, <2>3, <2>4 DEF TypeOK
  <2>6. QED
    BY <1>0, <2>1, <2>2, <2>3, <2>5 DEF CopiesInv
<1>7. CASE AddDocuments
  <2>1. batch' = {} /\ UNCHANGED <<node, todo, runs>>
    BY <1>7 DEF AddDocuments
  <2>2. QED
    BY <1>0, <1>6, <1>7, <2>1 DEF AddDocuments, BatchInv, CopiesInv
<1>8. CASE AddFails
  <2>1. PICK rateLimit \in BOOLEAN : Retry(rateLimit) \/ GiveUp(rateLimit)
    BY <1>8 DEF AddFails
  <2>2. CASE Retry(rateLimit)
    <3>1. /\ UNCHANGED <<node, todo, runs>> /\ attempt' = attempt + 1
          /\ batch' = IF attempt' = MaxAttempts THEN {} ELSE batch
      BY <1>8, <2>2 DEF AddFails, Retry
    <3>2. attempt' <= MaxAttempts
      BY <1>0, <1>8, <3>1 DEF AddFails, BatchInv
    <3>3. BatchInv'
      BY <1>0, <1>8, <3>1, <3>2 DEF AddFails, BatchInv
    <3>4. CopiesInv'
      BY <1>0, <1>6, <1>8, <3>1 DEF AddFails, MayHaveStored, BatchInv, CopiesInv
    <3>5. QED
      BY <3>3, <3>4
  <2>3. CASE GiveUp(rateLimit)
    <3>1. batch' = {} /\ node' = "end" /\ UNCHANGED runs
      BY <1>8, <2>3 DEF AddFails, GiveUp, End, Enter
    <3>2. QED
      BY <1>0, <1>6, <1>8, <3>1 DEF AddFails, MayHaveStored, BatchInv, CopiesInv
  <2>4. QED
    BY <2>1, <2>2, <2>3
<1>9. CASE Crash
  <2>1. batch' = {} /\ node' = "raised" /\ UNCHANGED runs
    BY <1>9 DEF Crash, Enter
  <2>2. CASE batch # {}
    BY <1>0, <1>6, <1>9, <2>1, <2>2 DEF Crash, MayHaveStored, BatchInv, CopiesInv
  <2>3. CASE batch = {}
    BY <1>0, <1>9, <2>1, <2>3 DEF Crash, BatchInv, CopiesInv, Bound
  <2>4. QED
    BY <2>2, <2>3
<1>10. CASE UNCHANGED vars
  BY <1>0, <1>10 DEF vars, BatchInv, CopiesInv, Bound, Base
<1>11. QED
  BY <1>1, <1>2, <1>3, <1>4, <1>5, <1>7, <1>8, <1>9, <1>10 DEF Next, Node

\* The strengthened invariant holds throughout.
LEMMA InvAlways == Spec => []Inv
<1>1. Init => Inv
  <2> SUFFICES ASSUME Init PROVE Inv
    OBVIOUS
  <2>1. TypeOK
    BY NoBatch, AttemptsAssumption, RunsAssumption DEF Init, TypeOK, Contents, Statuses
  <2>2. Bound = 0
    BY AttemptsAssumption DEF Init, Bound
  <2>3. QED
    BY <2>1, <2>2 DEF Init, Inv, BatchInv, CopiesInv
<1>2. QED
  BY <1>1, TypeNext, CopiesNext, PTL DEF Spec, Inv

\* The variables keep their types, and a batch its size.
THEOREM TypeCorrect == Spec => []TypeOK
BY InvAlways, PTL DEF Inv

\* A file is stored at most once for each attempt of each run, however these
\* fail.
THEOREM DuplicatesBounded == Spec => []DuplicatesAreBounded
<1>1. Inv => DuplicatesAreBounded
  BY DEF Inv, CopiesInv, DuplicatesAreBounded, Bound
<1>2. QED
  BY <1>1, InvAlways, PTL

----------------------------------------------------------------------------
\* A document leaves the batch stored, skipped, or with the end of the run.
LEMMA StoredNext ==
  ASSUME Inv, StoredInv, [Next]_vars
  PROVE  StoredInv'
<1>0. TypeOK /\ BatchInv /\ \A f \in Pdfs : copies[f] \in Nat
  BY DEF Inv, TypeOK
<1> SUFFICES ASSUME node' = "embedding"
             PROVE  \A f \in documents' \ (todo' \cup batch' \cup skipped') : copies'[f] >= 1
  BY DEF StoredInv
<1>1. CASE Chunk
  BY <1>1 DEF Chunk, Enter
<1>2. CASE NextBatch
  BY <1>2 DEF NextBatch, StoredInv
<1>3. CASE AddDocuments
  BY <1>0, <1>3 DEF AddDocuments, Stored, StoredInv, TypeOK
<1>4. CASE AddFails
  <2>1. PICK rateLimit \in BOOLEAN : Retry(rateLimit)
    BY <1>4 DEF AddFails, GiveUp, End, Enter
  <2>2. batch' = batch \/ skipped' = skipped \cup batch
    BY <1>0, <2>1, AttemptsAssumption DEF Retry, WaitsAfter, TypeOK
  <2>3. skipped \subseteq skipped' /\ UNCHANGED <<todo, documents, node>>
    BY <1>4, <2>1 DEF AddFails, Retry
  <2>4. \A f \in Pdfs : copies[f] <= copies'[f] /\ copies'[f] \in Nat
    BY <1>0, <1>4, StoredEffect DEF AddFails, MayHaveStored
  <2>5. QED
    BY <1>0, <2>2, <2>3, <2>4 DEF StoredInv, TypeOK
<1>5. CASE UNCHANGED vars
  BY <1>5 DEF vars, StoredInv
<1>6. QED
  BY <1>1, <1>2, <1>3, <1>4, <1>5
  DEF Next, Node, Run, ConvertPdf, IngestionDone, CleanFile, CleaningDone, NoDocuments,
      NoVectorStore, InvalidateCache, Crash, End, Enter

\* Embedding is entered with another status than it ends with.
StatusInv == node = "embedding" => status # "Embedding Completed Successfully"

\* Only the steps of the embedding node set that status, and they leave the node.
LEMMA StatusInvNext ==
  ASSUME StatusInv, [Next]_vars
  PROVE  StatusInv'
BY DEF StatusInv, Next, Node, Run, ConvertPdf, IngestionDone, CleanFile, CleaningDone, Chunk,
       NoDocuments, NoVectorStore, NextBatch, AddDocuments, AddFails, Retry, GiveUp,
       InvalidateCache, Crash, End, Enter, vars

\* When a run reports success every document it chunked is in Pinecone, except
\* those of a batch whose last attempt was refused with 429.
THEOREM SuccessStores == Spec => SuccessMeansStored
<1>1. Init => StoredInv /\ StatusInv
  BY DEF Init, StoredInv, StatusInv
<1>2. ASSUME StoredInv, StatusInv, [Next]_vars, Succeeds
      PROVE  \A f \in documents \ skipped : copies[f] >= 1
  <2>1. InvalidateCache
    BY <1>2
    DEF StatusInv, Succeeds, Next, Node, Run, ConvertPdf, IngestionDone, CleanFile,
        CleaningDone, Chunk, NoDocuments, NoVectorStore, NextBatch, AddDocuments, AddFails,
        Retry, GiveUp, Crash, End, Enter, vars
  <2>2. node = "embedding" /\ todo = {} /\ batch = {}
    BY <2>1 DEF InvalidateCache
  <2>3. QED
    BY <1>2, <2>2 DEF StoredInv
<1>3. StoredInv /\ StatusInv /\ [Next]_vars =>
        [Succeeds => \A f \in documents \ skipped : copies[f] >= 1]_vars
  BY <1>2
<1>4. QED
  BY <1>1, <1>3, StoredNext, StatusInvNext, InvAlways, PTL DEF Spec, SuccessMeansStored

----------------------------------------------------------------------------
(* How long a run of the graph is *)

\* One more time the same is that much more, and more times are no less.
LEMMA TimesOneMore == \A a, x \in Nat : (a + 1) * x = a * x + x /\ a * x \in Nat
OBVIOUS

LEMMA TimesMonotone == \A a, b, x \in Nat : a <= b => a * x <= b * x
<1> SUFFICES ASSUME NEW a \in Nat, NEW b \in Nat, NEW x \in Nat, a <= b
             PROVE  a * x <= b * x
  OBVIOUS
<1>1. PICK d \in Nat : b = a + d
  <2>1. b - a \in Nat /\ b = a + (b - a)
    OBVIOUS
  <2>2. QED
    BY <2>1
<1>2. b * x = a * x + d * x
  BY <1>1
<1>3. a * x \in Nat /\ d * x \in Nat
  OBVIOUS
<1>4. QED
  BY <1>2, <1>3

\* Embedding so many files, if each of them makes a batch and every attempt fails.
EmbeddingSteps(n) == n * (MaxAttempts + 1) + 1

AllFiles == Cardinality(Pdfs)

\* What is left of the run: of the node it is in, and of those after it.
StepsLeft ==
  CASE node = "ingestion" ->
         Cardinality(todo) + AllFiles + 3 + EmbeddingSteps(AllFiles)
    [] node = "cleaning" -> Cardinality(todo) + 2 + EmbeddingSteps(AllFiles)
    [] node = "chunking" -> 1 + EmbeddingSteps(AllFiles)
    [] node = "embedding" ->
         EmbeddingSteps(Cardinality(todo))
           + IF batch # {} THEN MaxAttempts - attempt ELSE 0
    [] OTHER -> 0

\* No more files are to do than there are, and a file less is one less.
LEMMA FilesCounted ==
  /\ AllFiles \in Nat
  /\ \A S \in SUBSET Pdfs : Cardinality(S) \in Nat /\ Cardinality(S) <= AllFiles
  /\ \A S \in SUBSET Pdfs : \A f \in S : Cardinality(S \ {f}) = Cardinality(S) - 1
  /\ \A S \in SUBSET Pdfs : \A B \in SUBSET S :
       B # {} => Cardinality(S \ B) + 1 <= Cardinality(S)
<1>1. \A S \in SUBSET Pdfs : IsFiniteSet(S) /\ Cardinality(S) \in Nat /\ Cardinality(S) <= AllFiles
  BY PdfsAssumption, FS_Subset, FS_CardinalityType DEF AllFiles
<1>2. \A S \in SUBSET Pdfs : \A f \in S : Cardinality(S \ {f}) = Cardinality(S) - 1
  BY <1>1, FS_RemoveElement
<1>3. ASSUME NEW S \in SUBSET Pdfs, NEW B \in SUBSET S, B # {}
      PROVE  Cardinality(S \ B) + 1 <= Cardinality(S)
  <2>1. PICK f \in B : TRUE
    BY <1>3
  <2>2. S \ B \in SUBSET (S \ {f}) /\ IsFiniteSet(S \ {f}) /\ S \ {f} \in SUBSET Pdfs
    BY <1>1, <2>1
  <2>3. Cardinality(S \ B) <= Cardinality(S \ {f})
    BY <2>2, FS_Subset
  <2>4. Cardinality(S \ {f}) = Cardinality(S) - 1 /\ Cardinality(S) \in Nat
    BY <1>1, <1>2, <2>1
  <2>5. Cardinality(S \ B) \in Nat
    BY <1>1, <2>2
  <2>6. QED
    BY <2>3, <2>4, <2>5
<1>4. QED
  BY <1>1, <1>2, <1>3 DEF AllFiles

\* Fewer files, fewer steps; a file less pays for the attempts of its batch.
LEMMA EmbeddingFacts ==
  /\ \A n \in Nat : EmbeddingSteps(n) \in Nat /\ EmbeddingSteps(n) >= 1
  /\ \A m, n \in Nat : m <= n => EmbeddingSteps(m) <= EmbeddingSteps(n)
  /\ \A m, n \in Nat : m + 1 <= n => EmbeddingSteps(m) + MaxAttempts + 1 <= EmbeddingSteps(n)
<1> DEFINE a == MaxAttempts + 1
<1>1. MaxAttempts \in Nat /\ a \in Nat /\ a = MaxAttempts + 1
  BY AttemptsAssumption
<1>2. \A n \in Nat : EmbeddingSteps(n) = n * a + 1
  BY DEF EmbeddingSteps
<1> HIDE DEF a
<1>3. \A n \in Nat : n * a \in Nat /\ (n + 1) * a = n * a + a
  BY <1>1, TimesOneMore
<1>4. \A m, n \in Nat : m <= n => m * a <= n * a
  BY <1>1, TimesMonotone
<1>5. ASSUME NEW m \in Nat, NEW n \in Nat, m + 1 <= n
      PROVE  EmbeddingSteps(m) + MaxAttempts + 1 <= EmbeddingSteps(n)
  <2>1. m * a + a <= n * a
    BY <1>3, <1>4, <1>5
  <2>2. m * a \in Nat /\ n * a \in Nat
    BY <1>3
  <2>3. QED
    BY <1>1, <1>2, <2>1, <2>2
<1>6. \A m, n \in Nat : m <= n => EmbeddingSteps(m) <= EmbeddingSteps(n)
  BY <1>2, <1>3, <1>4
<1>7. QED
  BY <1>2, <1>3, <1>5, <1>6

\* The run is over, or there are steps left.
LEMMA StepsLeftNat ==
  ASSUME Inv
  PROVE  /\ StepsLeft \in Nat
         /\ node \in {"ingestion", "cleaning", "chunking", "embedding"} => StepsLeft >= 1
<1>1. /\ Cardinality(todo) \in Nat /\ AllFiles \in Nat
      /\ EmbeddingSteps(AllFiles) \in Nat
      /\ EmbeddingSteps(Cardinality(todo)) \in Nat /\ EmbeddingSteps(Cardinality(todo)) >= 1
  BY FilesCounted, EmbeddingFacts DEF Inv, TypeOK
<1>2. batch # {} => MaxAttempts - attempt \in Nat
  BY AttemptsAssumption DEF Inv, BatchInv, TypeOK
<1>3. QED
  BY <1>1, <1>2 DEF StepsLeft

\* Each step of a node brings the end of the run nearer, and so does a crash.
LEMMA FewerSteps ==
  ASSUME Inv, Node \/ Crash
  PROVE  StepsLeft' < StepsLeft
<1>0. /\ TypeOK /\ BatchInv /\ todo \in SUBSET Pdfs /\ StepsLeft \in Nat
      /\ Cardinality(todo) \in Nat /\ AllFiles \in Nat /\ Cardinality(todo) <= AllFiles
      /\ EmbeddingSteps(AllFiles) \in Nat /\ MaxAttempts \in Nat /\ MaxAttempts > 0
      /\ attempt \in Nat
  BY FilesCounted, EmbeddingFacts, StepsLeftNat, AttemptsAssumption DEF Inv, TypeOK
<1>1. ASSUME node \in {"ingestion", "cleaning", "chunking", "embedding"},
             node' \in {"end", "raised"}
      PROVE  StepsLeft' < StepsLeft
  BY <1>1, StepsLeftNat DEF StepsLeft
<1>2. CASE ConvertPdf \/ CleanFile
  <2>1. PICK f \in todo : todo' = todo \ {f} /\ node' = node /\ node \in {"ingestion", "cleaning"}
    BY <1>2 DEF ConvertPdf, CleanFile
  <2>2. Cardinality(todo') = Cardinality(todo) - 1
    BY <1>0, <2>1, FilesCounted
  <2>3. QED
    BY <1>0, <2>1, <2>2 DEF StepsLeft, AllFiles, EmbeddingSteps
<1>3. CASE IngestionDone
  <2>1. node = "ingestion" /\ node' = "cleaning" /\ todo' \in SUBSET Pdfs
    BY <1>3 DEF IngestionDone, Enter, Written
  <2>2. Cardinality(todo') \in Nat /\ Cardinality(todo') <= AllFiles
    BY <2>1, FilesCounted
  <2>3. StepsLeft' = Cardinality(todo') + 2 + EmbeddingSteps(AllFiles)
    BY <2>1 DEF StepsLeft, AllFiles, EmbeddingSteps
  <2>4. StepsLeft = Cardinality(todo) + AllFiles + 3 + EmbeddingSteps(AllFiles)
    BY <2>1 DEF StepsLeft
  <2>5. QED
    BY <1>0, <2>2, <2>3, <2>4
<1>4. CASE CleaningDone
  <2>1. node = "cleaning" /\ node' = "chunking"
    BY <1>4 DEF CleaningDone, Enter
  <2>2. StepsLeft' = 1 + EmbeddingSteps(AllFiles)
    BY <2>1 DEF StepsLeft, AllFiles, EmbeddingSteps
  <2>3. StepsLeft = Cardinality(todo) + 2 + EmbeddingSteps(AllFiles)
    BY <2>1 DEF StepsLeft
  <2>4. QED
    BY <1>0, <2>2, <2>3
<1>5. CASE Chunk
  <2>1. node = "chunking" /\ node' = "embedding" /\ todo' \in SUBSET Pdfs /\ batch' = {}
    BY <1>0, <1>5 DEF Chunk, Enter
  <2>2. EmbeddingSteps(Cardinality(todo')) <= EmbeddingSteps(AllFiles)
        /\ EmbeddingSteps(Cardinality(todo')) \in Nat
    BY <1>0, <2>1, FilesCounted, EmbeddingFacts
  <2>3. StepsLeft' = EmbeddingSteps(Cardinality(todo')) + 0
    BY <2>1 DEF StepsLeft, EmbeddingSteps
  <2>4. StepsLeft = 1 + EmbeddingSteps(AllFiles)
    BY <2>1 DEF StepsLeft
  <2>5. QED
    BY <1>0, <2>2, <2>3, <2>4
<1>6. CASE NoDocuments \/ NoVectorStore \/ InvalidateCache
  BY <1>1, <1>6 DEF NoDocuments, NoVectorStore, InvalidateCache, End, Enter
<1>7. CASE NextBatch
  <2>1. /\ node = "embedding" /\ node' = "embedding" /\ batch = {} /\ attempt' = 0
        /\ batch' # {} /\ batch' \in SUBSET todo /\ todo' = todo \ batch'
    BY <1>7 DEF NextBatch
  <2>2. /\ Cardinality(todo') + 1 <= Cardinality(todo) /\ Cardinality(todo') \in Nat
    BY <1>0, <2>1, FilesCounted
  <2>3. /\ EmbeddingSteps(Cardinality(todo')) + MaxAttempts + 1 <= EmbeddingSteps(Cardinality(todo))
        /\ EmbeddingSteps(Cardinality(todo')) \in Nat /\ EmbeddingSteps(Cardinality(todo)) \in Nat
    BY <1>0, <2>2, EmbeddingFacts
  <2>4. StepsLeft' = EmbeddingSteps(Cardinality(todo')) + (MaxAttempts - 0)
    BY <2>1 DEF StepsLeft, EmbeddingSteps
  <2>5. StepsLeft = EmbeddingSteps(Cardinality(todo)) + 0
    BY <2>1 DEF StepsLeft
  <2>6. QED
    BY <1>0, <2>3, <2>4, <2>5
<1>8. ASSUME node = "embedding", batch # {}
      PROVE  /\ attempt < MaxAttempts /\ EmbeddingSteps(Cardinality(todo)) \in Nat
             /\ StepsLeft = EmbeddingSteps(Cardinality(todo)) + (MaxAttempts - attempt)
  BY <1>0, <1>8, EmbeddingFacts DEF BatchInv, StepsLeft
<1>9. CASE AddDocuments
  <2>1. node = "embedding" /\ batch # {} /\ node' = node /\ todo' = todo /\ batch' = {}
    BY <1>9 DEF AddDocuments
  <2>2. StepsLeft' = EmbeddingSteps(Cardinality(todo)) + 0
    BY <2>1 DEF StepsLeft, EmbeddingSteps
  <2>3. QED
    BY <1>0, <1>8, <2>1, <2>2
<1>10. CASE AddFails
  <2>1. PICK rateLimit \in BOOLEAN : Retry(rateLimit) \/ GiveUp(rateLimit)
    BY <1>10 DEF AddFails
  <2>2. node = "embedding" /\ batch # {}
    BY <1>10 DEF AddFails
  <2>3. CASE Retry(rateLimit)
    <3>1. /\ node' = node /\ todo' = todo /\ attempt' = attempt + 1
          /\ batch' = IF attempt' = MaxAttempts THEN {} ELSE batch
      BY <2>3 DEF Retry
    <3>2. StepsLeft' = EmbeddingSteps(Cardinality(todo))
                         + IF batch' # {} THEN MaxAttempts - attempt' ELSE 0
      BY <2>2, <3>1 DEF StepsLeft, EmbeddingSteps
    <3>3. QED
      BY <1>0, <1>8, <2>2, <3>1, <3>2
  <2>4. CASE GiveUp(rateLimit)
    BY <1>1, <2>2, <2>4 DEF GiveUp, End, Enter
  <2>5. QED
    BY <2>1, <2>3, <2>4
<1>11. CASE Crash
  BY <1>1, <1>11 DEF Crash, Enter
<1>12. QED
  BY <1>2, <1>3, <1>4, <1>5, <1>6, <1>7, <1>9, <1>10, <1>11 DEF Node

\* Each step brings the end of the run nearer; there is no other but its start.
StepsRunOut == [][Run \/ StepsLeft' < StepsLeft]_vars

\* So a run of the graph ends, however Pinecone fails: no step of it is taken
\* back or repeated without end.
THEOREM IngestionRunsOut == Spec => [](StepsLeft \in Nat) /\ StepsRunOut
<1>1. Inv => StepsLeft \in Nat
  BY StepsLeftNat
<1>2. Inv /\ [Next]_vars => [Run \/ StepsLeft' < StepsLeft]_vars
  BY FewerSteps DEF Next
<1>3. QED
  BY <1>1, <1>2, InvAlways, PTL DEF Spec, StepsRunOut

----------------------------------------------------------------------------
(* Retrieval *)

\* Where a client can be, seen from its attempts and failures.
ClientInv(c) ==
  /\ tries[c] <= softs[c]
  /\ c \in Ingesters => tries[c] = 0
  /\ at[c] \in {"health", "validate"} => c \in Retrievers /\ tries[c] = PrimaryAttempts
  /\ at[c] = "open" => c \in Ingesters \/ tries[c] < PrimaryAttempts
  /\ at[c] = "idle" => tries[c] = 0
  /\ at[c] \in {"ensure", "create", "search"} => Using(c) \in Fits
  /\ at[c] = "search" => indexExists
  /\ outcome[c] # "none" => at[c] = "done"
  /\ outcome[c] = "nothing" => softs[c] > (IF c \in Ingesters THEN 0 ELSE PrimaryAttempts)
  /\ outcome[c] = "raised" =>
       \/ hard[c]
       \/ c \in Retrievers /\ softs[c] >= PrimaryAttempts /\ Using(c) \notin Fits

RetrievalInv == RetrievalType /\ \A c \in Clients : ClientInv(c)

\* The numbers, and the first model.
LEMMA RetrievalConstants ==
  /\ PrimaryAttempts \in Nat /\ PrimaryAttempts > 0
  /\ HealthAttempts \in Nat /\ HealthAttempts > 0
  /\ Len(Chain) \in Nat /\ Len(Chain) > 0
  /\ Primary \in Fits
BY PrimaryAssumption, HealthAssumption, ChainAssumption, FitsAssumption

\* The model in use depends on the attempts and the place in the chain alone.
LEMMA UsingSame ==
  ASSUME NEW c, tries'[c] = tries[c], link'[c] = link[c]
  PROVE  Using(c)' = Using(c)
BY DEF Using, ChainEnded

\* A failure more, up to the bound.
LEMMA CountedEffect ==
  ASSUME softs \in [Clients -> 0 .. PrimaryAttempts + 1], NEW c \in Clients, Counted(c)
  PROVE  /\ softs' \in [Clients -> 0 .. PrimaryAttempts + 1]
         /\ softs'[c] = IF softs[c] > PrimaryAttempts THEN softs[c] ELSE softs[c] + 1
         /\ softs[c] <= softs'[c]
         /\ softs[c] \in Nat /\ softs'[c] \in Nat
<1> DEFINE more == IF softs[c] > PrimaryAttempts THEN softs[c] ELSE softs[c] + 1
<1>1. softs[c] \in 0 .. PrimaryAttempts + 1 /\ PrimaryAttempts \in Nat
  BY RetrievalConstants
<1>2. more \in 0 .. PrimaryAttempts + 1 /\ softs[c] <= more
  BY <1>1
<1>3. softs' = [softs EXCEPT ![c] = more]
  BY DEF Counted
<1> HIDE DEF more
<1>4. softs' \in [Clients -> 0 .. PrimaryAttempts + 1] /\ softs'[c] = more
  BY <1>2, <1>3
<1>5. QED
  BY <1>1, <1>2, <1>4 DEF more

\* An attempt more, when one is left.
LEMMA MissedEffect ==
  ASSUME tries \in [Clients -> 0 .. PrimaryAttempts], NEW c \in Clients,
         ~LastAttempt(c), Missed(c)
  PROVE  tries' \in [Clients -> 0 .. PrimaryAttempts]
<1>1. tries[c] \in 0 .. PrimaryAttempts /\ tries[c] # PrimaryAttempts
      /\ PrimaryAttempts \in Nat
  BY RetrievalConstants DEF LastAttempt
<1>2. tries[c] + 1 \in 0 .. PrimaryAttempts
  BY <1>1
<1>3. tries' = [tries EXCEPT ![c] = tries[c] + 1]
  BY DEF Missed
<1>4. QED
  BY <1>2, <1>3

\* A health check more, or the next place in the chain.
LEMMA UnhealthyEffect ==
  ASSUME checks \in [Clients -> 0 .. HealthAttempts - 1],
         link \in [Clients -> 1 .. Len(Chain) + 1],
         NEW c \in Clients, ~ChainEnded(c), Unhealthy(c)
  PROVE  /\ checks' \in [Clients -> 0 .. HealthAttempts - 1]
         /\ link' \in [Clients -> 1 .. Len(Chain) + 1]
<1>1. /\ checks[c] \in 0 .. HealthAttempts - 1 /\ HealthAttempts \in Nat /\ HealthAttempts > 0
      /\ link[c] \in 1 .. Len(Chain) + 1 /\ Len(Chain) \in Nat
  BY RetrievalConstants
<1>2. link[c] + 1 \in 1 .. Len(Chain) + 1
  BY <1>1 DEF ChainEnded
<1>3. CASE /\ checks[c] + 1 < HealthAttempts
           /\ checks' = [checks EXCEPT ![c] = checks[c] + 1] /\ link' = link
  <2>1. checks[c] + 1 \in 0 .. HealthAttempts - 1
    BY <1>1, <1>3
  <2>2. QED
    BY <1>3, <2>1
<1>4. CASE /\ checks' = [checks EXCEPT ![c] = 0]
           /\ link' = [link EXCEPT ![c] = link[c] + 1]
  <2>1. 0 \in 0 .. HealthAttempts - 1
    BY <1>1
  <2>2. QED
    BY <1>2, <1>4, <2>1
<1>5. QED
  BY <1>3, <1>4 DEF Unhealthy

LEMMA RetrievalTypeStep ==
  ASSUME RetrievalType, NEW c \in Clients, StartClient(c) \/ Proceed(c)
  PROVE  RetrievalType'
<1> USE DEF RetrievalType, Calling
<1>1. ASSUME NEW call \in Calling, Answered(c, call), indexExists' \in BOOLEAN
      PROVE  RetrievalType'
  BY <1>1 DEF Answered, Goes, failures
<1>2. ASSUME HardFailure(c), indexExists' \in BOOLEAN
      PROVE  RetrievalType'
  BY <1>2 DEF HardFailure, Ends, Goes
<1>3. ASSUME SoftFailure(c), indexExists' = indexExists
      PROVE  RetrievalType'
  <2>1. softs' \in [Clients -> 0 .. PrimaryAttempts + 1]
    BY <1>3, CountedEffect DEF SoftFailure
  <2>2. CASE Ends(c, "nothing") /\ UNCHANGED <<tries, slept>>
    BY <1>3, <2>1, <2>2 DEF SoftFailure, Ends, Goes
  <2>3. CASE ~LastAttempt(c) /\ Missed(c) /\ UNCHANGED outcome
    <3>1. tries' \in [Clients -> 0 .. PrimaryAttempts]
      BY <2>3, MissedEffect
    <3>2. at' \in [Clients -> {"idle", "done"} \cup Calling]
      BY <2>3 DEF Missed, Goes
    <3>3. QED
      BY <1>3, <2>1, <2>3, <3>1, <3>2 DEF SoftFailure
  <2>4. QED
    BY <1>3, <2>2, <2>3 DEF SoftFailure
<1>4. ASSUME NEW how \in {"no query", "documents", "opened", "raised"}, Ends(c, how),
             UNCHANGED <<tries, link, checks, slept, failures, indexExists>>
      PROVE  RetrievalType'
  BY <1>4 DEF Ends, Goes, failures
<1>5. CASE StartClient(c)
  BY <1>1, <1>4, <1>5 DEF StartClient
<1>6. CASE Open(c)
  BY <1>1, <1>2, <1>3, <1>6 DEF Open
<1>7. CASE HasIndex(c)
  BY <1>1, <1>2, <1>7 DEF HasIndex
<1>8. CASE CreateIndex(c)
  BY <1>1, <1>2, <1>8 DEF CreateIndex, AlreadyExists, CreateFails
<1>9. CASE Search(c) \/ HandOver(c)
  BY <1>2, <1>3, <1>4, <1>9 DEF Search, HandOver, HandOver
<1>10. CASE HealthCheck(c)
  <2>1. CASE Unhealthy(c)
    <3>1. softs' \in [Clients -> 0 .. PrimaryAttempts + 1]
      BY <2>1, CountedEffect DEF Unhealthy
    <3>2. /\ checks' \in [Clients -> 0 .. HealthAttempts - 1]
          /\ link' \in [Clients -> 1 .. Len(Chain) + 1]
      BY <1>10, <2>1, UnhealthyEffect DEF HealthCheck
    <3>3. QED
      BY <1>10, <2>1, <3>1, <3>2 DEF Unhealthy, HealthCheck
  <2>2. QED
    BY <1>1, <1>2, <1>10, <2>1 DEF HealthCheck
<1>11. CASE LastResort(c)
  BY <1>1, <1>2, <1>11 DEF LastResort
<1>12. CASE ValidateDimension(c)
  BY <1>1, <1>2, <1>3, <1>4, <1>12 DEF ValidateDimension, Validated
<1>13. QED
  BY <1>5, <1>6, <1>7, <1>8, <1>9, <1>10, <1>11, <1>12 DEF Proceed

\* A step of one client changes nothing of another, and never removes the index.
LEMMA OthersStay ==
  ASSUME RetrievalType, NEW c \in Clients, NEW d \in Clients, c # d,
         StartClient(c) \/ Proceed(c)
  PROVE  /\ at'[d] = at[d] /\ tries'[d] = tries[d] /\ link'[d] = link[d]
         /\ outcome'[d] = outcome[d] /\ softs'[d] = softs[d] /\ hard'[d] = hard[d]
         /\ indexExists => indexExists'
<1> DEFINE Stays == /\ at'[d] = at[d] /\ tries'[d] = tries[d] /\ link'[d] = link[d]
                    /\ outcome'[d] = outcome[d] /\ softs'[d] = softs[d] /\ hard'[d] = hard[d]
<1> USE DEF RetrievalType
<1>1. ASSUME NEW call, Answered(c, call)
      PROVE  Stays
  BY <1>1 DEF Answered, Goes, failures
<1>2. ASSUME HardFailure(c)
      PROVE  Stays
  BY <1>2 DEF HardFailure, Ends, Goes
<1>3. ASSUME SoftFailure(c)
      PROVE  Stays
  BY <1>3 DEF SoftFailure, Counted, Missed, Ends, Goes
<1>4. ASSUME NEW how, Ends(c, how), UNCHANGED <<tries, link, failures>>
      PROVE  Stays
  BY <1>4 DEF Ends, Goes, failures
<1>5. ASSUME Unhealthy(c)
      PROVE  Stays
  BY <1>5 DEF Unhealthy, Counted
<1> HIDE DEF Stays
<1>6. CASE StartClient(c)
  BY <1>1, <1>4, <1>6 DEF StartClient, Stays
<1>7. CASE Open(c) \/ HasIndex(c)
  BY <1>1, <1>2, <1>3, <1>7 DEF Open, HasIndex, Stays
<1>8. CASE CreateIndex(c)
  BY <1>1, <1>2, <1>8 DEF CreateIndex, AlreadyExists, CreateFails, Stays
<1>9. CASE Search(c) \/ HandOver(c)
  BY <1>2, <1>3, <1>4, <1>9 DEF Search, HandOver, Stays
<1>10. CASE HealthCheck(c) \/ LastResort(c)
  BY <1>1, <1>2, <1>5, <1>10 DEF HealthCheck, LastResort, Stays
<1>11. CASE ValidateDimension(c)
  BY <1>1, <1>2, <1>3, <1>4, <1>11 DEF ValidateDimension, Validated, Stays
<1>12. QED
  BY <1>6, <1>7, <1>8, <1>9, <1>10, <1>11 DEF Proceed

\* A call that is answered, or fails, keeps the client's part of the invariant.
LEMMA AnsweredKeeps ==
  ASSUME RetrievalType, NEW c \in Clients, ClientInv(c), at[c] # "done",
         NEW call \in Calling, Answered(c, call),
         call \in {"health", "validate"} => c \in Retrievers /\ tries[c] = PrimaryAttempts,
         call = "open" => c \in Ingesters \/ tries[c] < PrimaryAttempts,
         call \in {"ensure", "create", "search"} => Using(c) \in Fits,
         call = "search" => indexExists'
  PROVE  ClientInv(c)'
<1>1. /\ at'[c] = call /\ tries'[c] = tries[c] /\ link'[c] = link[c]
      /\ outcome'[c] = outcome[c] /\ softs'[c] = softs[c] /\ hard'[c] = hard[c]
  BY DEF RetrievalType, Answered, Goes, failures
<1>2. Using(c)' = Using(c)
  BY <1>1, UsingSame
<1>3. outcome[c] = "none"
  BY DEF ClientInv
<1>4. QED
  BY <1>1, <1>2, <1>3 DEF ClientInv, Calling

LEMMA EndsKeeps ==
  ASSUME RetrievalType, NEW c \in Clients, ClientInv(c),
         NEW how \in {"no query", "documents", "opened", "raised"}, Ends(c, how),
         UNCHANGED <<tries, link, softs>>, hard[c] => hard'[c],
         how = "raised" =>
           \/ hard'[c]
           \/ c \in Retrievers /\ softs[c] >= PrimaryAttempts /\ Using(c) \notin Fits
  PROVE  ClientInv(c)'
<1>1. /\ at'[c] = "done" /\ tries'[c] = tries[c] /\ link'[c] = link[c]
      /\ outcome'[c] = how /\ softs'[c] = softs[c]
  BY DEF RetrievalType, Ends, Goes
<1>2. Using(c)' = Using(c)
  BY <1>1, UsingSame
<1>3. QED
  BY <1>1, <1>2 DEF ClientInv

LEMMA HardFailureKeeps ==
  ASSUME RetrievalType, NEW c \in Clients, ClientInv(c), HardFailure(c)
  PROVE  ClientInv(c)'
<1>1. hard'[c]
  BY DEF RetrievalType, HardFailure
<1>2. QED
  BY <1>1, EndsKeeps DEF HardFailure

LEMMA SoftFailureKeeps ==
  ASSUME RetrievalType, NEW c \in Clients, ClientInv(c), at[c] # "idle", at[c] # "done",
         SoftFailure(c)
  PROVE  ClientInv(c)'
<1> USE RetrievalConstants
<1>1. /\ softs[c] \in 0 .. PrimaryAttempts + 1 /\ tries[c] \in 0 .. PrimaryAttempts
      /\ softs'[c] = IF softs[c] > PrimaryAttempts THEN softs[c] ELSE softs[c] + 1
      /\ link'[c] = link[c] /\ hard'[c] = hard[c]
      /\ c \in Retrievers \cup Ingesters
  BY DEF RetrievalType, SoftFailure, Counted, Clients
<1>2. outcome[c] = "none" /\ tries[c] <= softs[c] /\ (c \in Ingesters => tries[c] = 0)
  BY DEF ClientInv
<1>3. CASE LastAttempt(c) /\ Ends(c, "nothing") /\ UNCHANGED <<tries, slept>>
  <2>1. at'[c] = "done" /\ outcome'[c] = "nothing" /\ tries'[c] = tries[c]
    BY <1>3 DEF RetrievalType, Ends, Goes
  <2>2. softs'[c] > (IF c \in Ingesters THEN 0 ELSE PrimaryAttempts)
    BY <1>1, <1>2, <1>3 DEF LastAttempt
  <2>3. tries'[c] <= softs'[c]
    BY <1>1, <1>2, <2>1
  <2>4. QED
    BY <1>2, <2>1, <2>2, <2>3 DEF ClientInv
<1>4. CASE ~LastAttempt(c) /\ Missed(c) /\ UNCHANGED outcome
  <2>1. c \in Retrievers /\ c \notin Ingesters /\ tries[c] < PrimaryAttempts
    BY <1>1, <1>4 DEF LastAttempt
  <2>2. tries'[c] = tries[c] + 1 /\ outcome'[c] = "none"
    BY <1>2, <1>4 DEF RetrievalType, Missed
  <2>3. \/ at'[c] = "open" /\ tries[c] + 1 < PrimaryAttempts
        \/ at'[c] = "health" /\ tries[c] + 1 = PrimaryAttempts
    BY <1>4 DEF RetrievalType, Missed, Goes
  <2>4. tries'[c] <= softs'[c]
    BY <1>1, <1>2, <2>1, <2>2
  <2>5. QED
    BY <2>1, <2>2, <2>3, <2>4 DEF ClientInv
<1>5. QED
  BY <1>3, <1>4 DEF SoftFailure

\* A client that takes a step keeps its part of the invariant.
LEMMA ClientKeeps ==
  ASSUME RetrievalType, NEW c \in Clients, ClientInv(c), StartClient(c) \/ Proceed(c)
  PROVE  ClientInv(c)'
<1> USE RetrievalConstants
<1>0. /\ c \in Retrievers \cup Ingesters /\ (c \in Ingesters => c \notin Retrievers)
      /\ tries[c] \in 0 .. PrimaryAttempts /\ softs[c] \in 0 .. PrimaryAttempts + 1
  BY ClientsAssumption DEF RetrievalType, Clients
<1>1. CASE StartClient(c)
  <2>1. CASE Answered(c, "open")
    <3>1. at[c] = "idle" /\ tries[c] = 0
      BY <1>1 DEF StartClient, ClientInv
    <3>2. QED
      BY <2>1, <3>1, AnsweredKeeps DEF Calling
  <2>2. QED
    BY <1>1, <2>1, EndsKeeps DEF StartClient, failures
<1>2. CASE Open(c)
  <2>1. CASE Answered(c, "ensure")
    <3>1. Using(c) = Primary
      BY <1>0, <1>2 DEF Open, ClientInv, Using
    <3>2. QED
      BY <1>2, <2>1, <3>1, AnsweredKeeps DEF Open, Calling
  <2>2. QED
    BY <1>2, <2>1, SoftFailureKeeps, HardFailureKeeps DEF Open
<1>3. CASE HasIndex(c)
  <2>1. at[c] = "ensure" /\ Using(c) \in Fits /\ indexExists' = indexExists
    BY <1>3 DEF HasIndex, ClientInv
  <2>2. CASE HardFailure(c)
    BY <2>2, HardFailureKeeps
  <2>3. CASE indexExists /\ Answered(c, "search")
    BY <2>1, <2>3, AnsweredKeeps DEF Calling
  <2>4. CASE ~indexExists /\ Answered(c, "create")
    BY <2>1, <2>4, AnsweredKeeps DEF Calling
  <2>5. QED
    BY <1>3, <2>2, <2>3, <2>4 DEF HasIndex
<1>4. CASE CreateIndex(c)
  <2>1. at[c] = "create" /\ Using(c) \in Fits
    BY <1>4 DEF CreateIndex, ClientInv
  <2>2. CASE HardFailure(c)
    BY <2>2, HardFailureKeeps
  <2>3. CASE indexExists' /\ Answered(c, "search")
    BY <2>1, <2>3, AnsweredKeeps DEF Calling
  <2>4. CASE AlreadyExists(c)
    BY <2>3, <2>4 DEF AlreadyExists
  <2>5. QED
    BY <1>4, <2>2, <2>3, <2>4 DEF CreateIndex, CreateFails
<1>5. CASE Search(c) \/ HandOver(c)
  <2>1. ASSUME NEW how \in {"documents", "opened"}, Ends(c, how),
               UNCHANGED <<tries, link, checks, slept, failures>>
        PROVE  ClientInv(c)'
    BY <2>1, EndsKeeps DEF failures
  <2>2. QED
    BY <1>5, <2>1, SoftFailureKeeps, HardFailureKeeps DEF Search, HandOver, HandOver
<1>6. CASE HealthCheck(c) \/ LastResort(c)
  <2>1. at[c] = "health" /\ c \in Retrievers /\ tries[c] = PrimaryAttempts /\ outcome[c] = "none"
    BY <1>6 DEF HealthCheck, LastResort, ClientInv
  <2>2. CASE Answered(c, "validate")
    BY <2>1, <2>2, AnsweredKeeps DEF Calling
  <2>3. CASE Unhealthy(c)
    <3>1. /\ at'[c] = "health" /\ tries'[c] = tries[c] /\ outcome'[c] = "none"
          /\ softs[c] <= softs'[c] /\ softs'[c] \in Nat
      BY <2>1, <2>3, CountedEffect DEF RetrievalType, Unhealthy
    <3>2. tries'[c] <= softs'[c]
      BY <1>0, <3>1 DEF ClientInv
    <3>3. QED
      BY <1>0, <2>1, <3>1, <3>2 DEF ClientInv
  <2>4. QED
    BY <1>6, <2>2, <2>3, HardFailureKeeps DEF HealthCheck, LastResort
<1>7. CASE ValidateDimension(c)
  <2>1. at[c] = "validate" /\ c \in Retrievers /\ softs[c] >= PrimaryAttempts
    BY <1>0, <1>7 DEF ValidateDimension, ClientInv
  <2>2. CASE Using(c) \in Fits /\ Answered(c, "ensure")
    BY <2>1, <2>2, AnsweredKeeps DEF Calling
  <2>3. CASE /\ Using(c) \notin Fits /\ Ends(c, "raised")
             /\ UNCHANGED <<tries, link, checks, slept, failures>>
    BY <2>1, <2>3, EndsKeeps DEF failures
  <2>4. QED
    BY <1>7, <2>1, <2>2, <2>3, SoftFailureKeeps, HardFailureKeeps DEF ValidateDimension, Validated
<1>8. QED
  BY <1>1, <1>2, <1>3, <1>4, <1>5, <1>6, <1>7 DEF Proceed

LEMMA RetrievalInvInit ==
  ASSUME RetrievalInit
  PROVE  RetrievalInv
<1> USE RetrievalConstants
<1>1. RetrievalType
  BY DEF RetrievalInit, RetrievalType, Calling
<1>2. ASSUME NEW c \in Clients
      PROVE  ClientInv(c)
  BY DEF RetrievalInit, ClientInv
<1>3. QED
  BY <1>1, <1>2 DEF RetrievalInv

LEMMA RetrievalInvStep ==
  ASSUME RetrievalInv, [RetrievalNext]_retrievalVars
  PROVE  RetrievalInv'
<1>1. CASE UNCHANGED retrievalVars
  BY <1>1 DEF RetrievalInv, RetrievalType, ClientInv, Using, ChainEnded,
              retrievalVars, work, failures
<1>2. ASSUME NEW c \in Clients, StartClient(c) \/ Proceed(c)
      PROVE  RetrievalInv'
  <2>1. RetrievalType /\ RetrievalType'
    BY <1>2, RetrievalTypeStep DEF RetrievalInv
  <2>2. ASSUME NEW d \in Clients
        PROVE  ClientInv(d)'
    <3>1. ClientInv(d)
      BY DEF RetrievalInv
    <3>2. CASE d = c
      BY <1>2, <2>1, <3>1, <3>2, ClientKeeps
    <3>3. CASE d # c
      <4>1. /\ at'[d] = at[d] /\ tries'[d] = tries[d] /\ link'[d] = link[d]
            /\ outcome'[d] = outcome[d] /\ softs'[d] = softs[d] /\ hard'[d] = hard[d]
            /\ indexExists => indexExists'
        BY <1>2, <2>1, <3>3, OthersStay
      <4>2. Using(d)' = Using(d)
        BY <4>1, UsingSame
      <4>3. QED
        BY <3>1, <4>1, <4>2 DEF ClientInv
    <3>4. QED
      BY <3>2, <3>3
  <2>3. QED
    BY <2>1, <2>2 DEF RetrievalInv
<1>3. QED
  BY <1>1, <1>2 DEF RetrievalNext

THEOREM RetrievalInvariant == RetrievalSpec => []RetrievalInv
BY RetrievalInvInit, RetrievalInvStep, PTL DEF RetrievalSpec

\* The state of every retrieval and ingestion stays within its types: no more
\* attempts, checks and models are tried than there are.
THEOREM RetrievalTypeCorrect == RetrievalSpec => []RetrievalType
<1>1. RetrievalInv => RetrievalType
  BY DEF RetrievalInv
<1>2. QED
  BY <1>1, RetrievalInvariant, PTL

\* Whoever searches or adds has an index, whichever client created it, and a
\* model whose vectors fit it.
THEOREM SearchesAlwaysFit == RetrievalSpec => []SearchesFit
<1>1. RetrievalInv => SearchesFit
  BY DEF RetrievalInv, ClientInv, SearchesFit
<1>2. QED
  BY <1>1, RetrievalInvariant, PTL

\* Nothing is found only when all attempts are used up, and no exception leaves a
\* client since another one created the index first.
THEOREM OutcomesAllHaveCause == RetrievalSpec => []OutcomesHaveCause
<1>1. RetrievalInv => OutcomesHaveCause
  BY DEF RetrievalInv, ClientInv, OutcomesHaveCause
<1>2. QED
  BY <1>1, RetrievalInvariant, PTL

----------------------------------------------------------------------------
(* What a retrieval sleeps *)

\* Induction over the numbers, for a set of them: it has no smallest number out
\* of it.
LEMMA AllNumbers ==
  ASSUME NEW S \in SUBSET Nat, 0 \in S, \A n \in S : n + 1 \in S
  PROVE  S = Nat
<1> DEFINE less == {p \in Nat \X Nat : p[1] < p[2]}
<1>1. IsWellFoundedOn(less, Nat)
  BY NatLessThanWellFounded DEF OpToRel
<1>2. SUFFICES ASSUME Nat \ S # {} PROVE FALSE
  OBVIOUS
<1>3. PICK n \in Nat \ S : \A m \in Nat \ S : <<m, n>> \notin less
  <2> HIDE DEF less
  <2>1. QED
    BY <1>1, <1>2, WFMin
<1>4. n \in Nat /\ n # 0
  BY <1>3
<1>5. n - 1 \in Nat /\ (n - 1) + 1 = n /\ n - 1 < n
  BY <1>4
<1>6. <<n - 1, n>> \in less
  BY <1>4, <1>5
<1>7. n - 1 \in S
  BY <1>3, <1>5, <1>6
<1>8. QED
  BY <1>3, <1>5, <1>7

\* The recursion, as its definition has it: each power is made from a smaller one.
LEMMA Power2Def ==
  Power2[0] = 1 /\ \A n \in Nat : Power2[n + 1] = 2 * Power2[n]
<1>1. Power2 = [n \in Nat |-> IF n = 0 THEN 1 ELSE 2 * Power2[n - 1]]
  BY DEF Power2
<1>2. Power2[0] = 1
  BY <1>1
<1>3. ASSUME NEW n \in Nat PROVE Power2[n + 1] = 2 * Power2[n]
  <2>1. n + 1 \in Nat /\ n + 1 # 0 /\ (n + 1) - 1 = n
    OBVIOUS
  <2>2. QED
    BY <1>1, <2>1
<1>4. QED
  BY <1>2, <1>3

LEMMA Power2Positive == \A n \in Nat : Power2[n] \in Nat /\ Power2[n] >= 1
<1> DEFINE good == {n \in Nat : Power2[n] \in Nat /\ Power2[n] >= 1}
<1>1. 0 \in good
  BY Power2Def
<1>2. ASSUME NEW n \in good PROVE n + 1 \in good
  BY Power2Def
<1>3. good = Nat
  <2> HIDE DEF good
  <2>1. good \in SUBSET Nat
    BY DEF good
  <2>2. QED
    BY <1>1, <1>2, <2>1, AllNumbers
<1>4. QED
  BY <1>3

\* A wait is no shorter than the one before.
LEMMA Power2Monotone == \A n \in Nat : \A m \in 0 .. n : Power2[m] <= Power2[n]
<1> DEFINE good == {n \in Nat : \A m \in 0 .. n : Power2[m] <= Power2[n]}
<1>1. 0 \in good
  BY Power2Positive
<1>2. ASSUME NEW n \in good PROVE n + 1 \in good
  <2>1. Power2[n] <= Power2[n + 1] /\ Power2[n] \in Nat /\ Power2[n + 1] \in Nat
    BY Power2Def, Power2Positive
  <2>2. ASSUME NEW m \in 0 .. n + 1 PROVE Power2[m] <= Power2[n + 1]
    <3>1. CASE m = n + 1
      BY <2>1, <3>1
    <3>2. CASE m \in 0 .. n
      <4>1. Power2[m] \in Nat /\ Power2[m] <= Power2[n]
        BY <3>2, Power2Positive
      <4>2. QED
        BY <2>1, <4>1
    <3>3. QED
      BY <3>1, <3>2
  <2>3. QED
    BY <2>2
<1>3. good = Nat
  <2> HIDE DEF good
  <2>1. good \in SUBSET Nat
    BY DEF good
  <2>2. QED
    BY <1>1, <1>2, <2>1, AllNumbers
<1>4. QED
  BY <1>3

\* What the waits after the first n of a number of failures add up to, for a delay
\* of one second: the powers of two below the n-th.
Waits(n) == Power2[n] - 1

\* There is no wait after the last failure.
PrimaryWaits(c) ==
  Waits(IF tries[c] < PrimaryAttempts THEN tries[c] ELSE PrimaryAttempts - 1)

\* What a retrieval has slept is told by its attempts, the models it has left
\* behind and the checks of the one it is at.
SleptInv(c) ==
  /\ tries[c] < PrimaryAttempts => link[c] = 1 /\ checks[c] = 0
  /\ ChainEnded(c) => checks[c] = 0
  /\ slept[c] = 2 * PrimaryWaits(c) + (link[c] - 1) * Waits(HealthAttempts - 1)
                  + Waits(checks[c])

SleepInv == slept \in [Clients -> Nat] /\ \A c \in Clients : SleptInv(c)

LEMMA WaitsFacts ==
  /\ Waits(0) = 0
  /\ \A n \in Nat : Waits(n) \in Nat /\ Waits(n + 1) = Waits(n) + Power2[n]
  /\ \A n \in Nat : \A m \in 0 .. n : Waits(m) <= Waits(n)
<1>1. \A n \in Nat : Power2[n] \in Nat /\ Power2[n] >= 1 /\ Power2[n + 1] = 2 * Power2[n]
  BY Power2Positive, Power2Def
<1>2. Waits(0) = 0
  BY Power2Def DEF Waits
<1>3. \A n \in Nat : Waits(n) \in Nat /\ Waits(n + 1) = Waits(n) + Power2[n]
  BY <1>1 DEF Waits
<1>4. \A n \in Nat : \A m \in 0 .. n : Waits(m) <= Waits(n)
  <2> SUFFICES ASSUME NEW n \in Nat, NEW m \in 0 .. n PROVE Waits(m) <= Waits(n)
    OBVIOUS
  <2>1. Power2[m] <= Power2[n] /\ m \in Nat
    BY Power2Monotone
  <2>2. QED
    BY <1>1, <2>1 DEF Waits
<1>5. QED
  BY <1>2, <1>3, <1>4

\* What all waits for the primary model, and for one of the chain, add up to.
LEMMA LastWaits ==
  /\ HealthAttempts - 1 \in Nat /\ Waits(HealthAttempts - 1) \in Nat
  /\ PrimaryAttempts - 1 \in Nat /\ Waits(PrimaryAttempts - 1) \in Nat
<1>1. HealthAttempts - 1 \in Nat /\ PrimaryAttempts - 1 \in Nat
  BY RetrievalConstants
<1>2. QED
  BY <1>1, WaitsFacts

\* What a client has slept while it tries the primary model is a number.
LEMMA PrimaryWaitsBounded ==
  ASSUME NEW c \in Clients, tries[c] \in 0 .. PrimaryAttempts
  PROVE  /\ PrimaryWaits(c) \in Nat
         /\ PrimaryWaits(c) <= Waits(PrimaryAttempts - 1)
         /\ tries[c] < PrimaryAttempts => PrimaryWaits(c) = Waits(tries[c])
         /\ tries[c] = PrimaryAttempts => PrimaryWaits(c) = Waits(PrimaryAttempts - 1)
<1> DEFINE n == IF tries[c] < PrimaryAttempts THEN tries[c] ELSE PrimaryAttempts - 1
<1>1. n \in 0 .. PrimaryAttempts - 1 /\ n \in Nat /\ PrimaryAttempts - 1 \in Nat
  BY RetrievalConstants
<1>2. PrimaryWaits(c) = Waits(n)
  BY DEF PrimaryWaits
<1>3. /\ tries[c] < PrimaryAttempts => n = tries[c]
      /\ tries[c] = PrimaryAttempts => n = PrimaryAttempts - 1
  BY RetrievalConstants
<1> HIDE DEF n
<1>4. Waits(n) \in Nat /\ Waits(n) <= Waits(PrimaryAttempts - 1)
  BY <1>1, WaitsFacts
<1>5. QED
  BY <1>2, <1>3, <1>4

\* The counters change in two ways only: by a missed attempt and by a failed check.
LEMMA CountersStep ==
  ASSUME NEW c \in Clients, StartClient(c) \/ Proceed(c)
  PROVE  \/ UNCHANGED <<tries, link, checks, slept>>
         \/ ~LastAttempt(c) /\ Missed(c) /\ UNCHANGED <<link, checks>>
         \/ at[c] = "health" /\ ~ChainEnded(c) /\ Unhealthy(c)
<1>1. CASE StartClient(c) \/ HasIndex(c) \/ CreateIndex(c) \/ LastResort(c)
  BY <1>1 DEF StartClient, HasIndex, CreateIndex, AlreadyExists, CreateFails, LastResort,
              Answered, HardFailure
<1>2. CASE Open(c) \/ Search(c) \/ HandOver(c) \/ ValidateDimension(c)
  BY <1>2 DEF Open, Search, HandOver, ValidateDimension, Validated, Answered, SoftFailure, HardFailure
<1>3. CASE HealthCheck(c)
  BY <1>3 DEF HealthCheck, Answered, HardFailure
<1>4. QED
  BY <1>1, <1>2, <1>3 DEF Proceed

\* A missed attempt is waited for, unless it was the last one.
LEMMA MissedSlept ==
  ASSUME RetrievalType, NEW c \in Clients, slept \in [Clients -> Nat], SleptInv(c),
         ~LastAttempt(c), Missed(c), UNCHANGED <<link, checks>>
  PROVE  slept' \in [Clients -> Nat] /\ SleptInv(c)'
<1> USE RetrievalConstants
<1>1. /\ tries[c] \in 0 .. PrimaryAttempts /\ tries[c] # PrimaryAttempts
      /\ tries'[c] = tries[c] + 1 /\ tries[c] \in Nat /\ tries[c] < PrimaryAttempts
      /\ c \in DOMAIN slept
  <2>1. /\ tries[c] \in 0 .. PrimaryAttempts /\ tries[c] # PrimaryAttempts
        /\ tries'[c] = tries[c] + 1 /\ c \in DOMAIN slept
    BY DEF RetrievalType, LastAttempt, Missed
  <2>2. QED
    BY <2>1
<1>w. /\ Power2[tries[c]] \in Nat /\ Waits(tries[c]) \in Nat
      /\ Waits(tries[c] + 1) = Waits(tries[c]) + Power2[tries[c]]
  BY <1>1, Power2Positive, WaitsFacts
<1>2. link[c] = 1 /\ checks[c] = 0 /\ link'[c] = 1 /\ checks'[c] = 0
  BY <1>1 DEF SleptInv
<1>3. slept[c] = 2 * Waits(tries[c])
  <2>1. PrimaryWaits(c) = Waits(tries[c])
    BY <1>1 DEF PrimaryWaits
  <2>2. (link[c] - 1) * Waits(HealthAttempts - 1) = 0 /\ Waits(checks[c]) = 0
    BY <1>2, LastWaits, WaitsFacts
  <2>3. QED
    BY <1>w, <2>1, <2>2 DEF SleptInv
<1>4. slept' \in [Clients -> Nat] /\ slept'[c] = 2 * PrimaryWaits(c)'
  <2>1. CASE tries[c] + 1 < PrimaryAttempts
    <3>1. slept' = [slept EXCEPT ![c] = slept[c] + 2 * Power2[tries[c]]]
      BY <1>1, <2>1 DEF Missed, Sleeps
    <3>2. slept[c] + 2 * Power2[tries[c]] = 2 * Waits(tries[c] + 1)
      BY <1>w, <1>3
    <3>3. PrimaryWaits(c)' = Waits(tries[c] + 1)
      BY <1>1, <2>1 DEF PrimaryWaits, Waits
    <3>4. slept[c] + 2 * Power2[tries[c]] \in Nat
      BY <1>w
    <3>5. QED
      BY <3>1, <3>2, <3>3, <3>4
  <2>2. CASE tries[c] + 1 = PrimaryAttempts
    <3>1. slept' = slept
      BY <1>1, <2>2 DEF Missed
    <3>2. PrimaryWaits(c)' = Waits(tries[c])
      BY <1>1, <2>2 DEF PrimaryWaits, Waits
    <3>3. QED
      BY <1>3, <3>1, <3>2
  <2>3. QED
    BY <1>1, <2>1, <2>2 DEF Missed
<1>5. PrimaryWaits(c)' \in Nat
  <2> DEFINE n == IF tries'[c] < PrimaryAttempts THEN tries'[c] ELSE PrimaryAttempts - 1
  <2>1. n \in Nat
    BY <1>1
  <2>2. PrimaryWaits(c)' = Waits(n)
    BY DEF PrimaryWaits, Waits
  <2> HIDE DEF n
  <2>3. QED
    BY <2>1, <2>2, WaitsFacts
<1>6. slept'[c] = 2 * PrimaryWaits(c)' + (link'[c] - 1) * Waits(HealthAttempts - 1)
                   + Waits(checks'[c])
  <2>1. (link'[c] - 1) * Waits(HealthAttempts - 1) = 0 /\ Waits(checks'[c]) = 0
    BY <1>2, LastWaits, WaitsFacts
  <2>2. QED
    BY <1>4, <1>5, <2>1
<1>7. QED
  BY <1>2, <1>4, <1>6 DEF SleptInv, Waits

\* So is a failed check, unless it was the last one of the model.
LEMMA UnhealthySlept ==
  ASSUME RetrievalType, NEW c \in Clients, slept \in [Clients -> Nat], SleptInv(c),
         tries[c] = PrimaryAttempts, ~ChainEnded(c), Unhealthy(c)
  PROVE  slept' \in [Clients -> Nat] /\ SleptInv(c)'
<1> USE RetrievalConstants
<1> DEFINE model == Waits(HealthAttempts - 1)
<1>1. /\ checks[c] \in 0 .. HealthAttempts - 1 /\ link[c] \in 1 .. Len(Chain)
      /\ slept[c] \in Nat /\ checks[c] \in Nat /\ UNCHANGED tries
      /\ tries[c] \in 0 .. PrimaryAttempts
      /\ DOMAIN slept = Clients /\ DOMAIN checks = Clients /\ DOMAIN link = Clients
  <2>1. /\ checks[c] \in 0 .. HealthAttempts - 1 /\ link[c] \in 1 .. Len(Chain) + 1
        /\ slept[c] \in Nat /\ UNCHANGED tries /\ tries[c] \in 0 .. PrimaryAttempts
        /\ DOMAIN slept = Clients /\ DOMAIN checks = Clients /\ DOMAIN link = Clients
    BY DEF RetrievalType, Unhealthy
  <2>2. QED
    BY <2>1 DEF ChainEnded
<1>w. /\ Power2[checks[c]] \in Nat /\ Waits(checks[c]) \in Nat
      /\ Waits(checks[c] + 1) = Waits(checks[c]) + Power2[checks[c]]
  BY <1>1, Power2Positive, WaitsFacts
<1>2. PrimaryWaits(c)' = PrimaryWaits(c) /\ PrimaryWaits(c) \in Nat /\ model \in Nat
  <2>1. PrimaryWaits(c)' = PrimaryWaits(c)
    BY <1>1 DEF PrimaryWaits, Waits
  <2>2. QED
    BY <1>1, <2>1, PrimaryWaitsBounded, LastWaits
<1>3. slept[c] = 2 * PrimaryWaits(c) + (link[c] - 1) * model + Waits(checks[c])
  BY DEF SleptInv
<1>4. link[c] - 1 \in Nat /\ (link[c] - 1) * model \in Nat
      /\ link[c] * model = (link[c] - 1) * model + model
  <2>1. link[c] - 1 \in Nat /\ (link[c] - 1) + 1 = link[c]
    BY <1>1
  <2>2. QED
    BY <1>2, <2>1, TimesOneMore
<1>5. tries'[c] = PrimaryAttempts
  BY <1>1
<1> HIDE DEF model
<1>6. CASE checks[c] + 1 < HealthAttempts /\ checks' = [checks EXCEPT ![c] = @ + 1]
           /\ Sleeps(c, 1, checks[c]) /\ UNCHANGED link
  <2>1. slept' = [slept EXCEPT ![c] = slept[c] + 1 * Power2[checks[c]]]
    BY <1>6 DEF Sleeps
  <2>2. checks'[c] = checks[c] + 1 /\ link'[c] = link[c]
    BY <1>1, <1>6
  <2>3. slept' \in [Clients -> Nat] /\ slept'[c] = slept[c] + Power2[checks[c]]
    <3>1. 1 * Power2[checks[c]] = Power2[checks[c]] /\ slept[c] + Power2[checks[c]] \in Nat
      BY <1>1, <1>w
    <3>2. slept' = [slept EXCEPT ![c] = slept[c] + Power2[checks[c]]]
      BY <2>1, <3>1
    <3> HIDE <2>1
    <3>3. QED
      BY <1>1, <3>1, <3>2
  <2>4. Waits(checks'[c]) = Waits(checks[c]) + Power2[checks[c]] /\ Waits(checks[c]) \in Nat
    BY <1>w, <2>2
  <2>5. slept'[c] = 2 * PrimaryWaits(c) + (link'[c] - 1) * model + Waits(checks'[c])
    <3>1. slept'[c] = (2 * PrimaryWaits(c) + (link[c] - 1) * model + Waits(checks[c]))
                       + Power2[checks[c]]
      BY <1>3, <2>3
    <3>2. (link'[c] - 1) * model = (link[c] - 1) * model
      BY <2>2
    <3> DEFINE p == PrimaryWaits(c)
               m == (link[c] - 1) * model
               w == Waits(checks[c])
               v == Power2[checks[c]]
    <3>3. p \in Nat /\ m \in Nat /\ w \in Nat /\ v \in Nat
      BY <1>2, <1>4, <1>w
    <3>4. slept'[c] = (2 * p + m + w) + v
      BY <3>1
    <3> HIDE DEF p, m, w, v
    <3>5. slept'[c] = 2 * p + m + (w + v)
      BY <3>3, <3>4
    <3>6. QED
      BY <2>4, <3>2, <3>5 DEF p, m, w, v
  <2>6. ~ChainEnded(c)'
    BY <2>2 DEF ChainEnded
  <2>7. QED
    BY <1>2, <1>5, <2>3, <2>5, <2>6 DEF SleptInv, Waits, model
<1>7. CASE checks[c] + 1 = HealthAttempts /\ checks' = [checks EXCEPT ![c] = 0]
           /\ link' = [link EXCEPT ![c] = @ + 1] /\ UNCHANGED slept
  <2>1. checks'[c] = 0 /\ link'[c] = link[c] + 1 /\ link'[c] - 1 = link[c]
    BY <1>1, <1>7
  <2>2. Waits(checks[c]) = model
    <3>1. HealthAttempts - 1 = checks[c]
      <4>1. checks[c] \in Nat /\ checks[c] + 1 = HealthAttempts
        BY <1>1, <1>7
      <4>2. QED
        BY <4>1
    <3>2. QED
      BY <3>1 DEF model
  <2>3. slept'[c] = 2 * PrimaryWaits(c) + (link'[c] - 1) * model + Waits(checks'[c])
    <3>1. slept'[c] = 2 * PrimaryWaits(c) + (link[c] - 1) * model + model
      BY <1>3, <1>7, <2>2
    <3>2. (link'[c] - 1) * model = link[c] * model /\ Waits(checks'[c]) = 0
      BY <2>1, WaitsFacts
    <3>3. QED
      BY <1>2, <1>4, <3>1, <3>2
  <2>4. QED
    BY <1>2, <1>5, <1>7, <2>1, <2>3 DEF SleptInv, Waits, model
<1>8. QED
  BY <1>6, <1>7 DEF Unhealthy

LEMMA SleepInvStep ==
  ASSUME RetrievalInv, SleepInv, [RetrievalNext]_retrievalVars
  PROVE  SleepInv'
<1>1. CASE UNCHANGED retrievalVars
  BY <1>1 DEF SleepInv, SleptInv, PrimaryWaits, Waits, ChainEnded, retrievalVars, work
<1>2. ASSUME NEW c \in Clients, StartClient(c) \/ Proceed(c)
      PROVE  SleepInv'
  <2>0. RetrievalType /\ ClientInv(c) /\ SleptInv(c) /\ slept \in [Clients -> Nat]
    BY DEF RetrievalInv, SleepInv
  <2>1. CASE UNCHANGED <<tries, link, checks, slept>>
    BY <2>1 DEF SleepInv, SleptInv, PrimaryWaits, Waits, ChainEnded
  <2>2. ASSUME NEW d \in Clients, d # c,
               (Missed(c) /\ UNCHANGED <<link, checks>>) \/ Unhealthy(c)
        PROVE  SleptInv(d)'
    <3>1. SleptInv(d)
      BY DEF SleepInv
    <3>2. tries'[d] = tries[d] /\ link'[d] = link[d] /\ checks'[d] = checks[d]
          /\ slept'[d] = slept[d]
      BY <2>0, <2>2 DEF RetrievalType, Missed, Unhealthy, Sleeps
    <3>3. QED
      BY <3>1, <3>2 DEF SleptInv, PrimaryWaits, Waits, ChainEnded
  <2>3. CASE ~LastAttempt(c) /\ Missed(c) /\ UNCHANGED <<link, checks>>
    BY <2>0, <2>2, <2>3, MissedSlept DEF SleepInv
  <2>4. CASE at[c] = "health" /\ ~ChainEnded(c) /\ Unhealthy(c)
    <3>1. tries[c] = PrimaryAttempts
      BY <2>0, <2>4 DEF ClientInv
    <3>2. QED
      BY <2>0, <2>2, <2>4, <3>1, UnhealthySlept DEF SleepInv
  <2>5. QED
    BY <1>2, <2>1, <2>3, <2>4, CountersStep
<1>3. QED
  BY <1>1, <1>2 DEF RetrievalNext

LEMMA SleepInvBounds ==
  ASSUME RetrievalType, SleepInv
  PROVE  SleepIsBounded
<1> USE RetrievalConstants
<1> DEFINE model == Waits(HealthAttempts - 1)
           primary == Waits(PrimaryAttempts - 1)
<1> SUFFICES ASSUME NEW c \in Clients
             PROVE  slept[c] \in Nat /\ slept[c] <= 2 * primary + Len(Chain) * model
  <2>1. model \in Nat /\ primary \in Nat
    BY LastWaits
  <2>2. 2 * primary + Len(Chain) * model \in Nat
    BY <2>1
  <2>3. QED
    BY <2>2 DEF SleepIsBounded, Waits
<1>1. /\ tries[c] \in 0 .. PrimaryAttempts /\ link[c] \in 1 .. Len(Chain) + 1
      /\ checks[c] \in 0 .. HealthAttempts - 1 /\ SleptInv(c) /\ slept[c] \in Nat
  BY DEF RetrievalType, SleepInv
<1>2. model \in Nat /\ primary \in Nat /\ Waits(checks[c]) \in Nat /\ Waits(checks[c]) <= model
  <2>1. checks[c] \in Nat /\ HealthAttempts - 1 \in Nat /\ checks[c] \in 0 .. HealthAttempts - 1
    BY <1>1
  <2>2. Waits(checks[c]) \in Nat /\ Waits(checks[c]) <= Waits(HealthAttempts - 1)
    BY <2>1, WaitsFacts
  <2>3. QED
    BY <2>2, LastWaits
<1>3. PrimaryWaits(c) \in Nat /\ PrimaryWaits(c) <= primary
  BY <1>1, PrimaryWaitsBounded
<1>4. slept[c] = 2 * PrimaryWaits(c) + (link[c] - 1) * model + Waits(checks[c])
  BY <1>1 DEF SleptInv
<1>5. link[c] - 1 \in Nat /\ (link[c] - 1) + 1 = link[c]
  BY <1>1
<1> HIDE DEF model, primary
<1>6. (link[c] - 1) * model + Waits(checks[c]) <= Len(Chain) * model
  <2>1. CASE ChainEnded(c)
    <3>1. Waits(checks[c]) = 0
      BY <1>1, <2>1, WaitsFacts DEF SleptInv
    <3>2. link[c] - 1 = Len(Chain)
      <4>1. link[c] \in 1 .. Len(Chain) + 1 /\ link[c] > Len(Chain) /\ Len(Chain) \in Nat
        BY <1>1, <2>1 DEF ChainEnded
      <4>2. QED
        BY <4>1
    <3>3. Len(Chain) * model \in Nat
      BY <1>2
    <3>4. QED
      BY <3>1, <3>2, <3>3
  <2>2. CASE ~ChainEnded(c)
    <3>1. link[c] \in Nat /\ link[c] <= Len(Chain)
      BY <1>1, <2>2 DEF ChainEnded
    <3>2. link[c] * model = (link[c] - 1) * model + model /\ (link[c] - 1) * model \in Nat
      BY <1>2, <1>5, TimesOneMore
    <3>3. link[c] * model <= Len(Chain) * model /\ Len(Chain) * model \in Nat
      BY <1>2, <3>1, TimesMonotone
    <3>4. QED
      BY <1>2, <3>2, <3>3
  <2>3. QED
    BY <2>1, <2>2
<1>7. (link[c] - 1) * model \in Nat /\ Len(Chain) * model \in Nat
  BY <1>2, <1>5
<1>8. QED
  <2>1. \A p, q, m, w, l \in Nat : p <= q /\ m + w <= l => 2 * p + m + w <= 2 * q + l
    OBVIOUS
  <2>2. 2 * PrimaryWaits(c) + (link[c] - 1) * model + Waits(checks[c])
          <= 2 * primary + Len(Chain) * model
    BY <1>2, <1>3, <1>6, <1>7, <2>1
  <2>3. QED
    BY <1>1, <1>4, <2>2

\* What a retrieval has slept is told by its counters throughout.
LEMMA SleepInvAlways == RetrievalSpec => []SleepInv
<1>1. RetrievalInit => SleepInv
  <2> SUFFICES ASSUME RetrievalInit PROVE SleepInv
    OBVIOUS
  <2>1. ASSUME NEW c \in Clients PROVE SleptInv(c)
    <3>1. tries[c] = 0 /\ link[c] = 1 /\ checks[c] = 0 /\ slept[c] = 0
      BY DEF RetrievalInit
    <3>2. PrimaryWaits(c) = 0 /\ Waits(0) = 0
      BY <3>1, RetrievalConstants, WaitsFacts DEF PrimaryWaits
    <3>3. (1 - 1) * Waits(HealthAttempts - 1) = 0
      BY RetrievalConstants, WaitsFacts
    <3>4. QED
      BY <3>1, <3>2, <3>3, RetrievalConstants DEF SleptInv, ChainEnded
  <2>2. QED
    BY <2>1 DEF RetrievalInit, SleepInv
<1>2. QED
  BY <1>1, SleepInvStep, RetrievalInvariant, PTL DEF RetrievalSpec

\* However its attempts and the health checks fail, a retrieval sleeps no longer
\* than the waits between all of them add up to.
THEOREM SleepBounded == RetrievalSpec => []SleepIsBounded
<1>1. RetrievalInv /\ SleepInv => SleepIsBounded
  BY SleepInvBounds DEF RetrievalInv
<1>2. QED
  BY <1>1, SleepInvAlways, RetrievalInvariant, PTL

----------------------------------------------------------------------------
(* How many calls a client makes *)

\* The calls an attempt still takes, from the one it is at.
InHand(step) ==
  CASE step \in {"idle", "health"}   -> 5
    [] step \in {"open", "validate"} -> 4
    [] step = "ensure"               -> 3
    [] step = "create"               -> 2
    [] step = "search"               -> 1
    [] OTHER                         -> 0

\* The health checks that can still fail.
ChecksLeft(c) ==
  IF at[c] = "health" THEN (Len(Chain) + 1 - link[c]) * HealthAttempts - checks[c] ELSE 0

\* The health checks of the whole chain.
AllChecks == Len(Chain) * HealthAttempts

\* The calls of the attempts after this one, and of the fallback.
CallsLater(c) ==
  IF tries[c] = PrimaryAttempts THEN ChecksLeft(c)
  ELSE 4 * (PrimaryAttempts - 1 - tries[c]) + AllChecks + 5

CallsLeft(c) == InHand(at[c]) + CallsLater(c)

\* All that a client may ever do.
AllCalls == 4 * (PrimaryAttempts - 1) + AllChecks + 10

LEMMA InHandFacts ==
  /\ \A step \in {"idle", "done"} \cup Calling : InHand(step) \in 0 .. 5
  /\ \A step \in {"idle"} \cup Calling : InHand(step) >= 1
  /\ InHand("done") = 0 /\ InHand("open") = 4 /\ InHand("health") = 5
  /\ InHand("ensure") = 3 /\ InHand("create") = 2 /\ InHand("search") = 1
  /\ InHand("validate") = 4 /\ InHand("idle") = 5
BY DEF InHand, Calling

LEMMA CallConstants ==
  /\ PrimaryAttempts \in Nat /\ PrimaryAttempts > 0
  /\ HealthAttempts \in Nat /\ HealthAttempts > 0
  /\ AllChecks \in Nat
BY RetrievalConstants DEF AllChecks

\* The checks that are left are a number, no larger than for the whole chain.
LEMMA ChecksLeftNat ==
  ASSUME RetrievalType, NEW c \in Clients, SleptInv(c)
  PROVE  ChecksLeft(c) \in Nat /\ ChecksLeft(c) <= AllChecks
<1> DEFINE n == Len(Chain) + 1 - link[c]
<1>0. HealthAttempts \in Nat /\ HealthAttempts > 0 /\ Len(Chain) \in Nat
  BY RetrievalConstants
<1>1. link[c] \in 1 .. Len(Chain) + 1 /\ checks[c] \in 0 .. HealthAttempts - 1
  BY DEF RetrievalType
<1>2. n \in Nat /\ n <= Len(Chain) /\ checks[c] \in Nat /\ checks[c] <= HealthAttempts
  BY <1>0, <1>1
<1>3. n >= 1 \/ checks[c] = 0
  BY <1>0, <1>1 DEF SleptInv, ChainEnded
<1>4. ChecksLeft(c) = IF at[c] = "health" THEN n * HealthAttempts - checks[c] ELSE 0
  BY DEF ChecksLeft
<1> HIDE DEF n
<1>5. n * HealthAttempts \in Nat /\ n * HealthAttempts <= AllChecks /\ AllChecks \in Nat
  BY <1>0, <1>2, TimesMonotone DEF AllChecks
<1>6. checks[c] <= n * HealthAttempts
  <2>1. CASE checks[c] = 0
    BY <1>5, <2>1
  <2>2. CASE n >= 1
    <3>1. 1 * HealthAttempts <= n * HealthAttempts
      BY <1>0, <1>2, <2>2, TimesMonotone
    <3>2. QED
      BY <1>0, <1>2, <1>5, <3>1
  <2>3. QED
    BY <1>3, <2>1, <2>2
<1>7. n * HealthAttempts - checks[c] \in Nat /\ n * HealthAttempts - checks[c] <= AllChecks
  BY <1>2, <1>5, <1>6
<1>8. QED
  BY <1>4, <1>5, <1>7

LEMMA CallsLaterNat ==
  ASSUME RetrievalType, NEW c \in Clients, SleptInv(c)
  PROVE  /\ CallsLater(c) \in Nat
         /\ CallsLater(c) <= 4 * (PrimaryAttempts - 1) + AllChecks + 5
<1>1. tries[c] \in 0 .. PrimaryAttempts
  BY DEF RetrievalType
<1>2. ChecksLeft(c) \in Nat /\ ChecksLeft(c) <= AllChecks
  BY ChecksLeftNat
<1>3. CASE tries[c] = PrimaryAttempts
  BY <1>2, <1>3, CallConstants DEF CallsLater
<1>4. CASE tries[c] # PrimaryAttempts
  <2>1. CallsLater(c) = 4 * (PrimaryAttempts - 1 - tries[c]) + AllChecks + 5
    BY <1>4 DEF CallsLater
  <2>2. tries[c] \in Nat /\ tries[c] <= PrimaryAttempts - 1
    BY <1>1, <1>4, CallConstants
  <2>3. QED
    BY <2>1, <2>2, CallConstants
<1>5. QED
  BY <1>3, <1>4

LEMMA CallsLeftNat ==
  ASSUME RetrievalType, NEW c \in Clients, SleptInv(c)
  PROVE  CallsLeft(c) \in 0 .. AllCalls
<1>1. InHand(at[c]) \in 0 .. 5
  BY InHandFacts DEF RetrievalType
<1>2. /\ CallsLater(c) \in Nat
      /\ CallsLater(c) <= 4 * (PrimaryAttempts - 1) + AllChecks + 5
  BY CallsLaterNat
<1>3. QED
  BY <1>1, <1>2, CallConstants DEF CallsLeft, AllCalls

\* A call that takes the client on, or to its end, is one less.
LEMMA FewerInHand ==
  ASSUME RetrievalType, NEW c \in Clients, SleptInv(c), tries'[c] = tries[c],
         at'[c] # "health", InHand(at'[c]) \in 0 .. 5, InHand(at'[c]) < InHand(at[c])
  PROVE  CallsLeft(c)' < CallsLeft(c)
<1>1. InHand(at[c]) \in 0 .. 5
  BY InHandFacts DEF RetrievalType
<1>2. CallsLater(c) \in Nat /\ ChecksLeft(c) \in Nat
  BY CallsLaterNat, ChecksLeftNat
<1>3. InHand(at[c])' = InHand(at'[c])
  BY DEF InHand
<1>4. CallsLater(c)' \in Nat /\ CallsLater(c)' <= CallsLater(c)
  <2>1. ChecksLeft(c)' = 0
    BY DEF ChecksLeft
  <2>2. CASE tries[c] = PrimaryAttempts
    BY <1>2, <2>1, <2>2 DEF CallsLater
  <2>3. CASE tries[c] # PrimaryAttempts
    <3>1. CallsLater(c)' = CallsLater(c)
      BY <2>3 DEF CallsLater, AllChecks
    <3>2. QED
      BY <1>2, <3>1
  <2>4. QED
    BY <2>2, <2>3
<1>5. CallsLeft(c)' = InHand(at'[c]) + CallsLater(c)'
  BY <1>3 DEF CallsLeft
<1>6. QED
  BY <1>1, <1>2, <1>4, <1>5 DEF CallsLeft

\* An attempt that failed is one less, and pays for the calls of the next one or
\* of the fallback.
LEMMA FewerAttempts ==
  ASSUME RetrievalType, NEW c \in Clients, SleptInv(c), at[c] \in Calling,
         ~LastAttempt(c), Missed(c), UNCHANGED <<link, checks>>
  PROVE  CallsLeft(c)' < CallsLeft(c)
<1>1. /\ tries[c] \in 0 .. PrimaryAttempts /\ tries[c] # PrimaryAttempts
      /\ tries'[c] = tries[c] + 1
  BY DEF RetrievalType, LastAttempt, Missed
<1>2. InHand(at[c]) \in 0 .. 5 /\ InHand(at[c]) >= 1
  BY InHandFacts DEF Calling
<1>3. tries[c] \in Nat /\ tries[c] < PrimaryAttempts
  BY <1>1, CallConstants
<1>4. CallsLater(c) = 4 * (PrimaryAttempts - 1 - tries[c]) + AllChecks + 5
  BY <1>1 DEF CallsLater
<1>5. CASE tries[c] + 1 < PrimaryAttempts /\ Goes(c, "open")
  <2>1. InHand(at[c])' = 4
    BY <1>5 DEF RetrievalType, Goes, InHand
  <2>2. tries'[c] # PrimaryAttempts
    BY <1>1, <1>3, <1>5, CallConstants
  <2>3. CallsLater(c)' = 4 * (PrimaryAttempts - 1 - (tries[c] + 1)) + AllChecks + 5
    BY <1>1, <2>2 DEF CallsLater, AllChecks
  <2>4. CallsLeft(c)' = 4 + CallsLater(c)'
    BY <2>1 DEF CallsLeft
  <2>5. QED
    BY <1>2, <1>3, <1>4, <2>3, <2>4, CallConstants DEF CallsLeft
<1>6. CASE tries[c] + 1 = PrimaryAttempts /\ Goes(c, "health")
  <2>1. at'[c] = "health"
    BY <1>6 DEF RetrievalType, Goes
  <2>2. link'[c] = 1 /\ checks'[c] = 0
    BY <1>3 DEF SleptInv
  <2>3. ChecksLeft(c)' = AllChecks
    <3>1. ChecksLeft(c)' = (Len(Chain) + 1 - 1) * HealthAttempts - 0
      BY <2>1, <2>2 DEF ChecksLeft
    <3>2. Len(Chain) + 1 - 1 = Len(Chain)
      BY RetrievalConstants
    <3>3. AllChecks - 0 = AllChecks
      BY CallConstants
    <3>4. QED
      BY <3>1, <3>2, <3>3 DEF AllChecks
  <2>4. CallsLeft(c)' = 5 + AllChecks
    BY <1>1, <1>6, <2>1, <2>3 DEF CallsLeft, CallsLater, InHand
  <2>5. PrimaryAttempts - 1 - tries[c] = 0
    BY <1>3, <1>6, CallConstants
  <2>6. QED
    BY <1>2, <1>4, <2>4, <2>5, CallConstants DEF CallsLeft
<1>7. QED
  BY <1>5, <1>6 DEF Missed

\* So is a health check that failed, also when the next model is taken.
LEMMA FewerChecks ==
  ASSUME RetrievalType, NEW c \in Clients, SleptInv(c), at[c] = "health",
         tries[c] = PrimaryAttempts, ~ChainEnded(c), Unhealthy(c)
  PROVE  CallsLeft(c)' < CallsLeft(c)
<1> USE RetrievalConstants
<1> DEFINE n == Len(Chain) - link[c]
<1>0. /\ link[c] \in 1 .. Len(Chain) + 1 /\ checks[c] \in 0 .. HealthAttempts - 1
      /\ UNCHANGED <<at, tries>>
      /\ DOMAIN checks = Clients /\ DOMAIN link = Clients
  BY DEF RetrievalType, Unhealthy
<1>1. link[c] \in Nat /\ n \in Nat /\ checks[c] \in Nat
  BY <1>0 DEF ChainEnded
<1>2. Len(Chain) + 1 - link[c] = n + 1 /\ Len(Chain) + 1 - (link[c] + 1) = n
  BY <1>1
<1>3. (n + 1) * HealthAttempts = n * HealthAttempts + HealthAttempts
      /\ n * HealthAttempts \in Nat
  BY <1>1, TimesOneMore
<1>4. ChecksLeft(c) = (n + 1) * HealthAttempts - checks[c]
  BY <1>2 DEF ChecksLeft
<1>5. CallsLeft(c) = 5 + ChecksLeft(c) /\ CallsLeft(c)' = 5 + ChecksLeft(c)'
  BY <1>0, InHandFacts DEF CallsLeft, CallsLater, InHand
<1>6. ChecksLeft(c)' = (Len(Chain) + 1 - link'[c]) * HealthAttempts - checks'[c]
  BY <1>0 DEF ChecksLeft
<1>7. ChecksLeft(c)' = ChecksLeft(c) - 1 /\ ChecksLeft(c) \in Int
  <2>1. CASE checks' = [checks EXCEPT ![c] = @ + 1] /\ UNCHANGED link
    <3>1. link'[c] = link[c] /\ checks'[c] = checks[c] + 1
      BY <1>0, <2>1
    <3>2. ChecksLeft(c)' = (n + 1) * HealthAttempts - (checks[c] + 1)
      BY <1>2, <1>6, <3>1
    <3> HIDE DEF n
    <3>3. QED
      BY <1>1, <1>3, <1>4, <3>2
  <2>2. CASE checks[c] + 1 = HealthAttempts /\ checks' = [checks EXCEPT ![c] = 0]
             /\ link' = [link EXCEPT ![c] = @ + 1]
    <3>1. link'[c] = link[c] + 1 /\ checks'[c] = 0
      BY <1>0, <2>2
    <3>2. ChecksLeft(c)' = n * HealthAttempts - 0
      BY <1>2, <1>6, <3>1
    <3> HIDE DEF n
    <3>3. checks[c] = HealthAttempts - 1
      BY <1>1, <2>2
    <3>4. ChecksLeft(c) = n * HealthAttempts + 1
      BY <1>3, <1>4, <3>3
    <3>5. QED
      BY <1>3, <3>2, <3>4
  <2>3. QED
    BY <2>1, <2>2 DEF Unhealthy
<1>8. QED
  BY <1>5, <1>7

\* A client that takes a step has fewer calls left.
LEMMA FewerCalls ==
  ASSUME RetrievalType, NEW c \in Clients, ClientInv(c), SleptInv(c),
         StartClient(c) \/ Proceed(c)
  PROVE  CallsLeft(c)' < CallsLeft(c)
<1> USE InHandFacts
<1>1. ASSUME NEW call \in Calling \ {"health"}, InHand(call) < InHand(at[c]), Answered(c, call)
      PROVE  CallsLeft(c)' < CallsLeft(c)
  <2>1. at'[c] = call /\ tries'[c] = tries[c]
    BY <1>1 DEF RetrievalType, Answered, Goes
  <2>2. QED
    BY <1>1, <2>1, FewerInHand
<1>2. ASSUME NEW how, Ends(c, how), at[c] \in {"idle"} \cup Calling, UNCHANGED tries
      PROVE  CallsLeft(c)' < CallsLeft(c)
  <2>1. at'[c] = "done" /\ tries'[c] = tries[c]
    BY <1>2 DEF RetrievalType, Ends, Goes
  <2>2. InHand(at[c]) \in 0 .. 5 /\ InHand(at[c]) >= 1
    BY <1>2
  <2>3. InHand(at'[c]) = 0
    BY <2>1
  <2>4. InHand(at'[c]) < InHand(at[c]) /\ InHand(at'[c]) \in 0 .. 5
    BY <2>2, <2>3
  <2>5. QED
    BY <2>1, <2>4, FewerInHand
<1>3. ASSUME HardFailure(c), at[c] \in Calling
      PROVE  CallsLeft(c)' < CallsLeft(c)
  BY <1>2, <1>3 DEF HardFailure
<1>4. ASSUME SoftFailure(c), at[c] \in Calling
      PROVE  CallsLeft(c)' < CallsLeft(c)
  BY <1>2, <1>4, FewerAttempts DEF SoftFailure
<1>5. CASE StartClient(c)
  <2>1. at[c] = "idle" /\ InHand("open") < InHand(at[c])
    <3>1. at[c] = "idle"
      BY <1>5 DEF StartClient
    <3>2. InHand(at[c]) = 5
      BY <3>1
    <3>3. QED
      BY <3>1, <3>2
  <2>2. CASE Answered(c, "open")
    BY <1>1, <2>1, <2>2 DEF Calling
  <2>3. CASE Ends(c, "no query") /\ UNCHANGED tries
    BY <1>2, <2>1, <2>3
  <2>4. QED
    BY <1>5, <2>2, <2>3 DEF StartClient
<1>6. CASE Open(c)
  BY <1>1, <1>3, <1>4, <1>6 DEF Open, Calling
<1>7. CASE HasIndex(c)
  <2>1. at[c] = "ensure" /\ at[c] \in Calling
    BY <1>7 DEF HasIndex, Calling
  <2>2. CASE Answered(c, "search") \/ Answered(c, "create")
    BY <1>1, <2>1, <2>2 DEF Calling
  <2>3. QED
    BY <1>3, <1>7, <2>1, <2>2 DEF HasIndex
<1>8. CASE CreateIndex(c)
  <2>1. at[c] = "create" /\ at[c] \in Calling
    BY <1>8 DEF CreateIndex, Calling
  <2>2. CASE Answered(c, "search")
    BY <1>1, <2>1, <2>2 DEF Calling
  <2>3. QED
    BY <1>3, <1>8, <2>1, <2>2 DEF CreateIndex, AlreadyExists, CreateFails
<1>9. CASE Search(c) \/ HandOver(c)
  BY <1>2, <1>3, <1>4, <1>9 DEF Search, HandOver, Calling
<1>10. CASE HealthCheck(c)
  <2>1. at[c] = "health" /\ ~ChainEnded(c) /\ tries[c] = PrimaryAttempts
    BY <1>10 DEF HealthCheck, ClientInv
  <2>2. QED
    BY <1>1, <1>3, <1>10, <2>1, FewerChecks DEF HealthCheck, Calling
<1>11. CASE LastResort(c)
  BY <1>1, <1>3, <1>11 DEF LastResort, Calling
<1>12. CASE ValidateDimension(c)
  BY <1>1, <1>2, <1>3, <1>4, <1>12 DEF ValidateDimension, Validated, Calling
<1>13. QED
  BY <1>5, <1>6, <1>7, <1>8, <1>9, <1>10, <1>11, <1>12 DEF Proceed

\* Every step is a call of one client, that has fewer left then; the others have
\* as many as before.
CallsRunOut ==
  [][\E c \in Clients : /\ CallsLeft(c)' < CallsLeft(c)
                        /\ \A d \in Clients \ {c} : CallsLeft(d)' = CallsLeft(d)]_retrievalVars

\* So the clients come to an end, whatever fails and however they interleave: one
\* makes no more than AllCalls calls.
THEOREM RetrievalRunsOut ==
  RetrievalSpec => [](\A c \in Clients : CallsLeft(c) \in 0 .. AllCalls) /\ CallsRunOut
<1>1. RetrievalInv /\ SleepInv => \A c \in Clients : CallsLeft(c) \in 0 .. AllCalls
  BY CallsLeftNat DEF RetrievalInv, SleepInv
<1>2. ASSUME RetrievalInv, SleepInv, RetrievalNext
      PROVE  \E c \in Clients : /\ CallsLeft(c)' < CallsLeft(c)
                                /\ \A d \in Clients \ {c} : CallsLeft(d)' = CallsLeft(d)
  <2>1. PICK c \in Clients : StartClient(c) \/ Proceed(c)
    BY <1>2 DEF RetrievalNext
  <2>2. RetrievalType /\ ClientInv(c) /\ SleptInv(c)
    BY <1>2 DEF RetrievalInv, SleepInv
  <2>3. ASSUME NEW d \in Clients \ {c}
        PROVE  CallsLeft(d)' = CallsLeft(d)
    <3>1. at'[d] = at[d] /\ tries'[d] = tries[d] /\ link'[d] = link[d]
      BY <2>1, <2>2, OthersStay
    <3>2. checks'[d] = checks[d]
      BY <2>1, <2>2, CountersStep DEF RetrievalType, Unhealthy
    <3>3. QED
      BY <3>1, <3>2 DEF CallsLeft, CallsLater, ChecksLeft, AllChecks, InHand
  <2>4. QED
    BY <2>1, <2>2, <2>3, FewerCalls
<1>3. RetrievalInv /\ SleepInv /\ [RetrievalNext]_retrievalVars =>
        [\E c \in Clients : /\ CallsLeft(c)' < CallsLeft(c)
                            /\ \A d \in Clients \ {c} : CallsLeft(d)' = CallsLeft(d)]_retrievalVars
  BY <1>2
<1>4. QED
  BY <1>1, <1>3, RetrievalInvariant, SleepInvAlways, PTL DEF RetrievalSpec, CallsRunOut

----------------------------------------------------------------------------
(* The fusion of the rankings *)

FusionType ==
  /\ results \in [1 .. Lists -> Rankings]
  /\ list \in 1 .. Lists + 1
  /\ rank \in Nat
  /\ list <= Lists => rank <= Len(results[list])
  /\ score \in [Texts -> Nat]
  /\ inserted \in Seq(Texts)

\* The keys are the texts with a score, each inserted once; those of the ranking at
\* hand that are done with are among them.
KeysAreScored ==
  /\ \A i \in 1 .. Len(inserted) : score[inserted[i]] > 0
  /\ \A t \in Texts : score[t] > 0 => \E i \in 1 .. Len(inserted) : inserted[i] = t
  /\ \A i, j \in 1 .. Len(inserted) : inserted[i] = inserted[j] => i = j
  /\ list <= Lists => \A p \in 1 .. rank : score[results[list][p]] > 0

\* The score of d is at least that of e, and by what e will still get more when d
\* has been met in the ranking at hand and e not yet.
ScoredAhead(d, e) ==
  /\ score[e] <= score[d]
  /\ list <= Lists =>
       \A q \in rank + 1 .. Len(results[list]) :
         results[list][q] = e /\ (\E p \in 1 .. rank : results[list][p] = d)
           => score[e] + Weight[q] <= score[d]

InsertedAhead(d, e) ==
  \A j \in 1 .. Len(inserted) : inserted[j] = e => \E i \in 1 .. j - 1 : inserted[i] = d

AgreementKept ==
  \A d, e \in Texts : Outranks(d, e) => ScoredAhead(d, e) /\ InsertedAhead(d, e)

FusionInv == FusionType /\ KeysAreScored /\ AgreementKept /\ AgreementStands

\* A ranking is a sequence of at most TopK texts.
LEMMA RankingFacts ==
  ASSUME NEW r \in Rankings
  PROVE  /\ Len(r) \in 0 .. TopK
         /\ \A q \in 1 .. Len(r) : r[q] \in Texts /\ q \in 1 .. TopK
<1>1. PICK n \in 0 .. TopK : r \in [1 .. n -> Texts]
  BY DEF Rankings
<1>2. Len(r) = n
  BY <1>1, TopKAssumption
<1>3. QED
  BY <1>1, <1>2, TopKAssumption

LEMMA FusionInvInit ==
  ASSUME FusionInit
  PROVE  FusionInv
<1>1. FusionType
  <2>1. 1 <= Lists => Len(results[1]) \in Nat
    BY ListsAssumption, RankingFacts, TopKAssumption DEF FusionInit
  <2>2. QED
    BY <2>1, ListsAssumption DEF FusionInit, FusionType
<1>2. KeysAreScored
  BY DEF FusionInit, KeysAreScored
<1>3. AgreementKept
  BY DEF FusionInit, AgreementKept, ScoredAhead, InsertedAhead
<1>4. AgreementStands
  BY DEF FusionInit, AgreementStands
<1>5. QED
  BY <1>1, <1>2, <1>3, <1>4 DEF FusionInv

\* The place that is scored next.
LEMMA FuseDocEffect ==
  ASSUME FusionType, FuseDoc
  PROVE  /\ list \in 1 .. Lists /\ results[list] \in Rankings
         /\ rank + 1 \in 1 .. Len(results[list]) /\ rank + 1 \in 1 .. TopK
         /\ results[list][rank + 1] \in Texts
         /\ Weight[rank + 1] \in Nat /\ Weight[rank + 1] > 0
         /\ score' = [score EXCEPT ![results[list][rank + 1]] = @ + Weight[rank + 1]]
         /\ results' = results /\ list' = list /\ rank' = rank + 1
         /\ rank \in Nat /\ Len(results[list]) \in Nat
<1>1. list \in 1 .. Lists /\ results[list] \in Rankings
  BY ListsAssumption DEF FusionType, FuseDoc
<1>2. Len(results[list]) \in Nat /\ rank \in Nat /\ rank + 1 \in 1 .. Len(results[list])
  BY <1>1, RankingFacts, TopKAssumption DEF FusionType, FuseDoc
<1>3. results[list][rank + 1] \in Texts /\ rank + 1 \in 1 .. TopK
  BY <1>1, <1>2, RankingFacts
<1>4. Weight[rank + 1] \in Nat /\ Weight[rank + 1] > 0
  BY <1>3, WeightAssumption
<1>5. QED
  BY <1>1, <1>2, <1>3, <1>4 DEF FuseDoc, Scored

\* A text that is new gets the last place among the keys.
LEMMA InsertedEffect ==
  ASSUME FusionType, FuseDoc
  PROVE  LET t == results[list][rank + 1] IN
         /\ inserted' \in Seq(Texts)
         /\ Len(inserted) \in Nat
         /\ Len(inserted') = IF score[t] = 0 THEN Len(inserted) + 1 ELSE Len(inserted)
         /\ \A i \in 1 .. Len(inserted) : inserted'[i] = inserted[i] /\ inserted[i] \in Texts
         /\ score[t] = 0 => inserted'[Len(inserted) + 1] = t
<1> DEFINE t == results[list][rank + 1]
<1>1. inserted \in Seq(Texts) /\ t \in Texts
  BY FuseDocEffect DEF FusionType
<1>2. inserted' = IF score[t] = 0 THEN Append(inserted, t) ELSE inserted
  BY DEF FuseDoc
<1> HIDE DEF t
<1>3. QED
  BY <1>1, <1>2 DEF t

LEMMA FuseDocKeepsKeys ==
  ASSUME FusionType, KeysAreScored, FuseDoc
  PROVE  FusionType' /\ KeysAreScored'
<1> DEFINE t == results[list][rank + 1]
           w == Weight[rank + 1]
           n == Len(inserted)
<1>0. /\ t \in Texts /\ w \in Nat /\ w > 0
      /\ score \in [Texts -> Nat] /\ score' = [score EXCEPT ![t] = @ + w]
  BY FuseDocEffect DEF FusionType
<1>1. /\ t \in Texts /\ score' \in [Texts -> Nat] /\ score'[t] > 0
      /\ \A u \in Texts : u # t => score'[u] = score[u]
      /\ \A u \in Texts : score[u] \in Nat /\ score'[u] \in Nat /\ score'[u] >= score[u]
  <2> HIDE DEF t, w
  <2>1. score'[t] = score[t] + w /\ score[t] \in Nat
    BY <1>0
  <2>2. \A u \in Texts : u # t => score'[u] = score[u]
    BY <1>0
  <2>3. score' \in [Texts -> Nat]
    BY <1>0
  <2>4. QED
    BY <1>0, <2>1, <2>2, <2>3
<1>2. /\ inserted' \in Seq(Texts) /\ n \in Nat
      /\ Len(inserted') = IF score[t] = 0 THEN n + 1 ELSE n
      /\ \A i \in 1 .. n : inserted'[i] = inserted[i] /\ inserted[i] \in Texts
      /\ score[t] = 0 => inserted'[n + 1] = t
  BY InsertedEffect
<1>3. FusionType'
  <2>1. rank' \in Nat /\ rank' <= Len(results[list])
    BY FuseDocEffect
  <2>2. results' = results /\ list' = list
    BY FuseDocEffect
  <2>3. QED
    BY <1>1, <1>2, <2>1, <2>2 DEF FusionType
<1>4. /\ \A i \in 1 .. n : score[inserted[i]] > 0
      /\ \A u \in Texts : score[u] > 0 => \E i \in 1 .. n : inserted[i] = u
      /\ \A i, j \in 1 .. n : inserted[i] = inserted[j] => i = j
  BY DEF KeysAreScored
<1>5. /\ \A p \in 1 .. rank : score[results[list][p]] > 0 /\ results[list][p] \in Texts
      /\ rank \in Nat /\ list' = list /\ rank' = rank + 1 /\ results' = results
  BY FuseDocEffect, RankingFacts DEF KeysAreScored
<1> HIDE DEF t, n
<1>6. \A i \in 1 .. Len(inserted') : score'[inserted'[i]] > 0
  <2>1. \A i \in 1 .. n : score'[inserted[i]] > 0
    BY <1>1, <1>2, <1>4
  <2>2. \A i \in 1 .. n : score'[inserted'[i]] > 0
    BY <1>2, <2>1
  <2>3. CASE score[t] = 0
    <3>1. Len(inserted') = n + 1 /\ score'[inserted'[n + 1]] > 0
      BY <1>1, <1>2, <2>3
    <3>2. \A i \in 1 .. n + 1 : i \in 1 .. n \/ i = n + 1
      BY <1>2
    <3>3. QED
      BY <2>2, <3>1, <3>2
  <2>4. CASE score[t] # 0
    <3>1. Len(inserted') = n
      BY <1>2, <2>4
    <3>2. QED
      BY <2>2, <3>1
  <2>5. QED
    BY <2>3, <2>4
<1>7. \A u \in Texts : score'[u] > 0 => \E i \in 1 .. Len(inserted') : inserted'[i] = u
  <2>1. \A i \in 1 .. n : i \in 1 .. Len(inserted')
    BY <1>2
  <2>2. ASSUME NEW u \in Texts, score[u] > 0
        PROVE  \E i \in 1 .. Len(inserted') : inserted'[i] = u
    <3>1. PICK i \in 1 .. n : inserted[i] = u
      BY <1>4, <2>2
    <3>2. inserted'[i] = u
      BY <1>2, <3>1
    <3>3. QED
      BY <2>1, <3>2
  <2>3. ASSUME score[t] = 0
        PROVE  n + 1 \in 1 .. Len(inserted') /\ inserted'[n + 1] = t
    BY <1>2, <2>3
  <2>4. QED
    BY <1>1, <2>2, <2>3
<1>8. \A i, j \in 1 .. Len(inserted') : inserted'[i] = inserted'[j] => i = j
  <2>1. \A i, j \in 1 .. n : inserted'[i] = inserted'[j] => i = j
    BY <1>2, <1>4
  <2>2. CASE score[t] = 0
    <3>1. Len(inserted') = n + 1 /\ inserted'[n + 1] = t
      BY <1>2, <2>2
    <3>2. \A i \in 1 .. n : inserted'[i] # t
      BY <1>2, <1>4, <2>2
    <3>3. \A i \in 1 .. n + 1 : i \in 1 .. n \/ i = n + 1
      BY <1>2
    <3>4. QED
      BY <2>1, <3>1, <3>2, <3>3
  <2>3. CASE score[t] # 0
    <3>1. Len(inserted') = n
      BY <1>2, <2>3
    <3>2. QED
      BY <2>1, <3>1
  <2>4. QED
    BY <2>2, <2>3
<1>9. \A p \in 1 .. rank' : score'[results[list][p]] > 0
  BY <1>1, <1>5 DEF t
<1>10. KeysAreScored'
  BY <1>5, <1>6, <1>7, <1>8, <1>9 DEF KeysAreScored
<1>11. QED
  BY <1>3, <1>10

\* e is scored after d, in the same ranking or in none that d was not in.
LEMMA FuseDocKeepsAhead ==
  ASSUME FusionType, KeysAreScored, FuseDoc,
         NEW d \in Texts, NEW e \in Texts, Outranks(d, e),
         ScoredAhead(d, e), InsertedAhead(d, e)
  PROVE  ScoredAhead(d, e)' /\ InsertedAhead(d, e)'
<1> DEFINE t == results[list][rank + 1]
           r == results[list]
           n == Len(inserted)
<1>1. /\ list \in 1 .. Lists /\ rank \in Nat /\ Len(r) \in Nat
      /\ rank + 1 \in 1 .. Len(r) /\ t = r[rank + 1] /\ t \in Texts
      /\ Weight[rank + 1] \in Nat
      /\ results' = results /\ list' = list /\ rank' = rank + 1
      /\ score' = [score EXCEPT ![t] = @ + Weight[rank + 1]]
  BY FuseDocEffect
<1>2. /\ d # e
      /\ \A q \in 1 .. Len(r) : r[q] = e =>
           /\ \E p \in 1 .. q - 1 : r[p] = d
           /\ \A p \in 1 .. q - 1 : r[p] # e
  BY <1>1 DEF Outranks
<1>3. /\ score[d] \in Nat /\ score[e] \in Nat /\ score[e] <= score[d]
      /\ \A q \in rank + 1 .. Len(r) :
           r[q] = e /\ (\E p \in 1 .. rank : r[p] = d) => score[e] + Weight[q] <= score[d]
  BY <1>1 DEF ScoredAhead, FusionType
<1>4. \A q \in 1 .. Len(r) : Weight[q] \in Nat /\ \A p \in 1 .. q : Weight[q] <= Weight[p]
  <2>1. r \in Rankings
    BY FuseDocEffect
  <2>2. \A q \in 1 .. Len(r) : q \in 1 .. TopK /\ \A p \in 1 .. q : p \in 1 .. TopK
    BY <1>1, <2>1, RankingFacts, TopKAssumption
  <2>3. QED
    BY <1>1, <2>2, WeightAssumption
<1>5. t = e => \E p \in 1 .. rank : r[p] = d
  BY <1>1, <1>2
<1>6. /\ t = d => score'[d] = score[d] + Weight[rank + 1] /\ score'[e] = score[e]
      /\ t = e => score'[e] = score[e] + Weight[rank + 1] /\ score'[d] = score[d]
      /\ t # d /\ t # e => score'[d] = score[d] /\ score'[e] = score[e]
  BY <1>1, <1>2 DEF FusionType
<1> HIDE DEF t, r, n
<1>7. score'[e] <= score'[d]
  <2>1. CASE t = e
    <3>1. r[rank + 1] = e /\ rank + 1 \in rank + 1 .. Len(r)
      BY <1>1, <2>1
    <3>2. score[e] + Weight[rank + 1] <= score[d]
      BY <1>3, <1>5, <2>1, <3>1
    <3>3. QED
      BY <1>6, <2>1, <3>2
  <2>2. CASE t # e
    BY <1>1, <1>3, <1>6, <2>2
  <2>3. QED
    BY <2>1, <2>2
<1>8. ASSUME NEW q \in rank + 2 .. Len(r), r[q] = e, NEW p \in 1 .. rank + 1, r[p] = d
      PROVE  score'[e] + Weight[q] <= score'[d]
  <2>1. t # e
    BY <1>1, <1>2, <1>8
  <2>2. CASE t = d
    <3>1. Weight[q] \in Nat /\ Weight[q] <= Weight[rank + 1]
      BY <1>1, <1>4, <1>8
    <3>2. QED
      BY <1>1, <1>3, <1>6, <2>2, <3>1
  <2>3. CASE t # d
    <3>1. p \in 1 .. rank
      BY <1>1, <1>8, <2>3
    <3>2. q \in rank + 1 .. Len(r)
      BY <1>1, <1>8
    <3>3. score[e] + Weight[q] <= score[d]
      BY <1>3, <1>8, <3>1, <3>2
    <3>4. QED
      BY <1>6, <2>1, <2>3, <3>3
  <2>4. QED
    BY <2>2, <2>3
<1>9. ScoredAhead(d, e)'
  BY <1>1, <1>7, <1>8 DEF ScoredAhead, r
<1>10. InsertedAhead(d, e)'
  <2>1. /\ n \in Nat
        /\ Len(inserted') = IF score[t] = 0 THEN n + 1 ELSE n
        /\ \A i \in 1 .. n : inserted'[i] = inserted[i]
        /\ score[t] = 0 => inserted'[n + 1] = t
    BY InsertedEffect DEF t, n
  <2>2. \A j \in 1 .. n : inserted[j] = e => \E i \in 1 .. j - 1 : inserted[i] = d
    BY DEF InsertedAhead, n
  <2>3. ASSUME t = e
        PROVE  \E i \in 1 .. n : inserted[i] = d
    <3>1. score[d] > 0
      BY <1>1, <1>5, <2>3 DEF KeysAreScored, r
    <3>2. QED
      BY <3>1 DEF KeysAreScored, n
  <2>4. \A j \in 1 .. Len(inserted') : inserted'[j] = e => \E i \in 1 .. j - 1 : inserted'[i] = d
    BY <2>1, <2>2, <2>3
  <2>5. QED
    BY <2>4 DEF InsertedAhead
<1>11. QED
  BY <1>9, <1>10

\* Who outranks whom depends on the rankings alone.
LEMMA OutranksSame ==
  ASSUME results' = results, NEW d, NEW e
  PROVE  Outranks(d, e)' = Outranks(d, e)
BY DEF Outranks

\* What was returned depends on them and on fused.
LEMMA AgreementSame ==
  ASSUME AgreementStands, results' = results, fused' = fused
  PROVE  AgreementStands'
BY OutranksSame DEF AgreementStands

\* The order of the keys is a rearrangement of them in which an earlier key is in
\* front of a later one unless its score is lower.
LEMMA SortedFacts ==
  ASSUME FusionType, NEW p \in SortedOrders
  PROVE  LET n == Len(inserted) IN
         /\ n \in Nat
         /\ \A i \in 1 .. n : p[i] \in 1 .. n
         /\ \A i, j \in 1 .. n : p[i] = p[j] => i = j
         /\ \A i \in 1 .. n : \A k \in 1 .. p[i] - 1 :
              score[inserted[p[i]]] <= score[inserted[k]] => \E j \in 1 .. i - 1 : p[j] = k
<1> DEFINE n == Len(inserted)
<1>0. n \in Nat /\ \A i \in 1 .. n : inserted[i] \in Texts
  BY DEF FusionType
<1>1. /\ n \in Nat
      /\ \A i \in 1 .. n : p[i] \in 1 .. n
      /\ \A k \in 1 .. n : \E i \in 1 .. n : p[i] = k
      /\ \A i, j \in 1 .. n : i < j => Precedes(p[i], p[j])
  <2>1. /\ p \in [1 .. n -> 1 .. n]
        /\ \A k \in 1 .. n : \E i \in 1 .. n : p[i] = k
        /\ \A i, j \in 1 .. n : i < j => Precedes(p[i], p[j])
    BY DEF SortedOrders
  <2> HIDE DEF n
  <2>2. QED
    BY <1>0, <2>1
<1>2. \A i \in 1 .. n : score[inserted[i]] \in Nat
  BY <1>0 DEF FusionType
<1> HIDE DEF n
<1>3. \A i, j \in 1 .. n : ~(Precedes(i, j) /\ Precedes(j, i)) /\ ~Precedes(i, i)
  BY <1>1, <1>2 DEF Precedes
<1>4. \A i, j \in 1 .. n : p[i] = p[j] => i = j
  BY <1>1, <1>3
<1>5. ASSUME NEW i \in 1 .. n, NEW k \in 1 .. p[i] - 1,
             score[inserted[p[i]]] <= score[inserted[k]]
      PROVE  \E j \in 1 .. i - 1 : p[j] = k
  <2>1. p[i] \in 1 .. n /\ k \in 1 .. n /\ k < p[i]
    BY <1>1
  <2>2. Precedes(k, p[i])
    BY <1>2, <1>5, <2>1 DEF Precedes
  <2>3. PICK j \in 1 .. n : p[j] = k
    BY <1>1, <2>1
  <2>4. ~(i < j) /\ i # j
    BY <1>1, <1>3, <2>1, <2>2, <2>3
  <2>5. j \in 1 .. i - 1
    BY <1>1, <2>4
  <2>6. QED
    BY <2>3, <2>5
<1>6. QED
  BY <1>1, <1>4, <1>5 DEF n

LEMMA SortKeepsAgreement ==
  ASSUME FusionType, KeysAreScored, AgreementKept, SortAndCut
  PROVE  AgreementStands'
<1> DEFINE n == Len(inserted)
           Kept == {k \in 1 .. TopK : k <= n}
<1>1. PICK p \in SortedOrders : fused' = [i \in Kept |-> inserted[p[i]]]
  BY DEF SortAndCut
<1>2. /\ n \in Nat
      /\ \A i \in 1 .. n : p[i] \in 1 .. n
      /\ \A i, j \in 1 .. n : p[i] = p[j] => i = j
      /\ \A i \in 1 .. n : \A k \in 1 .. p[i] - 1 :
           score[inserted[p[i]]] <= score[inserted[k]] => \E j \in 1 .. i - 1 : p[j] = k
  BY SortedFacts
<1>3. /\ \A i \in 1 .. n : inserted[i] \in Texts
      /\ \A i, j \in 1 .. n : inserted[i] = inserted[j] => i = j
  <2>1. \A i \in 1 .. n : inserted[i] \in Texts
    BY DEF FusionType
  <2>2. QED
    BY <2>1 DEF KeysAreScored
<1>4. /\ \A i \in Kept : i \in 1 .. n /\ i \in 1 .. TopK /\ \A j \in 1 .. i - 1 : j \in Kept
      /\ DOMAIN fused' = Kept
      /\ \A i \in Kept : fused'[i] = inserted[p[i]]
  BY <1>1, <1>2, TopKAssumption
<1> HIDE DEF n, Kept
<1>5. ASSUME NEW i \in Kept, NEW j \in Kept, fused'[j] = fused'[i]
      PROVE  j = i
  BY <1>2, <1>3, <1>4, <1>5
<1>6. ASSUME NEW i \in Kept, NEW d \in Texts, Outranks(d, fused'[i])
      PROVE  \E j \in Kept : j < i /\ fused'[j] = d
  <2>1. i \in 1 .. n /\ p[i] \in 1 .. n /\ fused'[i] = inserted[p[i]] /\ inserted[p[i]] \in Texts
    BY <1>2, <1>3, <1>4
  <2>2. ScoredAhead(d, inserted[p[i]]) /\ InsertedAhead(d, inserted[p[i]])
    BY <1>6, <2>1 DEF AgreementKept
  <2>3. PICK k \in 1 .. p[i] - 1 : inserted[k] = d
    BY <2>1, <2>2 DEF InsertedAhead, n
  <2>4. score[inserted[p[i]]] <= score[inserted[k]]
    BY <2>2, <2>3 DEF ScoredAhead
  <2>5. PICK j \in 1 .. i - 1 : p[j] = k
    BY <1>2, <2>1, <2>3, <2>4
  <2>6. j \in Kept /\ j < i
    BY <1>4, <2>1, <2>5, <1>2
  <2>7. fused'[j] = d
    BY <1>4, <2>3, <2>5, <2>6
  <2>8. QED
    BY <2>6, <2>7
<1>7. results' = results
  BY DEF SortAndCut
<1>8. QED
  BY <1>4, <1>5, <1>6, <1>7, OutranksSame DEF AgreementStands

LEMMA FusionInvStep ==
  ASSUME FusionInv, [FusionNext]_fusionVars
  PROVE  FusionInv'
<1>1. CASE FuseDoc
  <2>1. FusionType' /\ KeysAreScored'
    BY <1>1, FuseDocKeepsKeys DEF FusionInv
  <2>2. results' = results /\ fused' = fused
    BY <1>1 DEF FuseDoc
  <2>3. AgreementKept'
    BY <1>1, <2>2, FuseDocKeepsAhead, OutranksSame DEF FusionInv, AgreementKept
  <2>4. AgreementStands'
    BY <2>2, AgreementSame DEF FusionInv
  <2>5. QED
    BY <2>1, <2>3, <2>4 DEF FusionInv
<1>2. CASE NextList
  <2>1. /\ results' = results /\ fused' = fused /\ score' = score /\ inserted' = inserted
        /\ list' = list + 1 /\ rank' = 0 /\ list <= Lists
    BY <1>2 DEF NextList
  <2>2. FusionType'
    <3>1. list + 1 \in 1 .. Lists + 1
      BY <2>1, ListsAssumption DEF FusionInv, FusionType
    <3>2. list + 1 <= Lists => Len(results[list + 1]) \in Nat
      BY <3>1, ListsAssumption, RankingFacts, TopKAssumption DEF FusionInv, FusionType
    <3>3. QED
      BY <2>1, <3>1, <3>2 DEF FusionInv, FusionType
  <2>3. KeysAreScored'
    BY <2>1 DEF FusionInv, KeysAreScored
  <2>4. ASSUME NEW d \in Texts, NEW e \in Texts, ScoredAhead(d, e), InsertedAhead(d, e)
        PROVE  ScoredAhead(d, e)' /\ InsertedAhead(d, e)'
    BY <2>1, <2>4 DEF ScoredAhead, InsertedAhead
  <2>5. AgreementKept'
    BY <2>1, <2>4, OutranksSame DEF FusionInv, AgreementKept
  <2>6. QED
    BY <2>1, <2>2, <2>3, <2>5, AgreementSame DEF FusionInv
<1>3. CASE SortAndCut
  <2>1. UNCHANGED <<results, list, rank, score, inserted>>
    BY <1>3 DEF SortAndCut
  <2>2. FusionType' /\ KeysAreScored'
    BY <2>1 DEF FusionInv, FusionType, KeysAreScored
  <2>3. AgreementKept'
    BY <2>1, OutranksSame DEF FusionInv, AgreementKept, ScoredAhead, InsertedAhead
  <2>4. AgreementStands'
    BY <1>3, SortKeepsAgreement DEF FusionInv
  <2>5. QED
    BY <2>2, <2>3, <2>4 DEF FusionInv
<1>4. CASE UNCHANGED fusionVars
  BY <1>4, OutranksSame, AgreementSame
     DEF fusionVars, FusionInv, FusionType, KeysAreScored, AgreementKept, ScoredAhead, InsertedAhead
<1>5. QED
  BY <1>1, <1>2, <1>3, <1>4 DEF FusionNext

\* Whatever the rankings are, and whatever the constant k is: a text that all of
\* them rank above another that none has twice is in front of it after the fusion,
\* and the cut never takes the first without the second; no text is there twice.
THEOREM AgreementSurvives == FusionSpec => []AgreementStands
<1>1. FusionInv => AgreementStands
  BY DEF FusionInv
<1>2. QED
  BY <1>1, FusionInvInit, FusionInvStep, PTL DEF FusionSpec
=============================================================================
