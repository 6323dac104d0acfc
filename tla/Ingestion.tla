----------------------------- MODULE Ingestion -----------------------------
(***************************************************************************)
(* The ingestion graph (server/agent/vector_db_graph.py): PDFs become       *)
(* Markdown files, which are cleaned in place, chunked and embedded into    *)
(* Pinecone in batches.  The graph may be run again over the same           *)
(* directories, and the process may be killed at any step.                  *)
(*                                                                         *)
(* A file stands for its chunks.                                            *)
(***************************************************************************)
EXTENDS Integers, FiniteSets

CONSTANTS
  Pdfs,         \* the files of ingest_input_dir
  BatchSize,    \* batch_size
  MaxAttempts,  \* max_retries: attempts to store one batch
  MaxRuns       \* bound: times the graph is run

ASSUME PdfsAssumption     == IsFiniteSet(Pdfs)
ASSUME BatchAssumption    == BatchSize \in Nat \ {0}
ASSUME AttemptsAssumption == MaxAttempts \in Nat \ {0}
ASSUME RunsAssumption     == MaxRuns \in Nat

VARIABLES
  node,       \* the node that runs, or how the last run ended
  todo,       \* files the node has not come to yet
  markdown,   \* the files of ingest_output_dir
  documents,  \* what was chunked, as the AgentState holds it
  batch,      \* files in the batch being stored
  attempt,    \* attempts made to store it
  copies,     \* how often Pinecone holds each file
  status,     \* ingest_status
  runs,
  skipped     \* history: files in batches this run left behind after a last 429

vars ==
  <<node, todo, markdown, documents, batch, attempt, copies, status, runs, skipped>>

----------------------------------------------------------------------------
Contents == {"absent", "raw", "clean", "empty"}

Written == {f \in Pdfs : markdown[f] # "absent"}

Init ==
  /\ node = "idle"
  /\ todo = {}
  /\ markdown = [f \in Pdfs |-> "absent"]
  /\ documents = {}
  /\ batch = {}
  /\ attempt = 0
  /\ copies = [f \in Pdfs |-> 0]
  /\ status = "none"
  /\ runs = 0
  /\ skipped = {}

Enter(next, files) ==
  /\ node' = next
  /\ todo' = files

Run ==
  /\ node \in {"idle", "end", "raised"}
  /\ runs < MaxRuns
  /\ runs' = runs + 1
  /\ Enter("ingestion", Pdfs)
  /\ documents' = {}
  /\ status' = "none"
  /\ skipped' = {}
  /\ UNCHANGED <<markdown, batch, attempt, copies>>

\* Docling, Unstructured and PyMuPDF in turn, each writing the file if it
\* can.  When all fail an earlier conversion is left in place, or what a write
\* that failed made of it: open() truncates, and the error is caught.
ConvertPdf ==
  /\ node = "ingestion"
  /\ \E f \in todo :
       /\ todo' = todo \ {f}
       /\ \/ \E content \in {"raw", "empty"} : markdown' = [markdown EXCEPT ![f] = content]
          \/ UNCHANGED markdown
  /\ UNCHANGED <<node, documents, batch, attempt, copies, status, runs, skipped>>

IngestionDone ==
  /\ node = "ingestion" /\ todo = {}
  /\ Enter("cleaning", Written)
  /\ status' = "Completed"
  /\ UNCHANGED <<markdown, documents, batch, attempt, copies, runs, skipped>>

\* Cleaned in place.  A file that cannot be read is left as it is; one whose
\* write fails is empty by then, and the loop goes on.
CleanFile ==
  /\ node = "cleaning"
  /\ \E f \in todo :
       /\ todo' = todo \ {f}
       /\ \/ /\ markdown[f] # "empty"
             /\ \E content \in {"clean", "empty"} :
                  markdown' = [markdown EXCEPT ![f] = content]
          \/ UNCHANGED markdown
  /\ UNCHANGED <<node, documents, batch, attempt, copies, status, runs, skipped>>

\* Mutant: without any output the PDFs are converted again.
CleaningDone_TriesAgain ==
  /\ node = "cleaning" /\ todo = {}
  /\ IF Written = {} THEN Enter("ingestion", Pdfs) ELSE Enter("chunking", Written)
  /\ status' = "Cleaning Completed Successfully"
  /\ UNCHANGED <<markdown, documents, batch, attempt, copies, runs, skipped>>

CleaningDone ==
  /\ node = "cleaning" /\ todo = {}
  /\ Enter("chunking", Written)
  /\ status' = IF Written = {} THEN "Cleaning Completed (No files)"
                               ELSE "Cleaning Completed Successfully"
  /\ UNCHANGED <<markdown, documents, batch, attempt, copies, runs, skipped>>

\* An empty file has no chunks, and neither has one that cannot be opened.
Chunk ==
  /\ node = "chunking"
  /\ documents' \in SUBSET {f \in todo : markdown[f] # "empty"}
  /\ status' = IF todo = {} THEN "Completed (No files to chunk)"
                            ELSE "Chunking Completed"
  /\ Enter("embedding", documents')
  /\ batch' = {}
  /\ attempt' = 0
  /\ UNCHANGED <<markdown, copies, runs, skipped>>

----------------------------------------------------------------------------
(* embedding_node *)

\* The run of the graph ends; there is nothing after embedding_node.
End(outcome) ==
  /\ Enter("end", {})
  /\ status' = outcome

NoDocuments ==
  /\ node = "embedding" /\ documents = {}
  /\ End("Failed: No documents to embed")
  /\ UNCHANGED <<markdown, documents, batch, attempt, copies, runs, skipped>>

\* The vector store cannot be opened.
NoVectorStore ==
  /\ node = "embedding"
  /\ batch = {} /\ todo = documents /\ documents # {}
  /\ End("Embedding Failed")
  /\ UNCHANGED <<markdown, documents, batch, attempt, copies, runs, skipped>>

NextBatch ==
  /\ node = "embedding"
  /\ batch = {} /\ todo # {}
  /\ \E b \in SUBSET todo :
       /\ b # {}
       /\ Cardinality(b) = BatchSize \/ (b = todo /\ Cardinality(b) < BatchSize)
       /\ batch' = b
       /\ todo' = todo \ b
  /\ attempt' = 0
  /\ UNCHANGED <<node, markdown, documents, copies, status, runs, skipped>>

\* Vector ids are drawn anew by every call of add_documents.
Stored == [f \in Pdfs |-> copies[f] + IF f \in batch THEN 1 ELSE 0]

AddDocuments ==
  /\ node = "embedding" /\ batch # {}
  /\ copies' = Stored
  /\ batch' = {}
  /\ UNCHANGED <<node, todo, markdown, documents, attempt, status, runs, skipped>>

\* A failed call may have stored the batch all the same.
MayHaveStored ==
  \/ UNCHANGED copies
  \/ copies' = Stored

\* Mutant: the last failure is waited for as well, and forgotten.
WaitsAfter_LastToo(rateLimit) == rateLimit \/ attempt < MaxAttempts

\* Whether a failed attempt is followed by a wait instead of the exception.
WaitsAfter(rateLimit) == rateLimit \/ attempt < MaxAttempts - 1

\* Mutant: the attempts are not counted.
Retry_Uncounted(rateLimit) ==
  /\ WaitsAfter(rateLimit)
  /\ UNCHANGED <<node, todo, status, attempt, batch, skipped>>

\* The batch is tried again.  After the last attempt the loop simply ends,
\* and the next batch comes.
Retry(rateLimit) ==
  /\ WaitsAfter(rateLimit)
  /\ attempt' = attempt + 1
  /\ batch' = IF attempt' = MaxAttempts THEN {} ELSE batch
  /\ skipped' = IF attempt' = MaxAttempts /\ rateLimit THEN skipped \cup batch ELSE skipped
  /\ UNCHANGED <<node, todo, status>>

GiveUp(rateLimit) ==
  /\ ~WaitsAfter(rateLimit)
  /\ End("Embedding Failed")
  /\ batch' = {}
  /\ UNCHANGED <<attempt, skipped>>

\* A RuntimeError, ConnectionError or ValueError, which may be a 429.
AddFails ==
  /\ node = "embedding" /\ batch # {}
  /\ MayHaveStored
  /\ \E rateLimit \in BOOLEAN : Retry(rateLimit) \/ GiveUp(rateLimit)
  /\ UNCHANGED <<markdown, documents, runs>>

InvalidateCache ==
  /\ node = "embedding" /\ documents # {}
  /\ batch = {} /\ todo = {}
  /\ End("Embedding Completed Successfully")
  /\ documents' = {}
  /\ UNCHANGED <<markdown, batch, attempt, copies, runs, skipped>>

----------------------------------------------------------------------------
\* An exception nobody names, or the end of the process.  A file that was
\* open for writing is left empty.
Crash ==
  /\ node \in {"ingestion", "cleaning", "chunking", "embedding"}
  /\ Enter("raised", {})
  /\ batch' = {}
  /\ attempt' = 0
  /\ \/ UNCHANGED markdown
     \/ /\ node \in {"ingestion", "cleaning"}
        /\ \E f \in todo : markdown' = [markdown EXCEPT ![f] = "empty"]
  /\ IF batch # {} THEN MayHaveStored ELSE UNCHANGED copies
  /\ UNCHANGED <<documents, status, runs, skipped>>

Node ==
  \/ ConvertPdf
  \/ IngestionDone
  \/ CleanFile
  \/ CleaningDone
  \/ Chunk
  \/ NoDocuments
  \/ NoVectorStore
  \/ NextBatch
  \/ AddDocuments
  \/ AddFails
  \/ InvalidateCache

Next == Run \/ Node \/ Crash

\* A run that has been started goes on.
Spec == Init /\ [][Next]_vars /\ WF_vars(Node)

----------------------------------------------------------------------------
(* Properties *)

Statuses ==
  {"none", "Completed", "Cleaning Completed (No files)",
   "Cleaning Completed Successfully", "Completed (No files to chunk)",
   "Chunking Completed", "Failed: No documents to embed", "Embedding Failed",
   "Embedding Completed Successfully"}

\* The variables stay within their types, and a batch is no larger than
\* batch_size.
TypeOK ==
  /\ node \in {"idle", "ingestion", "cleaning", "chunking", "embedding", "end",
               "raised"}
  /\ todo \subseteq Pdfs
  /\ markdown \in [Pdfs -> Contents]
  /\ documents \subseteq Pdfs
  /\ batch \subseteq Pdfs /\ Cardinality(batch) <= BatchSize
  /\ attempt \in 0..MaxAttempts
  /\ copies \in [Pdfs -> Nat]
  /\ status \in Statuses
  /\ runs \in 0..MaxRuns
  /\ skipped \subseteq Pdfs

Succeeds == node = "embedding" /\ status' = "Embedding Completed Successfully"

\* When a run reports success every document it chunked is in Pinecone, except
\* those of a batch whose last attempt was refused with 429.
SuccessMeansStored ==
  [][Succeeds => \A f \in documents \ skipped : copies[f] >= 1]_vars

\* However runs fail and are repeated, a file is stored at most once for each
\* attempt of each run.
DuplicatesAreBounded == \A f \in Pdfs : copies[f] <= runs * MaxAttempts

\* As long as it is not killed a run ends, however often Pinecone fails.
RunEnds == node = "ingestion" ~> node \in {"end", "raised"}

----------------------------------------------------------------------------
(* What the service with the same loop says of it. *)

\* embed_and_store: "True if successful, False otherwise."
SuccessMeansAllStored == [][Succeeds => \A f \in documents : copies[f] >= 1]_vars
=============================================================================
