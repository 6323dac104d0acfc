----------------------------- MODULE Retrieval -----------------------------
(***************************************************************************)
(* Getting at the vector store (server/agent/node/retriever.py, execute;    *)
(* server/agent/model.py; server/agent/utils/embedding_utils.py): a         *)
(* retrieval makes a number of attempts with the first embedding model,      *)
(* then looks for a model that answers; an ingestion opens the store once.   *)
(* Each of them creates the index when it does not find it.                 *)
(*                                                                         *)
(* A client is a process that retrieves or ingests, once.  NVIDIA and        *)
(* Pinecone are external: any call of theirs may fail, in a way that the     *)
(* code names (RuntimeError, ConnectionError, ValueError) or in another.     *)
(* The names differ from those of Ingestion, to be used beside them.        *)
(***************************************************************************)
EXTENDS Integers, Sequences

CONSTANTS
  Retrievers,       \* clients that run RetrieverNode.execute
  Ingesters,        \* clients that run embedding_node
  Models,           \* embedding models
  Chain,            \* FALLBACK_MODELS
  Fits,             \* models whose vectors have the dimension of the index
  PrimaryAttempts,  \* max_retries of execute
  HealthAttempts    \* max_retries of get_model_with_fallback

Clients == Retrievers \cup Ingesters

\* The primary model, nv-embedqa-e5-v5, is also the first of the chain.
Primary == Chain[1]

ASSUME ClientsAssumption == Retrievers \cap Ingesters = {}
ASSUME ChainAssumption   == Chain \in Seq(Models) /\ Len(Chain) > 0
ASSUME FitsAssumption    == Fits \subseteq Models /\ Primary \in Fits
ASSUME PrimaryAssumption == PrimaryAttempts \in Nat \ {0}
ASSUME HealthAssumption  == HealthAttempts \in Nat \ {0}

VARIABLES
  at,           \* the call each client makes next
  tries,        \* attempts with the primary model that have failed
  link,         \* the place in the chain
  checks,       \* health checks that the model there has failed
  outcome,      \* what each client came to
  slept,        \* seconds spent in time.sleep
  softs,        \* history: failures of each client that the code names, up to a bound
  hard,         \* history: whether it met another failure
  indexExists   \* Pinecone's has_index

work          == <<at, tries, link, checks, outcome, slept>>
failures      == <<softs, hard>>
retrievalVars == <<work, failures, indexExists>>

----------------------------------------------------------------------------
RetrievalInit ==
  /\ at = [c \in Clients |-> "idle"]
  /\ tries = [c \in Clients |-> 0]
  /\ link = [c \in Clients |-> 1]
  /\ checks = [c \in Clients |-> 0]
  /\ outcome = [c \in Clients |-> "none"]
  /\ slept = [c \in Clients |-> 0]
  /\ softs = [c \in Clients |-> 0]
  /\ hard = [c \in Clients |-> FALSE]
  /\ indexExists \in BOOLEAN

\* An ingestion has one attempt, and a retrieval that looked for another model too.
LastAttempt(c) == c \in Ingesters \/ tries[c] = PrimaryAttempts

\* get_model_with_fallback has come to its end without a model.
ChainEnded(c) == link[c] > Len(Chain)

\* The model of the vector store that a client opens.
Using(c) ==
  IF c \in Retrievers /\ tries[c] = PrimaryAttempts /\ ~ChainEnded(c) THEN Chain[link[c]]
  ELSE Primary

Goes(c, call) == at' = [at EXCEPT ![c] = call]

Ends(c, how) ==
  /\ Goes(c, "done")
  /\ outcome' = [outcome EXCEPT ![c] = how]

\* 2 ** attempt.
Power2[n \in Nat] == IF n = 0 THEN 1 ELSE 2 * Power2[n - 1]

\* time.sleep(base_delay * 2 ** attempt).
Sleeps(c, base, attempt) == slept' = [slept EXCEPT ![c] = @ + base * Power2[attempt]]

\* Mutant: an attempt too many.
Missed_OneMore(c) ==
  /\ tries' = [tries EXCEPT ![c] = @ + 1]
  /\ Goes(c, "open")
  /\ Sleeps(c, 2, tries[c])

\* Mutant: the attempts are not counted.
Missed_Uncounted(c) ==
  /\ Goes(c, "open")
  /\ Sleeps(c, 0, 0)
  /\ UNCHANGED tries

\* An attempt with the primary model that failed: the wait before the next one,
\* or none before the fallback.
Missed(c) ==
  /\ tries' = [tries EXCEPT ![c] = @ + 1]
  /\ \/ /\ tries[c] + 1 < PrimaryAttempts
        /\ Goes(c, "open")
        /\ Sleeps(c, 2, tries[c])
     \/ /\ tries[c] + 1 = PrimaryAttempts
        /\ Goes(c, "health")
        /\ UNCHANGED slept

\* The call is answered, and the client goes on.
Answered(c, call) ==
  /\ Goes(c, call)
  /\ UNCHANGED <<tries, link, checks, outcome, slept, failures>>

\* A failure that the code names, counted up to one that no attempt is left for.
Counted(c) == softs' = [softs EXCEPT ![c] = IF @ > PrimaryAttempts THEN @ ELSE @ + 1]

\* Mutant: whatever fails ends the attempts.
SoftFailure_GivesUp(c) ==
  /\ Counted(c)
  /\ Ends(c, "nothing")
  /\ UNCHANGED <<tries, link, checks, slept, hard>>

\* except (RuntimeError, ConnectionError, ValueError).
SoftFailure(c) ==
  /\ Counted(c)
  /\ \/ LastAttempt(c) /\ Ends(c, "nothing") /\ UNCHANGED <<tries, slept>>
     \/ ~LastAttempt(c) /\ Missed(c) /\ UNCHANGED outcome
  /\ UNCHANGED <<link, checks, hard>>

\* Any other exception leaves execute, or embedding_node.
HardFailure(c) ==
  /\ hard' = [hard EXCEPT ![c] = TRUE]
  /\ Ends(c, "raised")
  /\ UNCHANGED <<tries, link, checks, slept, softs>>

----------------------------------------------------------------------------
(* The calls *)

\* A retrieval without a query comes back at once.
StartClient(c) ==
  /\ at[c] = "idle"
  /\ \/ Answered(c, "open")
     \/ /\ c \in Retrievers
        /\ Ends(c, "no query")
        /\ UNCHANGED <<tries, link, checks, slept, failures>>
  /\ UNCHANGED indexExists

\* get_nemotron_embed and get_pinecone_client.
Open(c) ==
  /\ at[c] = "open"
  /\ Answered(c, "ensure") \/ SoftFailure(c) \/ HardFailure(c)
  /\ UNCHANGED indexExists

\* _ensure_index: every failure becomes a VectorStoreError.
HasIndex(c) ==
  /\ at[c] = "ensure"
  /\ Answered(c, IF indexExists THEN "search" ELSE "create") \/ HardFailure(c)
  /\ UNCHANGED indexExists

\* Mutant: an index that was created meanwhile is an error.
AlreadyExists_Raises(c) ==
  /\ indexExists
  /\ Ends(c, "raised")
  /\ UNCHANGED <<tries, link, checks, slept, failures, indexExists>>

\* ALREADY_EXISTS is swallowed.
AlreadyExists(c) ==
  /\ indexExists
  /\ Answered(c, "search")
  /\ UNCHANGED indexExists

\* Mutant: every failure is swallowed.
CreateFails_Swallowed(c) ==
  /\ Answered(c, "search")
  /\ indexExists' \in {indexExists, TRUE}

\* A call that failed may have created the index all the same.
CreateFails(c) ==
  /\ HardFailure(c)
  /\ indexExists' \in {indexExists, TRUE}

\* create_index; another client may have created it since has_index.
CreateIndex(c) ==
  /\ at[c] = "create"
  /\ \/ AlreadyExists(c)
     \/ ~indexExists /\ indexExists' = TRUE /\ Answered(c, "search")
     \/ CreateFails(c)

\* _hybrid_retrieve.  Pinecone rejects vectors of another dimension.
Search(c) ==
  /\ at[c] = "search" /\ c \in Retrievers
  /\ \/ /\ indexExists /\ Using(c) \in Fits
        /\ Ends(c, "documents")
        /\ UNCHANGED <<tries, link, checks, slept, failures>>
     \/ SoftFailure(c)
     \/ HardFailure(c)
  /\ UNCHANGED indexExists

\* get_vector_store gives an ingestion the store, for the batches of Ingestion.
HandOver(c) ==
  /\ at[c] = "search" /\ c \in Ingesters
  /\ Ends(c, "opened")
  /\ UNCHANGED <<tries, link, checks, slept, failures, indexExists>>

\* A health check that failed: the wait before the next, or the next model.
Unhealthy(c) ==
  /\ Counted(c)
  /\ \/ /\ checks[c] + 1 < HealthAttempts
        /\ checks' = [checks EXCEPT ![c] = @ + 1]
        /\ Sleeps(c, 1, checks[c])
        /\ UNCHANGED link
     \/ /\ checks[c] + 1 = HealthAttempts
        /\ checks' = [checks EXCEPT ![c] = 0]
        /\ link' = [link EXCEPT ![c] = @ + 1]
        /\ UNCHANGED slept
  /\ UNCHANGED <<at, tries, outcome, hard>>

HealthCheck(c) ==
  /\ at[c] = "health" /\ ~ChainEnded(c)
  /\ Answered(c, "validate") \/ Unhealthy(c) \/ HardFailure(c)
  /\ UNCHANGED indexExists

\* The primary model is the last resort.
LastResort(c) ==
  /\ at[c] = "health" /\ ChainEnded(c)
  /\ Answered(c, "validate") \/ HardFailure(c)
  /\ UNCHANGED indexExists

\* Mutant: a model that answers will do.
Validated_AnyModel(c) == Answered(c, "ensure")

\* VectorStoreDimensionMismatchError is none of the failures that are named.
Validated(c) ==
  \/ Using(c) \in Fits /\ Answered(c, "ensure")
  \/ /\ Using(c) \notin Fits /\ Ends(c, "raised")
     /\ UNCHANGED <<tries, link, checks, slept, failures>>

\* _validate_embedding_dimension, with a vector that the model makes.
ValidateDimension(c) ==
  /\ at[c] = "validate"
  /\ Validated(c) \/ SoftFailure(c) \/ HardFailure(c)
  /\ UNCHANGED indexExists

----------------------------------------------------------------------------
\* A client that has started goes on.
Proceed(c) ==
  Open(c) \/ HasIndex(c) \/ CreateIndex(c) \/ Search(c) \/ HandOver(c)
    \/ HealthCheck(c) \/ LastResort(c) \/ ValidateDimension(c)

RetrievalNext == \E c \in Clients : StartClient(c) \/ Proceed(c)

\* A call comes back, or fails at its timeout.
RetrievalSpec ==
  /\ RetrievalInit /\ [][RetrievalNext]_retrievalVars
  /\ \A c \in Clients : WF_retrievalVars(Proceed(c))

----------------------------------------------------------------------------
(* Properties *)

Calling == {"open", "ensure", "create", "search", "health", "validate"}

\* The variables stay within their types; for slept see SleepIsBounded.
RetrievalType ==
  /\ at \in [Clients -> {"idle", "done"} \cup Calling]
  /\ tries \in [Clients -> 0 .. PrimaryAttempts]
  /\ link \in [Clients -> 1 .. Len(Chain) + 1]
  /\ checks \in [Clients -> 0 .. HealthAttempts - 1]
  /\ outcome \in [Clients -> {"none", "no query", "documents", "opened", "nothing", "raised"}]
  /\ softs \in [Clients -> 0 .. PrimaryAttempts + 1]
  /\ hard \in [Clients -> BOOLEAN]
  /\ indexExists \in BOOLEAN

\* Whoever searches, or is given the store to add to, finds an index there, also when several clients
\* found none and went to create it; and has a model whose vectors fit it.
SearchesFit == \A c \in Clients : at[c] = "search" => indexExists /\ Using(c) \in Fits

\* No documents are found only after all attempts with the primary model and one
\* with a fallback have failed, or the one attempt of an ingestion; and an
\* exception leaves a client only when one of its calls failed in a way the code
\* does not name, or the fallback does not fit: never since another client was
\* faster to create the index.
OutcomesHaveCause ==
  \A c \in Clients :
    /\ outcome[c] = "nothing" => softs[c] > (IF c \in Ingesters THEN 0 ELSE PrimaryAttempts)
    /\ outcome[c] = "raised" =>
         \/ hard[c]
         \/ c \in Retrievers /\ softs[c] >= PrimaryAttempts /\ Using(c) \notin Fits

\* All that one retrieval may sleep: 30 s between its attempts with the primary
\* model, and 3 s for each model of the chain.
SleepIsBounded ==
  \A c \in Clients :
    slept[c] \in 0 .. 2 * (Power2[PrimaryAttempts - 1] - 1)
                      + Len(Chain) * (Power2[HealthAttempts - 1] - 1)

\* Every retrieval and every ingestion gets through to an outcome.
RetrievalEnds == \A c \in Clients : at[c] = "open" ~> at[c] = "done"
=============================================================================
