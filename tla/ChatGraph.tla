----------------------------- MODULE ChatGraph -----------------------------
(***************************************************************************)
(* One invocation of the self-corrective RAG graph: the eight nodes that   *)
(* server/agent/chat_graph.py wires together, the flags of AgentState they *)
(* read and write, and what happens to those flags when a node fails.      *)
(*                                                                         *)
(* A node is one action (graph.invoke runs the nodes one after the other,  *)
(* a superstep each).  Text is abstracted: a query is a version number,    *)
(* NoQuery is the empty string, and a retrieved chunk carries the query it *)
(* was retrieved for.                                                      *)
(***************************************************************************)
EXTENDS Integers, FiniteSets

CONSTANTS
  Chunks,         \* chunks of statute text held by the vector store
  Scores,         \* relevance scores the grading model may return, in tenths
  Outcomes,       \* how each fallible node can end, see OutcomesAssumption
  RecursionLimit  \* supersteps LangGraph runs before GraphRecursionError

Nodes == {"query_decomposer", "qualifier", "retriever", "reranker", "grader",
          "rewriter", "web_search", "generator"}

\* web_search catches every exception inside execute, the others need not.
FallibleNodes == Nodes \ {"web_search"}

(***************************************************************************)
(* "answers": the model or the vector store gave a usable result.          *)
(* "handled": an exception that the node's own except clause catches.      *)
(* "escapes": one it does not catch (raised before the try, or of a type   *)
(*   the clause does not name), so that BaseNode.__call__ substitutes the  *)
(*   empty update of _fallback.                                            *)
(***************************************************************************)
Outcome == {"answers", "handled", "escapes"}

ASSUME OutcomesAssumption == Outcomes \in [FallibleNodes -> SUBSET Outcome]
ASSUME LimitAssumption    == RecursionLimit \in Nat
ASSUME ScoresAssumption   == Scores \subseteq 0..10

VARIABLES
  pc,                \* the node to run next, or how the invocation ended
  query, decomposed_query, is_general_chat, requires_case_law,
  search_required, retry_retrieval,
  documents, case_laws, generation, iteration_count,
  steps,             \* supersteps taken so far
  visited,           \* history: nodes that ran
  fallbacks          \* history: nodes that ended in _fallback

vars == <<pc, query, decomposed_query, is_general_chat, requires_case_law,
          search_required, retry_retrieval, documents, case_laws, generation,
          iteration_count, steps, visited, fallbacks>>

----------------------------------------------------------------------------
NoQuery == 0
UserQuery == 1

\* Only what calculate_max_retries looks at: is the semantic focus longer
\* than 50 characters, is there a statutory focus, is there a procedural one.
Decomposition == [long : BOOLEAN, statutory : BOOLEAN, procedural : BOOLEAN]

\* The empty dict: every .get("...", "") yields the empty string.
NotDecomposed == [long |-> FALSE, statutory |-> FALSE, procedural |-> FALSE]

RetryCap == 4

CalculateMaxRetries(d) ==
  LET bonus(b) == IF b THEN 1 ELSE 0
      retries  == 1 + bonus(d.long) + bonus(~d.statutory) + bonus(d.procedural)
  IN  IF retries > RetryCap THEN RetryCap ELSE retries

MinRelevanceScore == 5

Accepts(isRelevant, score) == isRelevant /\ score >= MinRelevanceScore

----------------------------------------------------------------------------
\* invoke_chat builds the state; ChatRequest.query has no minimum length.
Init ==
  /\ pc = "query_decomposer"
  /\ query \in {NoQuery, UserQuery}
  /\ decomposed_query = NotDecomposed
  /\ is_general_chat = FALSE
  /\ requires_case_law = FALSE
  /\ search_required = FALSE
  /\ retry_retrieval = FALSE
  /\ documents = {}
  /\ case_laws = FALSE
  /\ generation = "none"
  /\ iteration_count = 0
  /\ steps = 0
  /\ visited = {}
  /\ fallbacks = {}

\* One superstep of node n.
Step(n) ==
  /\ pc = n
  /\ steps < RecursionLimit
  /\ steps' = steps + 1
  /\ visited' = visited \cup {n}

\* Node n ran to the end of execute in one of the ways os.
Returns(n, os) ==
  /\ Step(n)
  /\ os \cap Outcomes[n] # {}
  /\ UNCHANGED fallbacks

\* Node n raised: _fallback returns {}, which updates nothing.
Fallback(n) ==
  /\ Step(n)
  /\ "escapes" \in Outcomes[n]
  /\ fallbacks' = fallbacks \cup {n}
  /\ UNCHANGED <<query, decomposed_query, is_general_chat, requires_case_law,
                 search_required, retry_retrieval, documents, case_laws,
                 generation, iteration_count>>

----------------------------------------------------------------------------
DecomposedAs(d) ==
  /\ decomposed_query' = d
  /\ pc' = "qualifier"
  /\ UNCHANGED <<query, is_general_chat, requires_case_law, search_required,
                 retry_retrieval, documents, case_laws, generation,
                 iteration_count>>

\* On a handled error the raw query becomes the semantic focus.
QueryDecomposer ==
  \/ /\ Returns("query_decomposer", {"answers"})
     /\ \E d \in Decomposition : DecomposedAs(d)
  \/ /\ Returns("query_decomposer", {"handled"})
     /\ \E long \in BOOLEAN :
          /\ long => query # NoQuery
          /\ DecomposedAs([NotDecomposed EXCEPT !.long = long])
  \/ /\ Fallback("query_decomposer")
     /\ pc' = "qualifier"

QualifierConditional(general) == IF general THEN "generator" ELSE "retriever"

Qualifier ==
  \/ /\ Returns("qualifier", {"answers"})
     /\ is_general_chat' \in BOOLEAN
     /\ requires_case_law' \in BOOLEAN
     /\ pc' = QualifierConditional(is_general_chat')
     /\ UNCHANGED <<query, decomposed_query, search_required, retry_retrieval,
                    documents, case_laws, generation, iteration_count>>
  \/ /\ Fallback("qualifier")
     /\ pc' = QualifierConditional(is_general_chat)

\* Mutant: a failing retriever leaves the documents of the last round alone.
ExhaustedDocuments_Keeps == documents

\* What the retriever returns when every attempt failed.
ExhaustedDocuments == {}

\* Five attempts with the primary embedding model, one with a fallback model:
\* "handled" is every attempt failing.  "answers" is some attempt returning
\* the chunks that dense search and BM25 found for this query.
Retriever ==
  \/ /\ \/ /\ query = NoQuery
           /\ Step("retriever")
           /\ UNCHANGED fallbacks
           /\ documents' = {}
        \/ /\ query # NoQuery
           /\ Returns("retriever", {"handled"})
           /\ documents' = ExhaustedDocuments
        \/ /\ query # NoQuery
           /\ Returns("retriever", {"answers"})
           /\ \E found \in SUBSET Chunks : documents' = {query} \X found
     /\ pc' = "reranker"
     /\ UNCHANGED <<query, decomposed_query, is_general_chat, requires_case_law,
                    search_required, retry_retrieval, case_laws, generation,
                    iteration_count>>
  \/ /\ query # NoQuery
     /\ Fallback("retriever")
     /\ pc' = "reranker"

\* Only the indices of documents it was given survive the ranking.
Reranker ==
  \/ /\ \/ /\ query = NoQuery \/ documents = {}
           /\ Step("reranker")
           /\ UNCHANGED fallbacks
           /\ documents' = documents
        \/ /\ query # NoQuery /\ documents # {}
           /\ Returns("reranker", {"handled"})
           /\ documents' = documents
        \/ /\ query # NoQuery /\ documents # {}
           /\ Returns("reranker", {"answers"})
           /\ documents' \in SUBSET documents
     /\ pc' = "grader"
     /\ UNCHANGED <<query, decomposed_query, is_general_chat, requires_case_law,
                    search_required, retry_retrieval, case_laws, generation,
                    iteration_count>>
  \/ /\ query # NoQuery /\ documents # {}
     /\ Fallback("reranker")
     /\ pc' = "grader"

\* Mutant: the edge returns the name of the flag, not of a node.
GraderConditional_Label(retry, search) ==
  IF retry THEN "retry_retrieval" ELSE IF search THEN "web_search"
                                                  ELSE "generator"

GraderConditional(retry, search) ==
  IF retry THEN "rewriter" ELSE IF search THEN "web_search" ELSE "generator"

\* The grader returned these two flags; the conditional edge reads them.
Routes(search, retry) ==
  /\ search_required' = search
  /\ retry_retrieval' = retry
  /\ pc' = GraderConditional(retry, search)
  /\ UNCHANGED <<query, decomposed_query, is_general_chat, requires_case_law,
                 documents, case_laws, generation, iteration_count>>

\* Mutant: the budget is compared with <=.
RetryOrSearch_OneMore ==
  LET retry == iteration_count <= CalculateMaxRetries(decomposed_query)
  IN  Routes(~retry, retry)

RetryOrSearch ==
  LET retry == iteration_count < CalculateMaxRetries(decomposed_query)
  IN  Routes(~retry, retry)

\* Mutant: documents are graded although case law was asked for.
Grading_IgnoresCaseLaw == query # NoQuery /\ documents # {}

\* The model is consulted only about documents for a plain legal question.
Grading == query # NoQuery /\ ~requires_case_law /\ documents # {}

\* The verdicts that need no model.
GraderHeuristics ==
  /\ ~Grading
  /\ Step("grader")
  /\ UNCHANGED fallbacks
  /\ \/ query = NoQuery /\ Routes(FALSE, FALSE)
     \/ query # NoQuery /\ requires_case_law /\ Routes(TRUE, FALSE)
     \/ query # NoQuery /\ ~requires_case_law /\ RetryOrSearch

GraderVerdict ==
  /\ Grading
  /\ Returns("grader", {"answers"})
  /\ \E isRelevant \in BOOLEAN, score \in Scores :
       IF Accepts(isRelevant, score) THEN Routes(FALSE, FALSE)
                                     ELSE RetryOrSearch

\* Mutant: a grading error is treated as "needs external sources".
GraderError_Searches ==
  /\ Grading
  /\ Returns("grader", {"handled"})
  /\ Routes(TRUE, FALSE)

\* Mutant: a grading error asks for another round whatever the budget.
GraderError_Retries ==
  /\ Grading
  /\ Returns("grader", {"handled"})
  /\ Routes(FALSE, TRUE)

GraderError ==
  /\ Grading
  /\ Returns("grader", {"handled"})
  /\ Routes(FALSE, FALSE)

\* The conditional edge reads the flags of the previous grading.
GraderFallback ==
  /\ Grading
  /\ Fallback("grader")
  /\ pc' = GraderConditional(retry_retrieval, search_required)

Grader == GraderHeuristics \/ GraderVerdict \/ GraderError \/ GraderFallback

\* Mutant: the rewriter forgets to count its round.
NextIteration_Forgotten == iteration_count

NextIteration == iteration_count + 1

\* The rewritten text may be empty once quotes and blanks are stripped.
Rewriter ==
  \/ /\ \/ /\ Returns("rewriter", {"answers"})
           /\ query' \in {NoQuery, UserQuery + NextIteration}
        \/ /\ Returns("rewriter", {"handled"})
           /\ UNCHANGED query
     /\ iteration_count' = NextIteration
     /\ pc' = "retriever"
     /\ UNCHANGED <<decomposed_query, is_general_chat, requires_case_law,
                    search_required, retry_retrieval, documents, case_laws,
                    generation>>
  \/ /\ Fallback("rewriter")
     /\ pc' = "retriever"

\* No query, a search error and an empty result all leave no case law.
WebSearch ==
  /\ Step("web_search")
  /\ case_laws' \in {FALSE, query # NoQuery}
  /\ pc' = "generator"
  /\ UNCHANGED <<query, decomposed_query, is_general_chat, requires_case_law,
                 search_required, retry_retrieval, documents, generation,
                 iteration_count, fallbacks>>

Generator ==
  \/ /\ \/ Returns("generator", {"answers"}) /\ generation' = "answer"
        \/ Returns("generator", {"handled"}) /\ generation' = "apology"
     /\ pc' = "END"
     /\ UNCHANGED <<query, decomposed_query, is_general_chat, requires_case_law,
                    search_required, retry_retrieval, documents, case_laws,
                    iteration_count>>
  \/ /\ Fallback("generator")
     /\ pc' = "END"

OutOfSteps == steps >= RecursionLimit

\* LangGraph gives up; invoke_chat answers with status 500.
GraphRecursionError ==
  /\ pc \in Nodes
  /\ OutOfSteps
  /\ pc' = "GraphRecursionError"
  /\ UNCHANGED <<query, decomposed_query, is_general_chat, requires_case_law,
                 search_required, retry_retrieval, documents, case_laws,
                 generation, iteration_count, steps, visited, fallbacks>>

Next ==
  \/ QueryDecomposer
  \/ Qualifier
  \/ Retriever
  \/ Reranker
  \/ Grader
  \/ Rewriter
  \/ WebSearch
  \/ Generator
  \/ GraphRecursionError

\* graph.invoke runs until END or an exception: a pending node does run.
Fairness == WF_vars(Next)

Spec == Init /\ [][Next]_vars /\ Fairness

----------------------------------------------------------------------------
(* Properties *)

ControlType ==
  /\ pc \in Nodes \cup {"END", "GraphRecursionError"}
  /\ query \in Nat
  /\ decomposed_query \in Decomposition
  /\ documents \subseteq (Nat \ {NoQuery}) \X Chunks
  /\ generation \in {"none", "answer", "apology"}
  /\ iteration_count \in Nat
  /\ steps \in Nat
  /\ visited \subseteq Nodes
  /\ fallbacks \subseteq FallibleNodes

FlagType ==
  /\ is_general_chat \in BOOLEAN
  /\ requires_case_law \in BOOLEAN
  /\ search_required \in BOOLEAN
  /\ retry_retrieval \in BOOLEAN
  /\ case_laws \in BOOLEAN

\* The variables stay within their types; a document carries the version of
\* a query that was asked, and never the empty one.
TypeOK == ControlType /\ FlagType

\* As long as no grading was lost to _fallback, the query is rewritten at most
\* as often as calculate_max_retries allows for its decomposition.
RetryBudget ==
  "grader" \notin fallbacks =>
    iteration_count <= CalculateMaxRetries(decomposed_query)

\* Neither a verdict nor a count of the retry loop was lost to _fallback.
RoundsKept == fallbacks \cap {"grader", "rewriter"} = {}

\* A lost grading or rewriting is the only way to a long path: otherwise the
\* invocation takes at most 23 supersteps, the longest path through four
\* retries and the web search.
NormalPathIsBounded ==
  RoundsKept =>
    steps <= 7 + 4 * CalculateMaxRetries(decomposed_query)

\* Whatever is graded, searched with or answered from was retrieved for the
\* query as it is now, not for the one before a rewrite, unless the retriever
\* itself was lost to _fallback.
FreshContext ==
  ("retriever" \notin fallbacks
     /\ pc \in {"reranker", "grader", "web_search", "generator", "END"}) =>
    \A d \in documents : d[1] = query

\* The web is searched only for case law or once the retries are used up,
\* even when some nodes failed on the way.  This is grader.py and
\* src/README.md:79-80; docs/server/agent/node/grader.md:7,18 and
\* docs/server/agent/chat_graph.md:33 send an irrelevant grading to the search
\* at once, and know no retry budget.
SearchIsLastResort ==
  "web_search" \in visited =>
    \/ requires_case_law
    \/ iteration_count >= CalculateMaxRetries(decomposed_query)

\* A non-empty question that asks for case law is never answered from the
\* statutes alone and is never rewritten, whichever nodes fail.
CaseLawIsSearched ==
  (requires_case_law /\ ~is_general_chat /\ query # NoQuery) =>
    /\ pc = "END" => "web_search" \in visited
    /\ "rewriter" \notin visited

\* The loop of grader and rewriter ends by itself, whatever the model says of
\* the documents and however the other nodes end: an invocation comes to END,
\* and is not broken off by LangGraph's recursion error, unless a grading or a
\* rewriting was lost.
EndsByItself == <>(pc = "END" \/ ~RoundsKept)

----------------------------------------------------------------------------
(* The graph as an implementation of a loop with a retry budget. *)

\* The loop depends on three of the nodes that can be lost to _fallback.
Lost == fallbacks \cap {"grader", "rewriter", "generator"} # {}

Phase ==
  IF Lost THEN "lost" ELSE
  CASE pc \in {"query_decomposer", "qualifier"}                -> "preparing"
    [] pc \in {"retriever", "reranker", "grader", "rewriter"}  -> "attempting"
    [] pc = "web_search"                                       -> "searching"
    [] pc = "generator"                                        -> "writing"
    [] pc = "END"                                              -> "answered"
    [] OTHER                                                   -> "out of steps"

Loop == INSTANCE AnswerLoop WITH
  MaxBudget <- RetryCap,
  phase     <- Phase,
  attempts  <- IF Lost THEN 0 ELSE iteration_count,
  budget    <- IF Lost THEN 1 ELSE CalculateMaxRetries(decomposed_query),
  external  <- ~Lost /\ requires_case_law /\ query # NoQuery

\* Whatever happens to the other nodes, as long as grader, rewriter and
\* generator return the graph is a bounded answer loop: it retries within the
\* budget, searches when that is used up, never runs out of steps and always
\* writes an answer.
ImplementsAnswerLoop == Loop!Spec

=============================================================================
