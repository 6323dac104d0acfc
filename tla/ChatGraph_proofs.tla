-------------------------- MODULE ChatGraph_proofs --------------------------
(***************************************************************************)
(* Proofs about ChatGraph, for every set of chunks and scores, every       *)
(* outcome table and every recursion limit.                                *)
(*                                                                         *)
(* First what each node may do to the state, one lemma per node; the       *)
(* invariants are then proved from these lemmas alone.                     *)
(***************************************************************************)
EXTENDS ChatGraph, TLAPS

\* The names of the fallible nodes, for leaves that only compare them.
LEMMA FallibleNodesAre ==
  FallibleNodes = {"query_decomposer", "qualifier", "retriever", "reranker",
                   "grader", "rewriter", "generator"}
BY DEF FallibleNodes, Nodes

\* The budget that calculate_max_retries computes is between 1 and 4.
LEMMA BudgetRange ==
  ASSUME NEW d \in Decomposition
  PROVE  CalculateMaxRetries(d) \in 1..RetryCap
BY DEF CalculateMaxRetries, Decomposition, RetryCap

\* The empty dict is a decomposition.
LEMMA NotDecomposedType == NotDecomposed \in Decomposition
BY DEF NotDecomposed, Decomposition

----------------------------------------------------------------------------
\* What a node that runs does to the counters and histories.
Ran(n) ==
  /\ pc = n
  /\ steps' = steps + 1
  /\ visited' = visited \cup {n}
  /\ fallbacks' \in {fallbacks, fallbacks \cup ({n} \cap FallibleNodes)}

\* The decomposer only settles the decomposition.
LEMMA DecomposerEffect ==
  ASSUME QueryDecomposer
  PROVE  /\ Ran("query_decomposer")
         /\ pc' = "qualifier"
         /\ decomposed_query' \in Decomposition \cup {decomposed_query}
         /\ UNCHANGED <<query, is_general_chat, requires_case_law,
                        search_required, retry_retrieval, documents,
                        case_laws, generation, iteration_count>>
<1>1. Ran("query_decomposer") /\ pc' = "qualifier"
  BY FallibleNodesAre
  DEF QueryDecomposer, DecomposedAs, Returns, Fallback, Step, Ran
<1>2. decomposed_query' \in Decomposition \cup {decomposed_query}
  BY DEF QueryDecomposer, DecomposedAs, Fallback, NotDecomposed, Decomposition
<1>3. QED
  BY <1>1, <1>2 DEF QueryDecomposer, DecomposedAs, Fallback

\* The qualifier only classifies; small talk goes to the generator.
LEMMA QualifierEffect ==
  ASSUME Qualifier
  PROVE  /\ Ran("qualifier")
         /\ pc' \in {"generator", "retriever"}
         /\ pc' = "generator" => is_general_chat'
         /\ is_general_chat' \in BOOLEAN \cup {is_general_chat}
         /\ requires_case_law' \in BOOLEAN \cup {requires_case_law}
         /\ UNCHANGED <<query, decomposed_query, search_required,
                        retry_retrieval, documents, case_laws, generation,
                        iteration_count>>
<1>1. Ran("qualifier")
  BY FallibleNodesAre DEF Qualifier, Returns, Fallback, Step, Ran
<1>2. QED
  BY <1>1 DEF Qualifier, QualifierConditional, Fallback

\* The retriever only replaces the documents, by some for the current query,
\* or is lost.
LEMMA RetrieverEffect ==
  ASSUME Retriever
  PROVE  /\ Ran("retriever")
         /\ pc' = "reranker"
         /\ \/ documents' = {}
            \/ query # NoQuery /\ documents' \subseteq {query} \X Chunks
            \/ documents' = documents /\ "retriever" \in fallbacks'
         /\ UNCHANGED <<query, decomposed_query, is_general_chat,
                        requires_case_law, search_required, retry_retrieval,
                        case_laws, generation, iteration_count>>
BY FallibleNodesAre
DEF Retriever, ExhaustedDocuments, Returns, Fallback, Step, Ran

\* The reranker only drops documents.
LEMMA RerankerEffect ==
  ASSUME Reranker
  PROVE  /\ Ran("reranker")
         /\ pc' = "grader"
         /\ documents' \subseteq documents
         /\ UNCHANGED <<query, decomposed_query, is_general_chat,
                        requires_case_law, search_required, retry_retrieval,
                        case_laws, generation, iteration_count>>
BY FallibleNodesAre DEF Reranker, Returns, Fallback, Step, Ran

\* The grader only sets the two routing flags.
LEMMA GraderEffect ==
  ASSUME Grader
  PROVE  /\ Ran("grader")
         /\ pc' \in {"rewriter", "web_search", "generator"}
         /\ UNCHANGED <<query, decomposed_query, is_general_chat,
                        requires_case_law, documents, case_laws, generation,
                        iteration_count>>
BY FallibleNodesAre
DEF Grader, GraderHeuristics, GraderVerdict, GraderError, GraderFallback,
    RetryOrSearch, Routes, GraderConditional, Returns, Fallback, Step, Ran

\* The rewriter replaces the query and counts, or is lost.
LEMMA RewriterEffect ==
  ASSUME Rewriter
  PROVE  /\ Ran("rewriter")
         /\ pc' = "retriever"
         /\ \/ /\ iteration_count' = iteration_count + 1
               /\ query' \in {query, NoQuery, UserQuery + (iteration_count + 1)}
            \/ /\ UNCHANGED <<query, iteration_count>>
               /\ "rewriter" \in fallbacks'
         /\ UNCHANGED <<decomposed_query, is_general_chat, requires_case_law,
                        search_required, retry_retrieval, documents,
                        case_laws, generation>>
BY FallibleNodesAre
DEF Rewriter, NextIteration, Returns, Fallback, Step, Ran

\* The web search only sets the case law.
LEMMA WebSearchEffect ==
  ASSUME WebSearch
  PROVE  /\ Ran("web_search")
         /\ pc' = "generator"
         /\ case_laws' \in BOOLEAN
         /\ UNCHANGED <<query, decomposed_query, is_general_chat,
                        requires_case_law, search_required, retry_retrieval,
                        documents, generation, iteration_count>>
<1>1. Ran("web_search") /\ pc' = "generator"
  BY DEF WebSearch, Step, Ran
<1>2. case_laws' \in BOOLEAN
  BY DEF WebSearch
<1>3. QED
  BY <1>1, <1>2 DEF WebSearch

\* The generator only sets the answer.
LEMMA GeneratorEffect ==
  ASSUME Generator
  PROVE  /\ Ran("generator")
         /\ pc' = "END"
         /\ generation' \in {generation, "answer", "apology"}
         /\ UNCHANGED <<query, decomposed_query, is_general_chat,
                        requires_case_law, search_required, retry_retrieval,
                        documents, case_laws, iteration_count>>
BY FallibleNodesAre DEF Generator, Returns, Fallback, Step, Ran

----------------------------------------------------------------------------
(* What the grader's two flags say. *)

\* The flags stay Boolean.
LEMMA GraderFlags ==
  ASSUME FlagType, Grader
  PROVE  search_required' \in BOOLEAN /\ retry_retrieval' \in BOOLEAN
<1>1. ASSUME NEW s \in BOOLEAN, NEW r \in BOOLEAN, Routes(s, r)
      PROVE  search_required' \in BOOLEAN /\ retry_retrieval' \in BOOLEAN
  BY <1>1 DEF Routes
<1>2. ASSUME RetryOrSearch
      PROVE  search_required' \in BOOLEAN /\ retry_retrieval' \in BOOLEAN
  BY <1>2 DEF RetryOrSearch, Routes
<1>3. CASE GraderHeuristics
  BY <1>1, <1>2, <1>3 DEF GraderHeuristics
<1>4. CASE GraderVerdict
  BY <1>1, <1>2, <1>4 DEF GraderVerdict
<1>5. CASE GraderError
  BY <1>1, <1>5 DEF GraderError
<1>6. CASE GraderFallback
  BY <1>6 DEF GraderFallback, Fallback, FlagType
<1>7. QED
  BY <1>3, <1>4, <1>5, <1>6 DEF Grader

\* A retry is within the budget, or the grading was lost.
LEMMA GraderRetries ==
  ASSUME TypeOK, Grader, pc' = "rewriter"
  PROVE  \/ iteration_count < CalculateMaxRetries(decomposed_query)
         \/ "grader" \in fallbacks'
<1> DEFINE B == CalculateMaxRetries(decomposed_query)
<1>1. iteration_count \in Nat /\ B \in Nat
  BY BudgetRange DEF TypeOK, ControlType, RetryCap
<1>2. ASSUME RetryOrSearch PROVE iteration_count < B
  BY <1>2 DEF RetryOrSearch, Routes, GraderConditional
<1>3. CASE GraderHeuristics
  <2>1. ~Routes(FALSE, FALSE) /\ ~Routes(TRUE, FALSE)
    BY DEF Routes, GraderConditional
  <2>2. QED
    BY <1>2, <1>3, <2>1 DEF GraderHeuristics
<1>4. CASE GraderVerdict
  <2>1. ~Routes(FALSE, FALSE)
    BY DEF Routes, GraderConditional
  <2>2. QED
    BY <1>2, <1>4, <2>1 DEF GraderVerdict
<1>5. CASE GraderError
  BY <1>5 DEF GraderError, Routes, GraderConditional
<1>6. CASE GraderFallback
  BY <1>6 DEF GraderFallback, Fallback
<1>7. QED
  BY <1>3, <1>4, <1>5, <1>6 DEF Grader

\* A search is asked for because of case law or a spent budget, unless the
\* flag was already set and the grading was lost.
LEMMA GraderSearches ==
  ASSUME TypeOK, Grader, pc' = "web_search" \/ search_required'
  PROVE  \/ search_required
         \/ requires_case_law
         \/ iteration_count >= CalculateMaxRetries(decomposed_query)
<1> DEFINE B == CalculateMaxRetries(decomposed_query)
<1>1. iteration_count \in Nat /\ B \in Nat
  BY BudgetRange DEF TypeOK, ControlType, RetryCap
<1>2. ~Routes(FALSE, FALSE)
  BY DEF Routes, GraderConditional
<1>3. ASSUME RetryOrSearch PROVE iteration_count >= B
  <2>1. ~(iteration_count < B)
    BY <1>3 DEF RetryOrSearch, Routes, GraderConditional
  <2>2. QED
    BY <1>1, <2>1
<1>4. CASE GraderHeuristics
  BY <1>2, <1>3, <1>4 DEF GraderHeuristics
<1>5. CASE GraderVerdict
  BY <1>2, <1>3, <1>5 DEF GraderVerdict
<1>6. CASE GraderError
  BY <1>2, <1>6 DEF GraderError
<1>7. CASE GraderFallback
  BY <1>7 DEF GraderFallback, Fallback, GraderConditional
<1>8. QED
  BY <1>4, <1>5, <1>6, <1>7 DEF Grader

\* Asked for case law, the grader needs no model and cannot be lost: it sends
\* a non-empty query to the web search and never to the rewriter.
LEMMA GraderCaseLaw ==
  ASSUME Grader, requires_case_law
  PROVE  /\ pc' # "rewriter"
         /\ ~retry_retrieval'
         /\ query # NoQuery => pc' = "web_search"
<1>1. GraderHeuristics
  BY DEF Grader, GraderVerdict, GraderError, GraderFallback, Grading
<1>2. \/ query = NoQuery /\ Routes(FALSE, FALSE)
      \/ query # NoQuery /\ Routes(TRUE, FALSE)
  BY <1>1 DEF GraderHeuristics
<1>3. QED
  BY <1>2 DEF Routes, GraderConditional

----------------------------------------------------------------------------
(* The type invariant. *)

\* The variables keep their types.
THEOREM TypeCorrect == Spec => []TypeOK
<1>1. Init => TypeOK
  <2>1. Init => ControlType
    BY NotDecomposedType DEF Init, ControlType, Nodes, NoQuery, UserQuery
  <2>2. Init => FlagType
    BY DEF Init, FlagType
  <2>3. QED
    BY <2>1, <2>2 DEF TypeOK
<1>2. TypeOK /\ [Next]_vars => TypeOK'
  <2> SUFFICES ASSUME TypeOK, [Next]_vars PROVE TypeOK'
    OBVIOUS
  <2>0. ControlType /\ FlagType
    BY DEF TypeOK
  <2>1. ASSUME NEW n \in Nodes, Ran(n)
        PROVE  steps' \in Nat /\ visited' \subseteq Nodes
                              /\ fallbacks' \subseteq FallibleNodes
    BY <2>0, <2>1 DEF ControlType, Ran
  <2>2. CASE QueryDecomposer
    <3>1. ControlType'
      BY <2>0, <2>1, <2>2, DecomposerEffect DEF ControlType, Nodes
    <3>2. FlagType'
      BY <2>0, <2>2, DecomposerEffect DEF FlagType
    <3>3. QED
      BY <3>1, <3>2 DEF TypeOK
  <2>3. CASE Qualifier
    <3>1. ControlType'
      BY <2>0, <2>1, <2>3, QualifierEffect DEF ControlType, Nodes
    <3>2. FlagType'
      BY <2>0, <2>3, QualifierEffect DEF FlagType
    <3>3. QED
      BY <3>1, <3>2 DEF TypeOK
  <2>4. CASE Retriever
    <3>1. ControlType'
      BY <2>0, <2>1, <2>4, RetrieverEffect DEF ControlType, Nodes
    <3>2. FlagType'
      BY <2>0, <2>4, RetrieverEffect DEF FlagType
    <3>3. QED
      BY <3>1, <3>2 DEF TypeOK
  <2>5. CASE Reranker
    <3>1. ControlType'
      BY <2>0, <2>1, <2>5, RerankerEffect DEF ControlType, Nodes
    <3>2. FlagType'
      BY <2>0, <2>5, RerankerEffect DEF FlagType
    <3>3. QED
      BY <3>1, <3>2 DEF TypeOK
  <2>6. CASE Grader
    <3>1. ControlType'
      BY <2>0, <2>1, <2>6, GraderEffect DEF ControlType, Nodes
    <3>2. search_required' \in BOOLEAN /\ retry_retrieval' \in BOOLEAN
      BY <2>0, <2>6, GraderFlags
    <3>3. FlagType'
      BY <2>0, <2>6, <3>2, GraderEffect DEF FlagType
    <3>4. QED
      BY <3>1, <3>3 DEF TypeOK
  <2>7. CASE Rewriter
    <3>1. query' \in Nat /\ iteration_count' \in Nat
      BY <2>0, <2>7, RewriterEffect DEF ControlType, NoQuery, UserQuery
    <3>2. ControlType'
      BY <2>0, <2>1, <2>7, <3>1, RewriterEffect DEF ControlType, Nodes
    <3>3. FlagType'
      BY <2>0, <2>7, RewriterEffect DEF FlagType
    <3>4. QED
      BY <3>2, <3>3 DEF TypeOK
  <2>8. CASE WebSearch
    <3>1. ControlType'
      BY <2>0, <2>1, <2>8, WebSearchEffect DEF ControlType, Nodes
    <3>2. FlagType'
      BY <2>0, <2>8, WebSearchEffect DEF FlagType
    <3>3. QED
      BY <3>1, <3>2 DEF TypeOK
  <2>9. CASE Generator
    <3>1. ControlType'
      BY <2>0, <2>1, <2>9, GeneratorEffect DEF ControlType, Nodes
    <3>2. FlagType'
      BY <2>0, <2>9, GeneratorEffect DEF FlagType
    <3>3. QED
      BY <3>1, <3>2 DEF TypeOK
  <2>10. CASE GraphRecursionError
    <3>1. ControlType'
      BY <2>0, <2>10 DEF GraphRecursionError, ControlType
    <3>2. FlagType'
      BY <2>0, <2>10 DEF GraphRecursionError, FlagType
    <3>3. QED
      BY <3>1, <3>2 DEF TypeOK
  <2>11. CASE UNCHANGED vars
    BY <2>0, <2>11 DEF TypeOK, ControlType, FlagType, vars
  <2>12. QED
    BY <2>2, <2>3, <2>4, <2>5, <2>6, <2>7, <2>8, <2>9, <2>10, <2>11 DEF Next
<1>3. QED
  BY <1>1, <1>2, PTL DEF Spec

----------------------------------------------------------------------------
(* The invariants.  Each is relative to TypeOK and, where the flags' initial *)
(* values matter, to what holds before the first retrieval.                *)

\* Before the first retrieval nothing has been counted, flagged or found.
BeforeRetrieval ==
  pc \in {"query_decomposer", "qualifier"} =>
    /\ iteration_count = 0
    /\ documents = {}
    /\ ~search_required
    /\ ~retry_retrieval
    /\ "web_search" \notin visited
    /\ "rewriter" \notin visited

\* Until the qualifier has run, the state invoke_chat built is untouched.
THEOREM UntouchedBeforeRetrieval == Spec => []BeforeRetrieval
<1>1. Init => BeforeRetrieval
  BY DEF Init, BeforeRetrieval
<1>2. BeforeRetrieval /\ [Next]_vars => BeforeRetrieval'
  <2> SUFFICES ASSUME BeforeRetrieval, [Next]_vars,
                      pc' \in {"query_decomposer", "qualifier"}
               PROVE  BeforeRetrieval'
    BY DEF BeforeRetrieval
  <2>1. CASE QueryDecomposer
    BY <2>1, DecomposerEffect DEF BeforeRetrieval, Ran
  <2>2. CASE UNCHANGED vars
    BY <2>2 DEF BeforeRetrieval, vars
  <2>3. CASE GraphRecursionError
    BY <2>3 DEF GraphRecursionError
  <2>4. QED
    BY <2>1, <2>2, <2>3, QualifierEffect, RetrieverEffect, RerankerEffect,
       GraderEffect, RewriterEffect, WebSearchEffect, GeneratorEffect DEF Next
<1>3. QED
  BY <1>1, <1>2, PTL DEF Spec

\* The grader lets the rewriter run only below the budget, and only the
\* rewriter counts.
RetryInv ==
  "grader" \notin fallbacks =>
    /\ iteration_count <= CalculateMaxRetries(decomposed_query)
    /\ pc = "rewriter" =>
         iteration_count < CalculateMaxRetries(decomposed_query)

\* The initial state has it.
LEMMA RetryInvInit == Init => RetryInv
BY BudgetRange, NotDecomposedType DEF Init, RetryInv, RetryCap

\* Every step keeps it.
LEMMA RetryInvStep ==
  ASSUME TypeOK, TypeOK', BeforeRetrieval, RetryInv, [Next]_vars
  PROVE  RetryInv'
<1> DEFINE B == CalculateMaxRetries(decomposed_query)
<1>1. iteration_count \in Nat /\ B \in 1..RetryCap /\ B' \in 1..RetryCap
  BY BudgetRange DEF TypeOK, ControlType
<1>2. CASE QueryDecomposer
  BY <1>1, <1>2, DecomposerEffect
  DEF RetryInv, Ran, BeforeRetrieval, RetryCap
<1>3. CASE Grader
  <2>1. pc' = "rewriter" => iteration_count < B \/ "grader" \in fallbacks'
    BY <1>3, GraderRetries
  <2>2. QED
    BY <1>3, <2>1, GraderEffect DEF RetryInv, Ran
<1>4. CASE Rewriter
  BY <1>1, <1>4, RewriterEffect DEF RetryInv, Ran, RetryCap
<1>5. CASE Qualifier
  BY <1>5, QualifierEffect DEF RetryInv, Ran
<1>6. CASE Retriever
  BY <1>6, RetrieverEffect DEF RetryInv, Ran
<1>7. CASE Reranker
  BY <1>7, RerankerEffect DEF RetryInv, Ran
<1>8. CASE WebSearch
  BY <1>8, WebSearchEffect DEF RetryInv, Ran
<1>9. CASE Generator
  BY <1>9, GeneratorEffect DEF RetryInv, Ran
<1>10. CASE GraphRecursionError
  BY <1>10 DEF GraphRecursionError, RetryInv
<1>11. CASE UNCHANGED vars
  BY <1>11 DEF vars, RetryInv
<1>12. QED
  BY <1>2, <1>3, <1>4, <1>5, <1>6, <1>7, <1>8, <1>9, <1>10, <1>11 DEF Next

\* And so at all times.
LEMMA RetryInvariant == Spec => []RetryInv
BY RetryInvInit, RetryInvStep, TypeCorrect, UntouchedBeforeRetrieval, PTL
DEF Spec

\* The query is never rewritten more often than its budget allows unless a
\* grading was lost to _fallback.
THEOREM RetriesStayInBudget == Spec => []RetryBudget
<1>1. RetryInv => RetryBudget
  BY DEF RetryInv, RetryBudget
<1>2. QED
  BY <1>1, RetryInvariant, PTL

----------------------------------------------------------------------------
\* Between a retrieval and the next rewrite the documents are the query's.
LEMMA FreshContextStep ==
  ASSUME TypeOK, BeforeRetrieval, FreshContext, [Next]_vars
  PROVE  FreshContext'
<1>1. CASE QueryDecomposer
  BY <1>1, DecomposerEffect DEF FreshContext, Ran
<1>2. CASE Qualifier
  BY <1>2, QualifierEffect DEF FreshContext, BeforeRetrieval, Ran
<1>3. CASE Retriever
  <2>1. CASE documents' = documents /\ "retriever" \in fallbacks'
    BY <2>1 DEF FreshContext
  <2>2. CASE documents' = {}
    BY <2>2 DEF FreshContext
  <2>3. CASE documents' \subseteq {query} \X Chunks
    <3>1. query' = query
      BY <1>3, RetrieverEffect
    <3>2. \A d \in documents' : d[1] = query
      BY <2>3
    <3>3. QED
      BY <3>1, <3>2 DEF FreshContext
  <2>4. QED
    BY <1>3, <2>1, <2>2, <2>3, RetrieverEffect
<1>4. CASE Reranker
  BY <1>4, RerankerEffect DEF FreshContext, Ran
<1>5. CASE Grader
  BY <1>5, GraderEffect DEF FreshContext, Ran
<1>6. CASE Rewriter
  BY <1>6, RewriterEffect DEF FreshContext
<1>7. CASE WebSearch
  BY <1>7, WebSearchEffect DEF FreshContext, Ran
<1>8. CASE Generator
  BY <1>8, GeneratorEffect DEF FreshContext, Ran
<1>9. CASE GraphRecursionError
  BY <1>9 DEF GraphRecursionError, FreshContext
<1>10. CASE UNCHANGED vars
  BY <1>10 DEF vars, FreshContext
<1>11. QED
  BY <1>1, <1>2, <1>3, <1>4, <1>5, <1>6, <1>7, <1>8, <1>9, <1>10 DEF Next

\* What is graded and answered from was retrieved for the current query.
THEOREM ContextIsFresh == Spec => []FreshContext
<1>1. Init => FreshContext
  BY DEF Init, FreshContext
<1>2. QED
  BY <1>1, FreshContextStep, TypeCorrect, UntouchedBeforeRetrieval, PTL
  DEF Spec

----------------------------------------------------------------------------
SearchReason ==
  requires_case_law \/ iteration_count >= CalculateMaxRetries(decomposed_query)

\* The flag, the node and the history of the search all have the reason.
SearchInv ==
  (search_required \/ pc = "web_search" \/ "web_search" \in visited) =>
    SearchReason

\* Once there is a reason to search it stays: the classification and the
\* decomposition are over, and the count only grows.
LEMMA SearchInvStep ==
  ASSUME TypeOK, TypeOK', BeforeRetrieval, SearchInv, [Next]_vars
  PROVE  SearchInv'
<1> DEFINE B == CalculateMaxRetries(decomposed_query)
<1>1. iteration_count \in Nat /\ B \in 1..RetryCap
  BY BudgetRange DEF TypeOK, ControlType
<1>2. CASE QueryDecomposer
  BY <1>2, DecomposerEffect DEF SearchInv, Ran, BeforeRetrieval
<1>3. CASE Qualifier
  BY <1>3, QualifierEffect DEF SearchInv, Ran, BeforeRetrieval
<1>4. CASE Retriever
  BY <1>4, RetrieverEffect DEF SearchInv, SearchReason, Ran
<1>5. CASE Reranker
  BY <1>5, RerankerEffect DEF SearchInv, SearchReason, Ran
<1>6. CASE Grader
  <2>1. SearchReason' <=> SearchReason
    BY <1>6, GraderEffect DEF SearchReason
  <2>2. (pc' = "web_search" \/ search_required') =>
          search_required \/ SearchReason
    BY <1>6, GraderSearches DEF SearchReason
  <2>3. "web_search" \in visited' => "web_search" \in visited
    BY <1>6, GraderEffect DEF Ran
  <2>4. QED
    BY <2>1, <2>2, <2>3 DEF SearchInv
<1>7. CASE Rewriter
  <2>1. iteration_count' \in {iteration_count, iteration_count + 1}
    BY <1>7, RewriterEffect
  <2>2. SearchReason => SearchReason'
    BY <1>1, <1>7, <2>1, RewriterEffect DEF SearchReason, RetryCap
  <2>3. QED
    BY <1>7, <2>2, RewriterEffect DEF SearchInv, Ran
<1>8. CASE WebSearch
  BY <1>8, WebSearchEffect DEF SearchInv, SearchReason, Ran
<1>9. CASE Generator
  BY <1>9, GeneratorEffect DEF SearchInv, SearchReason, Ran
<1>10. CASE GraphRecursionError
  BY <1>10 DEF GraphRecursionError, SearchInv, SearchReason
<1>11. CASE UNCHANGED vars
  BY <1>11 DEF vars, SearchInv, SearchReason
<1>12. QED
  BY <1>2, <1>3, <1>4, <1>5, <1>6, <1>7, <1>8, <1>9, <1>10, <1>11 DEF Next

\* Whatever fails on the way, the web is searched for case law or when the
\* retries are used up, and for no other reason.
THEOREM WebSearchIsLastResort == Spec => []SearchIsLastResort
<1>1. Init => SearchInv
  BY DEF Init, SearchInv
<1>2. SearchInv => SearchIsLastResort
  BY DEF SearchInv, SearchReason, SearchIsLastResort
<1>3. Spec => []SearchInv
  BY <1>1, SearchInvStep, TypeCorrect, UntouchedBeforeRetrieval, PTL DEF Spec
<1>4. QED
  BY <1>2, <1>3, PTL

----------------------------------------------------------------------------
\* A case-law question is on its way to the web search and nowhere else.
CaseLawInv ==
  requires_case_law =>
    /\ ~retry_retrieval
    /\ pc # "rewriter"
    /\ "rewriter" \notin visited
    /\ (~is_general_chat /\ query # NoQuery /\ pc \in {"generator", "END"}) =>
         "web_search" \in visited

\* Every step keeps it.
LEMMA CaseLawInvStep ==
  ASSUME BeforeRetrieval, CaseLawInv, [Next]_vars
  PROVE  CaseLawInv'
<1>1. CASE QueryDecomposer
  BY <1>1, DecomposerEffect DEF CaseLawInv, Ran
<1>2. CASE Qualifier
  BY <1>2, QualifierEffect DEF CaseLawInv, Ran, BeforeRetrieval
<1>3. CASE Retriever
  BY <1>3, RetrieverEffect DEF CaseLawInv, Ran
<1>4. CASE Reranker
  BY <1>4, RerankerEffect DEF CaseLawInv, Ran
<1>5. CASE Grader
  BY <1>5, GraderEffect, GraderCaseLaw DEF CaseLawInv, Ran
<1>6. CASE Rewriter
  BY <1>6, RewriterEffect DEF CaseLawInv, Ran
<1>7. CASE WebSearch
  BY <1>7, WebSearchEffect DEF CaseLawInv, Ran
<1>8. CASE Generator
  BY <1>8, GeneratorEffect DEF CaseLawInv, Ran
<1>9. CASE GraphRecursionError
  BY <1>9 DEF GraphRecursionError, CaseLawInv
<1>10. CASE UNCHANGED vars
  BY <1>10 DEF vars, CaseLawInv
<1>11. QED
  BY <1>1, <1>2, <1>3, <1>4, <1>5, <1>6, <1>7, <1>8, <1>9, <1>10 DEF Next

\* No failure makes the graph answer a case-law question without searching.
THEOREM CaseLawAlwaysSearched == Spec => []CaseLawIsSearched
<1>1. Init => CaseLawInv
  BY DEF Init, CaseLawInv
<1>2. CaseLawInv => CaseLawIsSearched
  BY DEF CaseLawInv, CaseLawIsSearched
<1>3. Spec => []CaseLawInv
  BY <1>1, CaseLawInvStep, UntouchedBeforeRetrieval, PTL DEF Spec
<1>4. QED
  BY <1>2, <1>3, PTL

----------------------------------------------------------------------------
\* Where the count of supersteps stands when no round was lost.
PathInv ==
  fallbacks \cap {"grader", "rewriter"} = {} =>
    /\ pc = "query_decomposer"       => steps = 0
    /\ pc = "qualifier"              => steps = 1
    /\ pc = "retriever"              => steps = 2 + 4 * iteration_count
    /\ pc = "reranker"               => steps = 3 + 4 * iteration_count
    /\ pc = "grader"                 => steps = 4 + 4 * iteration_count
    /\ pc \in {"rewriter", "web_search"} => steps = 5 + 4 * iteration_count
    /\ pc = "generator"              => steps <= 6 + 4 * iteration_count
    /\ pc \in {"END", "GraphRecursionError"} =>
                                        steps <= 7 + 4 * iteration_count

\* Every step keeps it.
LEMMA PathInvStep ==
  ASSUME TypeOK, BeforeRetrieval, PathInv, [Next]_vars
  PROVE  PathInv'
<1>1. steps \in Nat /\ iteration_count \in Nat
  BY DEF TypeOK, ControlType
<1>2. CASE QueryDecomposer
  BY <1>1, <1>2, DecomposerEffect DEF PathInv, Ran
<1>3. CASE Qualifier
  BY <1>1, <1>3, QualifierEffect DEF PathInv, Ran, BeforeRetrieval
<1>4. CASE Retriever
  BY <1>1, <1>4, RetrieverEffect DEF PathInv, Ran
<1>5. CASE Reranker
  BY <1>1, <1>5, RerankerEffect DEF PathInv, Ran
<1>6. CASE Grader
  BY <1>1, <1>6, GraderEffect DEF PathInv, Ran
<1>7. CASE Rewriter
  BY <1>1, <1>7, RewriterEffect DEF PathInv, Ran
<1>8. CASE WebSearch
  BY <1>1, <1>8, WebSearchEffect DEF PathInv, Ran
<1>9. CASE Generator
  BY <1>1, <1>9, GeneratorEffect DEF PathInv, Ran
<1>10. CASE GraphRecursionError
  BY <1>1, <1>10 DEF GraphRecursionError, PathInv, BeforeRetrieval, Nodes
<1>11. CASE UNCHANGED vars
  BY <1>11 DEF vars, PathInv
<1>12. QED
  BY <1>2, <1>3, <1>4, <1>5, <1>6, <1>7, <1>8, <1>9, <1>10, <1>11 DEF Next

\* Without a lost grading or rewriting the path is as short as the budget
\* says: a recursion limit of 23 supersteps is never reached.
THEOREM PathIsBounded == Spec => []NormalPathIsBounded
<1>1. Init => PathInv
  BY DEF Init, PathInv
<1>2. Spec => []PathInv
  BY <1>1, PathInvStep, TypeCorrect, UntouchedBeforeRetrieval, PTL DEF Spec
<1>3. TypeOK /\ PathInv /\ RetryInv => NormalPathIsBounded
  <2> SUFFICES ASSUME TypeOK, PathInv, RetryInv,
                      fallbacks \cap {"grader", "rewriter"} = {}
               PROVE  steps <= 7 + 4 * CalculateMaxRetries(decomposed_query)
    BY DEF NormalPathIsBounded, RoundsKept
  <2> DEFINE B == CalculateMaxRetries(decomposed_query)
  <2>1. steps \in Nat /\ iteration_count \in Nat /\ B \in Nat
    BY BudgetRange DEF TypeOK, ControlType, RetryCap
  <2>2. iteration_count <= B
    BY DEF RetryInv
  <2>3. steps <= 7 + 4 * iteration_count
    BY <2>1 DEF PathInv, TypeOK, ControlType, Nodes
  <2> HIDE DEF B
  <2>4. steps <= 7 + 4 * B
    BY <2>1, <2>2, <2>3
  <2>5. QED
    BY <2>4 DEF B
<1>4. QED
  BY <1>2, <1>3, TypeCorrect, RetryInvariant, PTL

----------------------------------------------------------------------------
(* The retry loop ends by itself. *)

\* The longest path of a graph that keeps its rounds fits into the limit.
LongEnough == RecursionLimit >= 7 + 4 * RetryCap

\* The supersteps that the retry loop may still take: those up to the answer,
\* and four for each round that the budget has left.
RoundsLeft ==
  LET rounds == 4 * (CalculateMaxRetries(decomposed_query) - iteration_count)
  IN  CASE pc = "query_decomposer" -> 8 + 4 * RetryCap
        [] pc = "qualifier"        -> 6 + rounds
        [] pc = "retriever"        -> 5 + rounds
        [] pc = "reranker"         -> 4 + rounds
        [] pc = "grader"           -> 3 + rounds
        [] pc = "rewriter"         -> 2 + rounds
        [] pc = "web_search"       -> 2
        [] pc = "generator"        -> 1
        [] OTHER                   -> 0

\* While no round is lost, there is a natural number of them left and the
\* invocation is not broken off.
LoopIsShort ==
  RoundsKept => RoundsLeft \in Nat /\ pc # "GraphRecursionError"

\* The second half, which is inductive.
NotBrokenOff == RoundsKept => pc # "GraphRecursionError"

\* Every node takes the invocation closer to its end, or is lost.
RoundsRunOut == [][RoundsKept' => RoundsLeft' < RoundsLeft]_vars

\* A lost round stays lost.
LEMMA RoundsStayLost ==
  ASSUME [Next]_vars, RoundsKept'
  PROVE  RoundsKept
<1>1. fallbacks \subseteq fallbacks'
  BY DecomposerEffect, QualifierEffect, RetrieverEffect, RerankerEffect,
     GraderEffect, RewriterEffect, WebSearchEffect, GeneratorEffect
  DEF Next, GraphRecursionError, vars, Ran
<1>2. QED
  BY <1>1 DEF RoundsKept

\* A graph that keeps its rounds reaches no node without steps left for it.
LEMMA StepsAreLeft ==
  ASSUME LongEnough, TypeOK, PathInv, RetryInv, RoundsKept, pc \in Nodes
  PROVE  ~OutOfSteps
<1> DEFINE B == CalculateMaxRetries(decomposed_query)
<1>1. /\ steps \in Nat /\ iteration_count \in Nat
      /\ B \in 1..RetryCap /\ RecursionLimit \in Nat
  BY BudgetRange, LimitAssumption DEF TypeOK, ControlType
<1>2. fallbacks \cap {"grader", "rewriter"} = {} /\ "grader" \notin fallbacks
  BY DEF RoundsKept
<1>3. iteration_count <= B
  BY <1>2 DEF RetryInv
<1>4. steps <= 6 + 4 * iteration_count
  BY <1>1, <1>2 DEF PathInv, Nodes
<1> HIDE DEF B
<1>5. QED
  BY <1>1, <1>3, <1>4 DEF OutOfSteps, LongEnough, RetryCap

\* The measure is a natural number, because the budget is not overdrawn.
LEMMA RoundsLeftIsNat ==
  ASSUME TypeOK, RetryInv, RoundsKept
  PROVE  RoundsLeft \in Nat
<1> DEFINE B == CalculateMaxRetries(decomposed_query)
<1>1. iteration_count \in Nat /\ B \in 1..RetryCap
  BY BudgetRange DEF TypeOK, ControlType
<1>2. iteration_count <= B
  BY DEF RetryInv, RoundsKept
<1> HIDE DEF B
<1>3. 4 * (B - iteration_count) \in Nat
  BY <1>1, <1>2 DEF RetryCap
<1>4. QED
  BY <1>3 DEF RoundsLeft, RetryCap, B

\* A node that keeps its round makes it smaller.
LEMMA FewerRounds ==
  ASSUME LongEnough, TypeOK, BeforeRetrieval, PathInv, RetryInv,
         TypeOK', RetryInv', RoundsKept', Next
  PROVE  RoundsLeft' < RoundsLeft /\ pc' # "GraphRecursionError"
<1> DEFINE B == CalculateMaxRetries(decomposed_query)
<1> DEFINE i == iteration_count
<1>0. RoundsKept /\ "grader" \notin fallbacks /\ "rewriter" \notin fallbacks'
  BY RoundsStayLost DEF RoundsKept
<1>1. i \in Nat /\ i' \in Nat /\ B \in 1..RetryCap /\ B' \in 1..RetryCap
  BY BudgetRange DEF TypeOK, ControlType
<1>2. i <= B /\ (pc = "rewriter" => i < B)
  BY <1>0 DEF RetryInv
<1>3. CASE QueryDecomposer
  <2>1. pc = "query_decomposer" /\ pc' = "qualifier"
    BY <1>3, DecomposerEffect DEF Ran
  <2>2. RoundsLeft = 8 + 4 * RetryCap
    BY <2>1 DEF RoundsLeft
  <2>3. PICK b \in 1..RetryCap, j \in Nat : RoundsLeft' = 6 + 4 * (b - j)
    BY <1>1, <2>1 DEF RoundsLeft
  <2>4. QED
    BY <2>1, <2>2, <2>3 DEF RetryCap
<1>4. ASSUME NEW b, NEW j, b = B, j = i, B' = b, i' = j,
             \/ /\ pc = "qualifier"
                /\ pc' \in {"generator", "retriever"}
             \/ pc = "retriever" /\ pc' = "reranker"
             \/ pc = "reranker" /\ pc' = "grader"
             \/ /\ pc = "grader"
                /\ pc' \in {"rewriter", "web_search", "generator"}
             \/ pc = "web_search" /\ pc' = "generator"
             \/ pc = "generator" /\ pc' = "END"
      PROVE  RoundsLeft' < RoundsLeft
  <2>1. j \in Nat /\ b \in Nat /\ j <= b
    BY <1>1, <1>2, <1>4 DEF RetryCap
  <2>2. CalculateMaxRetries(decomposed_query) = b /\ iteration_count = j
    BY <1>4
  <2>3. CalculateMaxRetries(decomposed_query') = b /\ iteration_count' = j
    BY <1>4
  <2> HIDE DEF B, i
  <2>4. QED
    BY <1>4, <2>1, <2>2, <2>3 DEF RoundsLeft
<1>5. CASE Qualifier \/ Retriever \/ Reranker \/ Grader \/ WebSearch \/ Generator
  <2>1. B' = B /\ i' = i /\ pc' # "GraphRecursionError"
    BY <1>5, QualifierEffect, RetrieverEffect, RerankerEffect, GraderEffect,
       WebSearchEffect, GeneratorEffect
  <2>2. QED
    BY <1>4, <1>5, <2>1, QualifierEffect, RetrieverEffect, RerankerEffect, GraderEffect,
       WebSearchEffect, GeneratorEffect DEF Ran
<1>6. CASE Rewriter
  <2>1. pc = "rewriter" /\ pc' = "retriever" /\ B' = B /\ i' = i + 1
    BY <1>0, <1>6, RewriterEffect DEF Ran
  <2>2. RoundsLeft = 2 + 4 * (B - i) /\ RoundsLeft' = 5 + 4 * (B' - i')
    BY <2>1 DEF RoundsLeft
  <2> HIDE DEF B, i
  <2>3. QED
    BY <1>1, <2>1, <2>2 DEF RetryCap
<1>7. CASE GraphRecursionError
  BY <1>0, <1>7, StepsAreLeft DEF GraphRecursionError
<1>8. QED
  BY <1>3, <1>5, <1>6, <1>7 DEF Next

\* The loop of grader and rewriter ends by itself, whatever the model says of
\* the documents and however the other nodes end: every node that runs takes
\* the invocation closer to END, by the budget and its count, and LangGraph's
\* limit is not reached, as long as no grading or rewriting is lost.  With the
\* fairness of graph.invoke this is EndsByItself.
THEOREM RetryLoopEnds ==
  ASSUME LongEnough
  PROVE  Spec => []LoopIsShort /\ RoundsRunOut
<1>1. Init => NotBrokenOff /\ PathInv
  BY DEF Init, NotBrokenOff, PathInv
<1>2. ASSUME TypeOK, BeforeRetrieval, PathInv, RetryInv, NotBrokenOff,
             TypeOK', RetryInv', [Next]_vars
      PROVE  NotBrokenOff' /\ [RoundsKept' => RoundsLeft' < RoundsLeft]_vars
  <2>1. CASE UNCHANGED vars
    BY <1>2, <2>1 DEF NotBrokenOff, RoundsKept, vars
  <2>2. CASE Next
    BY <1>2, <2>2, FewerRounds DEF NotBrokenOff
  <2>3. QED
    BY <1>2, <2>1, <2>2
<1>3. Spec => []PathInv
  BY <1>1, PathInvStep, TypeCorrect, UntouchedBeforeRetrieval, PTL DEF Spec
<1>4. TypeOK /\ RetryInv /\ NotBrokenOff => LoopIsShort
  BY RoundsLeftIsNat DEF NotBrokenOff, LoopIsShort
<1>5. QED
  BY <1>1, <1>2, <1>3, <1>4, TypeCorrect, UntouchedBeforeRetrieval, RetryInvariant, PTL
  DEF Spec, RoundsRunOut

----------------------------------------------------------------------------
(* The graph implements the loop with a retry budget, as far as its steps go. *)

\* What is lost stays lost.
LEMMA LostStays ==
  ASSUME [Next]_vars, Lost
  PROVE  Lost'
<1>1. fallbacks \subseteq fallbacks'
  BY DecomposerEffect, QualifierEffect, RetrieverEffect, RerankerEffect,
     GraderEffect, RewriterEffect, WebSearchEffect, GeneratorEffect
  DEF Next, GraphRecursionError, vars, Ran
<1>2. QED
  BY <1>1 DEF Lost

\* A grading that is not lost searches for case law, or with the budget spent.
LEMMA GraderGivesUp ==
  ASSUME TypeOK, Grader, pc' = "web_search", "grader" \notin fallbacks'
  PROVE  \/ requires_case_law /\ query # NoQuery
         \/ iteration_count >= CalculateMaxRetries(decomposed_query)
<1> DEFINE B == CalculateMaxRetries(decomposed_query)
<1>1. iteration_count \in Nat /\ B \in Nat
  BY BudgetRange DEF TypeOK, ControlType, RetryCap
<1>2. ~Routes(FALSE, FALSE)
  BY DEF Routes, GraderConditional
<1>3. ASSUME RetryOrSearch PROVE iteration_count >= B
  <2>1. ~(iteration_count < B)
    BY <1>3 DEF RetryOrSearch, Routes, GraderConditional
  <2>2. QED
    BY <1>1, <2>1
<1>4. CASE GraderHeuristics
  BY <1>2, <1>3, <1>4 DEF GraderHeuristics
<1>5. CASE GraderVerdict
  BY <1>2, <1>3, <1>5 DEF GraderVerdict
<1>6. CASE GraderError
  BY <1>2, <1>6 DEF GraderError
<1>7. CASE GraderFallback
  BY <1>7 DEF GraderFallback, Fallback
<1>8. QED
  BY <1>4, <1>5, <1>6, <1>7 DEF Grader

\* The abstract variables, as long as nothing is lost.
LEMMA WhileKept ==
  ASSUME ~Lost
  PROVE  /\ pc \in {"query_decomposer", "qualifier"} => Phase = "preparing"
         /\ pc \in {"retriever", "reranker", "grader", "rewriter"} => Phase = "attempting"
         /\ pc = "web_search" => Phase = "searching"
         /\ pc = "generator" => Phase = "writing"
         /\ pc = "END" => Phase = "answered"
BY DEF Phase

\* Once something is lost, the abstract state is the one that Lose leaves.
LEMMA OnceLost ==
  ASSUME Lost
  PROVE  Phase = "lost"
BY DEF Phase

\* Every step is one of the loop, or none.
LEMMA LoopStep ==
  ASSUME LongEnough, TypeOK, TypeOK', BeforeRetrieval, RetryInv, CaseLawInv, PathInv,
         [Next]_vars
  PROVE  [Loop!Next]_(Loop!vars)
<1> USE DEF Loop!Next, Loop!vars
<1> DEFINE B == CalculateMaxRetries(decomposed_query)
<1>1. /\ iteration_count \in Nat /\ iteration_count' \in Nat
      /\ B \in 1..RetryCap /\ B' \in 1..RetryCap
      /\ requires_case_law \in BOOLEAN /\ requires_case_law' \in BOOLEAN
  BY BudgetRange DEF TypeOK, ControlType, FlagType
<1>2. CASE Lost
  <2>1. Lost'
    BY <1>2, LostStays
  <2>2. Phase = "lost" /\ Phase' = "lost"
    BY <1>2, <2>1, OnceLost DEF Phase
  <2>3. QED
    BY <1>2, <2>1, <2>2
<1>3. CASE ~Lost /\ Lost'
  <2>1. pc \in {"grader", "rewriter", "generator"}
    BY <1>3, DecomposerEffect, QualifierEffect, RetrieverEffect, RerankerEffect,
       WebSearchEffect, GraderEffect, RewriterEffect, GeneratorEffect
    DEF Next, GraphRecursionError, vars, Ran, Lost
  <2>2. Phase \in {"attempting", "writing"} /\ Phase' = "lost"
    BY <1>3, <2>1, WhileKept DEF Phase
  <2>3. Loop!Lose
    BY <1>3, <2>2 DEF Loop!Lose
  <2>4. QED
    BY <2>3
<1>4. CASE ~Lost /\ ~Lost'
  <2> USE <1>4
  <2>0. "grader" \notin fallbacks' /\ "rewriter" \notin fallbacks' /\ "grader" \notin fallbacks
    BY DEF Lost
  <2>1. CASE QueryDecomposer
    <3>1. /\ Phase = "preparing" /\ Phase' = "preparing"
          /\ UNCHANGED <<query, requires_case_law, iteration_count>>
      BY <2>1, DecomposerEffect DEF Ran, Phase
    <3>2. Loop!Analyse
      BY <1>1, <3>1 DEF Loop!Analyse
    <3>3. QED
      BY <3>2
  <2>2. CASE Qualifier
    <3>1. /\ Phase = "preparing" /\ Phase' \in {"attempting", "writing"}
          /\ UNCHANGED <<query, decomposed_query, iteration_count>>
      BY <2>2, QualifierEffect DEF Ran, Phase
    <3>2. Loop!Classify
      BY <1>1, <3>1 DEF Loop!Classify
    <3>3. QED
      BY <3>2
  <2>3. CASE Retriever
    <3>1. /\ Phase = "attempting" /\ Phase' = "attempting"
          /\ UNCHANGED <<query, decomposed_query, requires_case_law, iteration_count>>
      BY <2>3, RetrieverEffect DEF Ran, Phase
    <3>2. QED
      BY <3>1
  <2>4. CASE Reranker
    <3>1. /\ Phase = "attempting" /\ Phase' = "attempting"
          /\ UNCHANGED <<query, decomposed_query, requires_case_law, iteration_count>>
      BY <2>4, RerankerEffect DEF Ran, Phase
    <3>2. QED
      BY <3>1
  <2>5. CASE Grader
    <3>1. /\ Phase = "attempting"
          /\ UNCHANGED <<query, decomposed_query, requires_case_law, iteration_count>>
      BY <2>5, GraderEffect DEF Ran, Phase
    <3>2. CASE pc' = "rewriter"
      <4>1. Phase' = "attempting"
        BY <3>2 DEF Phase
      <4>2. QED
        BY <3>1, <4>1
    <3>3. CASE pc' = "web_search"
      <4>1. Phase' = "searching"
        BY <3>3 DEF Phase
      <4>2. (requires_case_law /\ query # NoQuery) \/ iteration_count = B
        BY <1>1, <2>0, <2>5, <3>3, GraderGivesUp DEF RetryInv, RetryCap
      <4>3. Loop!GiveUp
        BY <3>1, <4>1, <4>2 DEF Loop!GiveUp
      <4>4. QED
        BY <4>3
    <3>4. CASE pc' = "generator"
      <4>1. Phase' = "writing"
        BY <3>4 DEF Phase
      <4>2. ~(requires_case_law /\ query # NoQuery)
        BY <2>5, <3>4, GraderCaseLaw
      <4>3. Loop!Accept
        BY <3>1, <4>1, <4>2 DEF Loop!Accept
      <4>4. QED
        BY <4>3
    <3>5. QED
      BY <2>5, <3>2, <3>3, <3>4, GraderEffect
  <2>6. CASE Rewriter
    <3>1. /\ Phase = "attempting" /\ Phase' = "attempting"
          /\ iteration_count' = iteration_count + 1
          /\ UNCHANGED <<decomposed_query, requires_case_law>>
      BY <2>0, <2>6, RewriterEffect DEF Ran, Phase
    <3>2. ~requires_case_law /\ iteration_count < B
      BY <2>0, <2>6, RewriterEffect DEF Ran, CaseLawInv, RetryInv
    <3>3. Loop!Retry
      BY <3>1, <3>2 DEF Loop!Retry
    <3>4. QED
      BY <3>3
  <2>7. CASE WebSearch
    <3>1. /\ Phase = "searching" /\ Phase' = "writing"
          /\ UNCHANGED <<query, decomposed_query, requires_case_law, iteration_count>>
      BY <2>7, WebSearchEffect DEF Ran, Phase
    <3>2. Loop!Search
      BY <3>1 DEF Loop!Search
    <3>3. QED
      BY <3>2
  <2>8. CASE Generator
    <3>1. /\ Phase = "writing" /\ Phase' = "answered"
          /\ UNCHANGED <<query, decomposed_query, requires_case_law, iteration_count>>
      BY <2>8, GeneratorEffect DEF Ran, Phase
    <3>2. Loop!Write
      BY <3>1 DEF Loop!Write
    <3>3. QED
      BY <3>2
  <2>9. CASE GraphRecursionError
    BY <2>9, StepsAreLeft DEF GraphRecursionError, Lost, RoundsKept
  <2>10. CASE UNCHANGED vars
    BY <2>10 DEF vars, Phase
  <2>11. QED
    BY <2>1, <2>2, <2>3, <2>4, <2>5, <2>6, <2>7, <2>8, <2>9, <2>10 DEF Next
<1>5. QED
  BY <1>2, <1>3, <1>4

\* The graph starts where the loop does.
LEMMA LoopInit == Init => Loop!Init
<1> SUFFICES ASSUME Init PROVE Loop!Init
  OBVIOUS
<1>1. ~Lost /\ Phase = "preparing"
  BY DEF Init, Lost, Phase
<1>2. CalculateMaxRetries(decomposed_query) \in 1..RetryCap
  BY BudgetRange, NotDecomposedType DEF Init
<1>3. QED
  BY <1>1, <1>2 DEF Init, Loop!Init

\* With the recursion limit out of the way, every invocation behaves as the
\* bounded loop does, whichever nodes fail and however they do: the safety part
\* of ImplementsAnswerLoop.
THEOREM StaysInAnswerLoop ==
  ASSUME LongEnough
  PROVE  Spec => Loop!Safety
<1>1. Init => CaseLawInv /\ PathInv
  BY DEF Init, CaseLawInv, PathInv
<1>2. Spec => []CaseLawInv
  BY <1>1, CaseLawInvStep, UntouchedBeforeRetrieval, PTL DEF Spec
<1>3. Spec => []PathInv
  BY <1>1, PathInvStep, TypeCorrect, UntouchedBeforeRetrieval, PTL DEF Spec
<1>4. QED
  BY <1>2, <1>3, LoopInit, LoopStep, TypeCorrect, UntouchedBeforeRetrieval,
     RetryInvariant, PTL
  DEF Spec, Loop!Safety
=============================================================================
