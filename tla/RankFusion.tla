----------------------------- MODULE RankFusion -----------------------------
(***************************************************************************)
(* Reciprocal rank fusion (server/agent/node/retriever.py,                   *)
(* reciprocal_rank_fusion and its call in _hybrid_retrieve): the rankings of  *)
(* the dense and of the BM25 retriever become one.  Each place of a text in a  *)
(* ranking adds to its score, the texts are sorted by score, and the first     *)
(* TopK go on to the reranker.                                              *)
(*                                                                         *)
(* A document is its page_content, which is what the code goes by: the same   *)
(* text can be in a ranking twice, for Pinecone may hold it twice.            *)
(***************************************************************************)
EXTENDS Integers, Sequences

CONSTANTS
  Texts,   \* page contents
  Lists,   \* the number of rankings
  TopK,    \* _DENSE_TOP_K and _BM25_TOP_K, which are equal
  Weight   \* 1.0 / (rank + k), as integers: all that matters is their order

ASSUME ListsAssumption == Lists \in Nat
ASSUME TopKAssumption  == TopK \in Nat
ASSUME WeightAssumption ==
  /\ Weight \in [1 .. TopK -> Nat \ {0}]
  /\ \A p, q \in 1 .. TopK : p <= q => Weight[q] <= Weight[p]

\* What a retriever may return.
Rankings == UNION {[1 .. n -> Texts] : n \in 0 .. TopK}

VARIABLES
  results,   \* results_lists
  list,      \* the ranking that is being gone through
  rank,      \* the places of it that are done with
  score,     \* fused_scores: the score of each text, zero for one not in it
  inserted,  \* its keys, in the order in which they were inserted
  fused,     \* what _hybrid_retrieve returns
  returned   \* whether it has

fusionVars == <<results, list, rank, score, inserted, fused, returned>>

FusionInit ==
  /\ results \in [1 .. Lists -> Rankings]
  /\ list = 1
  /\ rank = 0
  /\ score = [t \in Texts |-> 0]
  /\ inserted = <<>>
  /\ fused = <<>>
  /\ returned = FALSE

----------------------------------------------------------------------------
\* Mutant: the score is that of the last place.
Scored_Last(t) == score' = [score EXCEPT ![t] = Weight[rank + 1]]

\* fused_scores[key]["score"] += 1.0 / (rank + k).
Scored(t) == score' = [score EXCEPT ![t] = @ + Weight[rank + 1]]

\* One turn of the inner loop.
FuseDoc ==
  /\ list <= Lists /\ rank < Len(results[list])
  /\ LET t == results[list][rank + 1] IN
     /\ inserted' = IF score[t] = 0 THEN Append(inserted, t) ELSE inserted
     /\ Scored(t)
  /\ rank' = rank + 1
  /\ UNCHANGED <<results, list, fused, returned>>

\* One turn of the outer loop is over.
NextList ==
  /\ list <= Lists /\ rank = Len(results[list])
  /\ list' = list + 1
  /\ rank' = 0
  /\ UNCHANGED <<results, score, inserted, fused, returned>>

\* The key of the sort; sorted() is stable, with reverse too.
Precedes(i, j) ==
  \/ score[inserted[i]] > score[inserted[j]]
  \/ score[inserted[i]] = score[inserted[j]] /\ i < j

\* The rearrangements of the keys that are sorted: there is one.
SortedOrders ==
  LET Keys == 1 .. Len(inserted) IN
  {p \in [Keys -> Keys] :
     /\ \A k \in Keys : \E i \in Keys : p[i] = k
     /\ \A i, j \in Keys : i < j => Precedes(p[i], p[j])}

\* sorted, and fused[:_DENSE_TOP_K].
SortAndCut ==
  /\ list > Lists /\ ~returned
  /\ \E p \in SortedOrders :
       fused' = [i \in {k \in 1 .. TopK : k <= Len(inserted)} |-> inserted[p[i]]]
  /\ returned' = TRUE
  /\ UNCHANGED <<results, list, rank, score, inserted>>

FusionNext == FuseDoc \/ NextList \/ SortAndCut

FusionSpec == FusionInit /\ [][FusionNext]_fusionVars

----------------------------------------------------------------------------
(* Properties *)

\* d comes before e wherever e comes, and no ranking has e twice.
Outranks(d, e) ==
  /\ d # e
  /\ \A l \in 1 .. Lists : \A q \in 1 .. Len(results[l]) :
       results[l][q] = e =>
         /\ \E p \in 1 .. q - 1 : results[l][p] = d
         /\ \A p \in 1 .. q - 1 : results[l][p] # e

\* What all rankings agree on stands: a text that goes on to the reranker has in
\* front of it every text that all of them rank above it, however often these
\* occur, and whether the scores tie; and no text goes on twice, although both
\* rankings may have it, or one of them twice.
AgreementStands ==
  \A i \in DOMAIN fused :
    /\ \A j \in DOMAIN fused : fused[j] = fused[i] => j = i
    /\ \A d \in Texts : Outranks(d, fused[i]) => \E j \in DOMAIN fused : j < i /\ fused[j] = d
=============================================================================
