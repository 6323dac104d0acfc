---------------------------- MODULE MCChatGraph ----------------------------
(***************************************************************************)
(* Outcome tables for checking ChatGraph.                                  *)
(***************************************************************************)
EXTENDS ChatGraph

\* Every node may answer, fail in a way it handles, or escape; the qualifier
\* has no except clause.
AnyOutcome ==
  [n \in FallibleNodes |->
     IF n = "qualifier" THEN {"answers", "escapes"} ELSE Outcome]

\* On both sides of MinRelevanceScore and on it.
BoundaryScores == {4, 5, 6}
=============================================================================
