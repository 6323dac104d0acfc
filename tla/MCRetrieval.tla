---------------------------- MODULE MCRetrieval ----------------------------
(***************************************************************************)
(* Retrieval and RankFusion for TLC.  How a client gets at the store and how  *)
(* what it finds is ranked share nothing, so that either moves: which, is      *)
(* chosen at first.                                                         *)
(*                                                                         *)
(* The chain is that of the code, whose second model makes vectors of another  *)
(* dimension (4096) than the index has (1024).  There is no symmetry, for the  *)
(* sake of the liveness property.                                           *)
(***************************************************************************)
EXTENDS Retrieval, RankFusion

CONSTANTS e5, mistral, bge

FallbackModels == <<e5, mistral, bge>>

\* 1/60, 1/61 and 1/62, times their common denominator.
Reciprocals == <<3782, 3720, 3660>>

VARIABLE moving  \* which of the two is looked at

MCInit ==
  /\ RetrievalInit /\ FusionInit
  /\ \/ moving = "store" /\ results = [l \in 1 .. Lists |-> <<>>]
     \/ moving = "ranks" /\ indexExists

Retrieve == moving = "store" /\ RetrievalNext /\ UNCHANGED <<fusionVars, moving>>
Fuse     == moving = "ranks" /\ FusionNext /\ UNCHANGED <<retrievalVars, moving>>

MCNext == Retrieve \/ Fuse

\* A call comes back, or fails at its timeout, as in RetrievalSpec.
MCSpec ==
  /\ MCInit /\ [][MCNext]_<<retrievalVars, fusionVars, moving>>
  /\ \A c \in Clients : WF_retrievalVars(Proceed(c))
=============================================================================
