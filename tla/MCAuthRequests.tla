--------------------------- MODULE MCAuthRequests ---------------------------
(***************************************************************************)
(* AuthRequests for TLC: names differ in nothing, and no liveness property  *)
(* is checked.                                                             *)
(***************************************************************************)
EXTENDS AuthRequests, TLC

NameSymmetry ==
  Permutations(Requests) \cup Permutations(Users) \cup Permutations(Tokens)
    \cup Permutations(Sessions)
=============================================================================
