---------------------------- MODULE MCBm25Cache ----------------------------
(***************************************************************************)
(* Bm25Cache for TLC: the constants are plain values, given in the cfg.    *)
(***************************************************************************)
EXTENDS Bm25Cache, TLC

\* Processes and threads differ in nothing but their names, and no liveness
\* property is checked.
NameSymmetry == Permutations(Processes) \cup Permutations(Threads)
=============================================================================
