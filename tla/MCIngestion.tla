---------------------------- MODULE MCIngestion ----------------------------
(***************************************************************************)
(* Ingestion for TLC: the constants are plain values, given in the cfg.    *)
(* No symmetry, for a liveness property is checked.                        *)
(***************************************************************************)
EXTENDS Ingestion
=============================================================================
