------------------------------ MODULE MCRedis ------------------------------
(***************************************************************************)
(* RateLimiter and AuditLog for TLC.  The two structures share nothing, and *)
(* each property speaks of one of them, so that it is enough to let either   *)
(* one move: which, is chosen at first.                                    *)
(***************************************************************************)
EXTENDS RateLimiter, AuditLog, TLC

VARIABLE moving  \* the structure that is in use

MCInit ==
  /\ Init /\ LogInit
  /\ moving \in {"hits", "log"}

UseLimiter == moving = "hits" /\ Next /\ UNCHANGED <<logVars, moving>>
UseLog     == moving = "log" /\ LogNext /\ UNCHANGED <<vars, moving>>

MCNext == UseLimiter \/ UseLog

MCSpec == MCInit /\ [][MCNext]_<<vars, logVars, moving>>

\* Requests differ in nothing, and no liveness property is checked.
NameSymmetry == Permutations(Requests)
=============================================================================
