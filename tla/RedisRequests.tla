--------------------------- MODULE RedisRequests ---------------------------
(***************************************************************************)
(* What the models of the smaller Redis structures, the set of hits of the  *)
(* rate limiter and the list of security events, have in common: HTTP       *)
(* requests that call Redis, which may answer with an error.               *)
(***************************************************************************)
EXTENDS Integers, FiniteSets

CONSTANTS
  Requests,  \* HTTP requests, each handled once
  Failing    \* whether Redis may fail

ASSUME RequestsAssumption == IsFiniteSet(Requests)
ASSUME FailingAssumption  == Failing \in BOOLEAN
=============================================================================
