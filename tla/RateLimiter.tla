---------------------------- MODULE RateLimiter ----------------------------
(***************************************************************************)
(* The sliding window of server/auth/rate_limiter.py for one endpoint and   *)
(* one client: a sorted set in Redis with a member for each hit, and the    *)
(* script that cleans, counts and adds (server/auth/redis_client.py), for   *)
(* requests whose calls of the script may pass each other and take time.    *)
(*                                                                         *)
(* Sets of other endpoints and clients are apart from this one.  What the   *)
(* handler does after it is in Accounts and AuthRequests.                   *)
(***************************************************************************)
EXTENDS RedisRequests

CONSTANTS
  Limit,        \* hits allowed in a window
  Window,       \* the length of a window
  Slack,        \* by how much the set outlives the window
  Draws,        \* the random numbers a hit may draw
  MaxTime,      \* bound on the clock
  MaxInFlight   \* requests before their verdict at the same time

ASSUME LimitAssumption    == Limit \in Nat \ {0}
ASSUME WindowAssumption   == Window \in Nat \ {0} /\ Slack \in Nat \ {0}
ASSUME DrawsAssumption    == Draws # {}
ASSUME MaxTimeAssumption  == MaxTime \in Nat
ASSUME InFlightAssumption == MaxInFlight \in Nat \ {0}

VARIABLES
  now,      \* the time on the clock
  hits,     \* the members of the set: the time of a hit, and what it drew
  hitsEnd,  \* until when Redis keeps the set; 0 when there is none
  stamp,    \* the time each request gives the script
  verdict,  \* where each request is, and what the limiter made of it
  odd       \* history: requests whose hit replaced one, or whose script ran late

vars == <<now, hits, hitsEnd, stamp, verdict, odd>>

----------------------------------------------------------------------------
InFlight == {r \in Requests : verdict[r] = "asked"}

\* The script ran for the request; and it added a hit, whether or not the
\* handler heard of it.
Ran(r)     == verdict[r] \in {"allowed", "refused", "counted", "overruled"}
Counted(r) == verdict[r] \in {"allowed", "counted"}

Init ==
  /\ now = 0
  /\ hits = {} /\ hitsEnd = 0
  /\ stamp = [r \in Requests |-> 0]
  /\ verdict = [r \in Requests |-> "none"]
  /\ odd = {}

\* Time goes on, and Redis drops the set when it ends.
Tick ==
  /\ now < MaxTime
  /\ now' = now + 1
  /\ hits' = IF hitsEnd <= now' THEN {} ELSE hits
  /\ hitsEnd' = IF hitsEnd <= now' THEN 0 ELSE hitsEnd
  /\ UNCHANGED <<stamp, verdict, odd>>

\* auth_rate_limit_dependency, and check_rate_limit up to the script: the time
\* is taken before.
Ask(r) ==
  /\ verdict[r] = "none"
  /\ Cardinality(InFlight) < MaxInFlight
  /\ stamp' = [stamp EXCEPT ![r] = now]
  /\ verdict' = [verdict EXCEPT ![r] = "asked"]
  /\ UNCHANGED <<now, hits, hitsEnd, odd>>

----------------------------------------------------------------------------
(* RATE_LIMIT_SCRIPT *)

\* What is left once the hits have gone that are out of the window of a time.
Recent(time) == {h \in hits : h.at > time - Window}

\* Mutant: the last hit that is allowed is not counted.
Allowed_OneMore(time) == Cardinality(Recent(time)) <= Limit

Allowed(time) == Cardinality(Recent(time)) < Limit

\* Mutant: a hit that is refused is added as well.
Count_Refused(time, draw) ==
  /\ hits' = Recent(time) \cup {[at |-> time, draw |-> draw]}
  /\ hitsEnd' = now + Window + Slack

\* A hit that draws what another one of the same time drew replaces it.  The
\* set that a hit was added to lives for the window, and a little longer.
Count(time, draw) ==
  IF Allowed(time)
  THEN /\ hits' = Recent(time) \cup {[at |-> time, draw |-> draw]}
       /\ hitsEnd' = now + Window + Slack
  ELSE /\ hits' = Recent(time)
       /\ UNCHANGED hitsEnd

\* The script ran for a later request before, or so late that the set of the
\* hits that count may have ended.
Late(r) ==
  \/ \E q \in Requests : Ran(q) /\ stamp[q] > stamp[r]
  \/ now > stamp[r] + Slack

\* The script runs for the request, which gets one of the two verdicts.
Run(r, below, above) ==
  /\ verdict[r] = "asked"
  /\ \E d \in Draws :
       /\ Count(stamp[r], d)
       /\ odd' = IF Late(r) \/ [at |-> stamp[r], draw |-> d] \in hits
                 THEN odd \cup {r} ELSE odd
  /\ verdict' = [verdict EXCEPT ![r] = IF Allowed(stamp[r]) THEN below ELSE above]
  /\ UNCHANGED <<now, stamp>>

Decide(r) == Run(r, "allowed", "refused")

\* Any error lets the request through.  The script may have run before, or may
\* still run after the connection is lost: the hit it adds stays.
Unheard(r) == Failing /\ Run(r, "counted", "overruled")

\* An error, and the script never runs.
Unanswered(r) ==
  /\ Failing
  /\ verdict[r] = "asked"
  /\ verdict' = [verdict EXCEPT ![r] = "unlimited"]
  /\ UNCHANGED <<now, hits, hitsEnd, stamp, odd>>

Next ==
  \/ Tick
  \/ \E r \in Requests : Ask(r) \/ Decide(r) \/ Unheard(r) \/ Unanswered(r)

Spec == Init /\ [][Next]_vars

----------------------------------------------------------------------------
(* Properties *)

\* The requests that were let through, allowed or on an error, with a time in
\* the window up to the given one.
PassedWithin(time) ==
  {r \in Requests : /\ Counted(r) \/ verdict[r] \in {"overruled", "unlimited"}
                    /\ time - Window < stamp[r] /\ stamp[r] <= time}

\* Let through without a hit of its own that the script counted in its time.
Irregular == odd \cup {r \in Requests : verdict[r] \in {"overruled", "unlimited"}}

\* The limiter lets no more requests through in any window than its limit and
\* those that came late, drew the number of another one of the same millisecond,
\* or got through on an error of Redis without a hit.
WindowBound ==
  \A time \in 0 .. MaxTime :
    Cardinality(PassedWithin(time)) <= Limit + Cardinality(PassedWithin(time) \cap Irregular)

\* Nobody is refused without as many requests as the limit that the script let
\* through since the beginning of the window, with or without a word to their
\* handlers: what was refused before counts for nothing.
RefusedForCause ==
  \A r \in Requests :
    verdict[r] = "refused" =>
      Cardinality({q \in Requests : Counted(q) /\ stamp[q] > stamp[r] - Window}) >= Limit
=============================================================================
