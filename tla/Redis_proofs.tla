--------------------------- MODULE Redis_proofs ---------------------------
(***************************************************************************)
(* Proofs about the smaller Redis structures that a request uses.  First    *)
(* RateLimiter, for every limit and window; then AuditLog, for every bound   *)
(* on the log and every size of a page; both for any number of requests     *)
(* that pass each other and for errors of Redis at any time.                *)
(***************************************************************************)
EXTENDS RateLimiter, AuditLog, SequenceTheorems, FiniteSetTheorems, TLAPS

Verdicts == {"none", "asked", "allowed", "refused", "counted", "overruled", "unlimited"}

\* The type of the state; and no request has a time that is still to come.
TypeInv ==
  /\ now \in Nat
  /\ hits \in SUBSET [at : Nat, draw : Draws] /\ IsFiniteSet(hits)
  /\ hitsEnd \in Nat
  /\ stamp \in [Requests -> Nat]
  /\ verdict \in [Requests -> Verdicts]
  /\ odd \in SUBSET Requests
  /\ \A r \in Requests : stamp[r] <= now

\* The script runs for the request, whether or not its reply is heard.
Script(r) == Decide(r) \/ Unheard(r)

\* Each hit is that of a request of its own for which the script added it.
OwnerInv ==
  \E owner \in [hits -> Requests] :
    /\ \A h \in hits : Counted(owner[h]) /\ stamp[owner[h]] = h.at
    /\ \A h, k \in hits : owner[h] = owner[k] => h = k

\* The requests that count for a refusal of the request.
Causes(r) == {q \in Requests : Counted(q) /\ stamp[q] > stamp[r] - Window}

\* A request is out of the window of every request for which the script is still to
\* run in time.
Gone(r) ==
  \/ \E p \in Requests : Ran(p) /\ stamp[p] >= stamp[r] + Window
  \/ now >= stamp[r] + Window + Slack

\* The requests whose hits must still be there.
Kept == {r \in Requests : Counted(r) /\ r \notin odd /\ ~Gone(r)}

\* Each of these has a hit of its own in a set that lives long enough.
KeptInv ==
  \E mark \in [Requests -> Draws] :
    /\ \A r \in Kept : /\ [at |-> stamp[r], draw |-> mark[r]] \in hits
                       /\ hitsEnd >= stamp[r] + Window + Slack
    /\ \A p, q \in Kept : stamp[p] = stamp[q] /\ mark[p] = mark[q] => p = q

----------------------------------------------------------------------------
(* The type invariant. *)

\* What the script leaves of the set is finite.
LEMMA RecentFinite ==
  ASSUME TypeInv, NEW time
  PROVE  Recent(time) \in SUBSET hits /\ IsFiniteSet(Recent(time)) /\ Cardinality(Recent(time)) \in Nat
<1>1. Recent(time) \in SUBSET hits
  BY DEF Recent
<1>2. QED
  BY <1>1, FS_Subset, FS_CardinalityType DEF TypeInv

\* The initial state has the type.
LEMMA TypeInit == Init => TypeInv
BY FS_EmptySet DEF Init, TypeInv, Verdicts

\* Every step keeps it.
LEMMA TypeStep == TypeInv /\ [Next]_vars => TypeInv'
<1> SUFFICES ASSUME TypeInv, [Next]_vars PROVE TypeInv'
  OBVIOUS
<1>1. CASE Tick
  BY <1>1, FS_EmptySet DEF Tick, TypeInv
<1>2. ASSUME NEW r \in Requests, Ask(r) PROVE TypeInv'
  BY <1>2 DEF Ask, TypeInv, Verdicts
<1>3. ASSUME NEW r \in Requests, Script(r) PROVE TypeInv'
  <2>1. PICK d \in Draws : Count(stamp[r], d)
    BY <1>3 DEF Script, Decide, Unheard, Run
  <2>2. now' = now /\ stamp' = stamp /\ odd' \in SUBSET Requests
    BY <1>3 DEF Script, Decide, Unheard, Run, TypeInv
  <2>3. verdict' \in [Requests -> Verdicts]
    BY <1>3 DEF Script, Decide, Unheard, Run, TypeInv, Verdicts
  <2>4. hits' \in SUBSET [at : Nat, draw : Draws] /\ IsFiniteSet(hits')
    <3>1. [at |-> stamp[r], draw |-> d] \in [at : Nat, draw : Draws]
      BY DEF TypeInv
    <3>2. IsFiniteSet(Recent(stamp[r]) \cup {[at |-> stamp[r], draw |-> d]})
      BY RecentFinite, FS_AddElement
    <3>3. Recent(stamp[r]) \in SUBSET [at : Nat, draw : Draws] /\ IsFiniteSet(Recent(stamp[r]))
      BY RecentFinite DEF TypeInv
    <3>4. \/ hits' = Recent(stamp[r])
          \/ hits' = Recent(stamp[r]) \cup {[at |-> stamp[r], draw |-> d]}
      BY <2>1 DEF Count
    <3>5. QED
      BY <3>1, <3>2, <3>3, <3>4
  <2>5. hitsEnd' \in Nat
    BY <2>1, WindowAssumption DEF Count, TypeInv
  <2>6. QED
    BY <2>2, <2>3, <2>4, <2>5 DEF TypeInv
<1>4. ASSUME NEW r \in Requests, Unanswered(r) PROVE TypeInv'
  BY <1>4 DEF Unanswered, TypeInv, Verdicts
<1>5. CASE UNCHANGED vars
  BY <1>5 DEF vars, TypeInv
<1>6. QED
  BY <1>1, <1>2, <1>3, <1>4, <1>5 DEF Next, Script

\* The state always has its type, and times are never ahead of the clock: of
\* Tick, Ask and the script.
THEOREM TypeCorrect == Spec => []TypeInv
BY TypeInit, TypeStep, PTL DEF Spec

----------------------------------------------------------------------------
(* What the actions do. *)

\* A request that has a hit is one for which the script ran.
LEMMA CountedRan ==
  \A r \in Requests : /\ Counted(r) => Ran(r)
                      /\ verdict'[r] \in {"allowed", "counted"} <=> Counted(r)'
BY DEF Counted, Ran

\* But for the script, no step decides about a request, or changes the time of
\* one that is decided.
LEMMA OthersDecideNothing ==
  ASSUME TypeInv, Tick \/ (\E r \in Requests : Ask(r) \/ Unanswered(r)) \/ UNCHANGED vars
  PROVE  /\ \A q \in Requests : Counted(q)' <=> Counted(q)
         /\ \A q \in Requests : verdict'[q] = "refused" <=> verdict[q] = "refused"
         /\ \A q \in Requests : Ran(q) => Ran(q)' /\ stamp'[q] = stamp[q]
         /\ odd' = odd
         /\ now' >= now
<1>1. CASE Tick
  BY <1>1 DEF Tick, Counted, Ran, TypeInv
<1>2. ASSUME NEW r \in Requests, Ask(r) \/ Unanswered(r)
      PROVE  /\ \A q \in Requests : Counted(q)' <=> Counted(q)
             /\ \A q \in Requests : verdict'[q] = "refused" <=> verdict[q] = "refused"
             /\ \A q \in Requests : Ran(q) => Ran(q)' /\ stamp'[q] = stamp[q]
             /\ odd' = odd
             /\ now' >= now
  BY <1>2 DEF Ask, Unanswered, Counted, Ran, TypeInv
<1>3. CASE UNCHANGED vars
  BY <1>3 DEF vars, Counted, Ran, TypeInv
<1>4. QED
  BY <1>1, <1>2, <1>3

\* But for the script and the end of the set, no step changes the set.
LEMMA SetStays ==
  ASSUME TypeInv, (\E r \in Requests : Ask(r) \/ Unanswered(r)) \/ UNCHANGED vars
  PROVE  hits' = hits /\ hitsEnd' = hitsEnd /\ now' = now
BY DEF Ask, Unanswered, vars

\* The script runs for one request, which is then counted if it is allowed.
LEMMA ScriptEffect ==
  ASSUME TypeInv, NEW r \in Requests, Script(r)
  PROVE  /\ verdict[r] = "asked"
         /\ \A q \in Requests : q # r => verdict'[q] = verdict[q]
         /\ verdict'[r] = IF Allowed(stamp[r]) THEN IF Decide(r) THEN "allowed" ELSE "counted"
                                              ELSE IF Decide(r) THEN "refused" ELSE "overruled"
         /\ Ran(r)' /\ (Counted(r)' <=> Allowed(stamp[r])) /\ ~Counted(r) /\ ~Ran(r)
         /\ \A q \in Requests : q # r => (Counted(q)' <=> Counted(q)) /\ (Ran(q)' <=> Ran(q))
         /\ now' = now /\ stamp' = stamp
         /\ \A q \in Requests : q # r => (q \in odd' <=> q \in odd)
         /\ \E d \in Draws : /\ Count(stamp[r], d)
                             /\ r \notin odd' => /\ ~Late(r)
                                                 /\ [at |-> stamp[r], draw |-> d] \notin hits
<1>1. PICK yes \in {"allowed", "counted"}, no \in {"refused", "overruled"} :
        /\ Run(r, yes, no)
        /\ Decide(r) => yes = "allowed" /\ no = "refused"
        /\ ~Decide(r) => yes = "counted" /\ no = "overruled"
  <2>1. CASE Decide(r)
    BY <2>1 DEF Decide
  <2>2. CASE ~Decide(r)
    BY <2>2 DEF Script, Unheard
  <2>3. QED
    BY <2>1, <2>2
<1>2. verdict' = [verdict EXCEPT ![r] = IF Allowed(stamp[r]) THEN yes ELSE no]
  BY <1>1 DEF Run
<1>3. verdict'[r] = (IF Allowed(stamp[r]) THEN yes ELSE no) /\ verdict[r] = "asked"
  BY <1>1, <1>2 DEF Run, TypeInv
<1>4. QED
  BY <1>1, <1>2, <1>3 DEF Run, Ran, Counted, TypeInv

----------------------------------------------------------------------------
(* Hits and their owners. *)

\* There are no hits at first.
LEMMA OwnerInit == Init => OwnerInv
<1> SUFFICES ASSUME Init PROVE OwnerInv
  OBVIOUS
<1>1. [h \in hits |-> CHOOSE r \in Requests : TRUE] \in [hits -> Requests]
  BY DEF Init
<1>2. QED
  BY <1>1 DEF OwnerInv, Init

\* Every step keeps their owners apart.
LEMMA OwnerStep == TypeInv /\ OwnerInv /\ [Next]_vars => OwnerInv'
<1> SUFFICES ASSUME TypeInv, OwnerInv, [Next]_vars PROVE OwnerInv'
  OBVIOUS
<1>0. PICK owner \in [hits -> Requests] :
        /\ \A h \in hits : Counted(owner[h]) /\ stamp[owner[h]] = h.at
        /\ \A h, k \in hits : owner[h] = owner[k] => h = k
  BY DEF OwnerInv
<1>1. ASSUME hits' \in SUBSET hits,
             \A q \in Requests : Counted(q) => Counted(q)' /\ stamp'[q] = stamp[q]
      PROVE  OwnerInv'
  <2> DEFINE owned == [h \in hits' |-> owner[h]]
  <2>1. owned \in [hits' -> Requests]
    BY <1>0, <1>1
  <2>2. \A h \in hits' : owned[h] = owner[h] /\ owner[h] \in Requests /\ h \in hits
    BY <1>0, <1>1
  <2>3. \A h \in hits' : verdict'[owned[h]] \in {"allowed", "counted"} /\ stamp'[owned[h]] = h.at
    <3> SUFFICES ASSUME NEW h \in hits'
                 PROVE  verdict'[owner[h]] \in {"allowed", "counted"} /\ stamp'[owner[h]] = h.at
      BY <2>2
    <3>1. Counted(owner[h]) /\ stamp[owner[h]] = h.at /\ owner[h] \in Requests
      BY <1>0, <2>2
    <3>2. QED
      BY <1>1, <3>1, CountedRan
  <2>4. \A h, k \in hits' : owned[h] = owned[k] => h = k
    BY <1>0, <2>2
  <2> HIDE DEF owned
  <2>5. QED
    BY <2>1, <2>3, <2>4 DEF OwnerInv, Counted
<1>2. CASE Tick
  <2>1. hits' \in SUBSET hits
    BY <1>2 DEF Tick
  <2>2. QED
    BY <1>1, <1>2, <2>1, OthersDecideNothing, CountedRan
<1>3. CASE (\E r \in Requests : Ask(r) \/ Unanswered(r)) \/ UNCHANGED vars
  BY <1>1, <1>3, SetStays, OthersDecideNothing, CountedRan
<1>4. ASSUME NEW r \in Requests, Script(r) PROVE OwnerInv'
  <2>1. PICK d \in Draws : Count(stamp[r], d)
    BY <1>4, ScriptEffect
  <2>2. \A q \in Requests : Counted(q) => Counted(q)' /\ stamp'[q] = stamp[q]
    BY <1>4, ScriptEffect
  <2>3. CASE ~Allowed(stamp[r])
    BY <1>1, <2>1, <2>2, <2>3 DEF Count, Recent
  <2>4. CASE Allowed(stamp[r])
    <3> DEFINE hit == [at |-> stamp[r], draw |-> d]
               owned == [h \in hits' |-> IF h = hit THEN r ELSE owner[h]]
    <3>1. hits' = Recent(stamp[r]) \cup {hit} /\ Recent(stamp[r]) \in SUBSET hits
      BY <2>1, <2>4 DEF Count, Recent
    <3>2. owned \in [hits' -> Requests]
      BY <1>0, <3>1
    <3>3. \A h \in hits : owner[h] # r
      BY <1>0, <1>4, ScriptEffect
    <3>4. Counted(r)' /\ stamp'[r] = hit.at
      BY <1>4, <2>4, ScriptEffect DEF TypeInv
    <3>5. \A h \in hits' : verdict'[owned[h]] \in {"allowed", "counted"} /\ stamp'[owned[h]] = h.at
      <4> SUFFICES ASSUME NEW h \in hits'
                   PROVE  verdict'[owned[h]] \in {"allowed", "counted"} /\ stamp'[owned[h]] = h.at
        OBVIOUS
      <4>1. CASE h = hit
        BY <3>4, <4>1, CountedRan
      <4>2. CASE h # hit
        <5>1. h \in hits /\ owned[h] = owner[h] /\ owner[h] \in Requests
          BY <1>0, <3>1, <4>2
        <5>2. Counted(owner[h]) /\ stamp[owner[h]] = h.at
          BY <1>0, <5>1
        <5>3. QED
          BY <2>2, <5>1, <5>2, CountedRan
      <4>3. QED
        BY <4>1, <4>2
    <3>6. \A h, k \in hits' : owned[h] = owned[k] => h = k
      <4>1. \A h \in hits' : h # hit => h \in hits /\ owned[h] = owner[h] /\ owner[h] # r
        BY <3>1, <3>3
      <4>2. owned[hit] = r
        BY <3>1
      <4>3. QED
        BY <1>0, <4>1, <4>2
    <3> HIDE DEF owned
    <3>7. QED
      BY <3>2, <3>5, <3>6 DEF OwnerInv, Counted
  <2>5. QED
    BY <2>3, <2>4
<1>5. QED
  BY <1>2, <1>3, <1>4 DEF Next, Script

\* Each hit of the window of a request is a cause of its refusal.
LEMMA HitsAreCauses ==
  ASSUME TypeInv, OwnerInv, NEW r \in Requests
  PROVE  Cardinality(Recent(stamp[r])) <= Cardinality(Causes(r))
<1>0. PICK owner \in [hits -> Requests] :
        /\ \A h \in hits : Counted(owner[h]) /\ stamp[owner[h]] = h.at
        /\ \A h, k \in hits : owner[h] = owner[k] => h = k
  BY DEF OwnerInv
<1> DEFINE owned == [h \in Recent(stamp[r]) |-> owner[h]]
<1>1. owned \in Injection(Recent(stamp[r]), Causes(r))
  <2>1. \A h \in Recent(stamp[r]) : owned[h] \in Causes(r)
    BY <1>0 DEF Recent, Causes
  <2>2. \A h, k \in Recent(stamp[r]) : owned[h] = owned[k] => h = k
    BY <1>0 DEF Recent
  <2>3. QED
    BY <2>1, <2>2 DEF Injection, IsInjective
<1>2. IsFiniteSet(Causes(r))
  BY RequestsAssumption, FS_Subset DEF Causes
<1>3. QED
  BY <1>1, <1>2, FS_Injection

\* The number of causes is a number.
LEMMA CausesFinite ==
  ASSUME NEW r \in Requests
  PROVE  IsFiniteSet(Causes(r)) /\ Cardinality(Causes(r)) \in Nat
<1>1. Causes(r) \in SUBSET Requests
  BY DEF Causes
<1>2. QED
  BY <1>1, RequestsAssumption, FS_Subset, FS_CardinalityType

\* Every step keeps it: causes do not go away, and the script refuses nobody
\* who lacks them.
LEMMA CauseStep == TypeInv /\ OwnerInv /\ RefusedForCause /\ [Next]_vars => RefusedForCause'
<1> SUFFICES ASSUME TypeInv, OwnerInv, RefusedForCause, [Next]_vars,
                    NEW r \in Requests, verdict'[r] = "refused"
             PROVE  Cardinality(Causes(r)') >= Limit
  BY DEF RefusedForCause, Causes
<1>1. CASE verdict[r] = "refused"
  <2>1. Causes(r) \in SUBSET Causes(r)'
    <3>1. CASE Tick \/ (\E q \in Requests : Ask(q) \/ Unanswered(q)) \/ UNCHANGED vars
      <4>1. Ran(r)
        BY <1>1 DEF Ran
      <4>2. QED
        BY <3>1, <4>1, OthersDecideNothing, CountedRan DEF Causes
    <3>2. ASSUME NEW q \in Requests, Script(q) PROVE Causes(r) \in SUBSET Causes(r)'
      BY <3>2, ScriptEffect DEF Causes
    <3>3. QED
      BY <3>1, <3>2 DEF Next, Script
  <2>2. Causes(r)' \in SUBSET Requests
    BY DEF Causes
  <2>3. IsFiniteSet(Causes(r)') /\ Cardinality(Causes(r)') \in Nat
    BY <2>2, RequestsAssumption, FS_Subset, FS_CardinalityType
  <2>4. Cardinality(Causes(r)) <= Cardinality(Causes(r)')
    BY <2>1, <2>3, FS_Subset
  <2>5. Cardinality(Causes(r)) >= Limit
    BY <1>1 DEF RefusedForCause, Causes
  <2>6. QED
    BY <2>3, <2>4, <2>5, CausesFinite, LimitAssumption
<1>2. CASE verdict[r] # "refused"
  <2>1. Script(r)
    <3>1. ~(Tick \/ (\E q \in Requests : Ask(q) \/ Unanswered(q)) \/ UNCHANGED vars)
      BY <1>2, OthersDecideNothing
    <3>2. PICK q \in Requests : Script(q)
      BY <3>1 DEF Next, Script
    <3>3. QED
      BY <1>2, <3>2, ScriptEffect DEF TypeInv
  <2>2. ~Allowed(stamp[r])
    BY <2>1, ScriptEffect DEF TypeInv
  <2>3. Cardinality(Recent(stamp[r])) >= Limit
    BY <2>2, RecentFinite, LimitAssumption DEF Allowed
  <2>4. Cardinality(Causes(r)) >= Limit
    BY <2>3, HitsAreCauses, RecentFinite, CausesFinite, LimitAssumption
  <2>5. Causes(r)' = Causes(r)
    BY <2>1, <2>2, ScriptEffect DEF Causes
  <2>6. QED
    BY <2>4, <2>5
<1>3. QED
  BY <1>1, <1>2

\* Nobody is refused for less than the limit: of the script, which counts the
\* hits of the window and adds none for a request it refuses.  A hit whose
\* reply was lost counts, and is that of a request that was let through.
THEOREM RefusalsHaveCause == Spec => []RefusedForCause
<1>1. Init => RefusedForCause
  BY DEF Init, RefusedForCause
<1>2. QED
  BY <1>1, TypeCorrect, OwnerInit, OwnerStep, CauseStep, PTL DEF Spec

----------------------------------------------------------------------------
(* Hits that are kept. *)

\* Nothing is allowed at first.
LEMMA KeptInit == Init => KeptInv
<1> SUFFICES ASSUME Init PROVE KeptInv
  OBVIOUS
<1>1. Kept = {}
  BY DEF Init, Kept, Counted
<1>2. [r \in Requests |-> CHOOSE d \in Draws : TRUE] \in [Requests -> Draws]
  BY DrawsAssumption
<1>3. QED
  BY <1>1, <1>2 DEF KeptInv

\* What is gone stays gone.
LEMMA GoneStays ==
  ASSUME TypeInv, [Next]_vars, NEW q \in Requests, Ran(q), Gone(q)
  PROVE  Gone(q)'
<1>1. now' >= now /\ now' \in Nat /\ now \in Nat
      /\ \A p \in Requests : Ran(p) => Ran(p)' /\ stamp'[p] = stamp[p]
  <2>1. CASE Tick \/ (\E r \in Requests : Ask(r) \/ Unanswered(r)) \/ UNCHANGED vars
    BY <2>1, OthersDecideNothing, TypeStep DEF TypeInv
  <2>2. ASSUME NEW r \in Requests, Script(r)
        PROVE  now' >= now /\ now' \in Nat /\ now \in Nat
               /\ \A p \in Requests : Ran(p) => Ran(p)' /\ stamp'[p] = stamp[p]
    BY <2>2, ScriptEffect, TypeStep DEF TypeInv
  <2>3. QED
    BY <2>1, <2>2 DEF Next, Script
<1>2. stamp[q] \in Nat /\ Window \in Nat /\ Slack \in Nat
  BY WindowAssumption DEF TypeInv
<1>3. QED
  BY <1>1, <1>2 DEF Gone

\* A step that decides nothing keeps no more than was kept.
LEMMA KeptShrinks ==
  ASSUME TypeInv, [Next]_vars,
         Tick \/ (\E r \in Requests : Ask(r) \/ Unanswered(r)) \/ UNCHANGED vars
  PROVE  Kept' \in SUBSET Kept /\ \A q \in Kept : stamp'[q] = stamp[q]
<1>1. \A q \in Kept' : q \in Kept
  BY OthersDecideNothing, GoneStays, CountedRan DEF Kept
<1>2. QED
  BY <1>1, OthersDecideNothing, CountedRan DEF Kept

\* The hit of a request that is kept is within the window of a request that is
\* decided without being late, and the set has not ended.
LEMMA KeptIsRecent ==
  ASSUME TypeInv, NEW q \in Kept, NEW r \in Requests, NEW d \in Draws,
         [at |-> stamp[q], draw |-> d] \in hits,
         stamp[r] < stamp[q] + Window
  PROVE  [at |-> stamp[q], draw |-> d] \in Recent(stamp[r])
BY WindowAssumption DEF Recent, TypeInv, Kept

\* Every step keeps the hits that count.
LEMMA KeptStep == TypeInv /\ KeptInv /\ [Next]_vars => KeptInv'
<1> SUFFICES ASSUME TypeInv, KeptInv, [Next]_vars PROVE KeptInv'
  OBVIOUS
<1> USE WindowAssumption
<1>0. PICK mark \in [Requests -> Draws] :
        /\ \A q \in Kept : /\ [at |-> stamp[q], draw |-> mark[q]] \in hits
                           /\ hitsEnd >= stamp[q] + Window + Slack
        /\ \A p, q \in Kept : stamp[p] = stamp[q] /\ mark[p] = mark[q] => p = q
  BY DEF KeptInv
<1>1. CASE Tick
  <2>1. Kept' \in SUBSET Kept /\ stamp' = stamp
    BY <1>1, KeptShrinks DEF Tick
  <2>2. \A q \in Kept' : ~(hitsEnd <= now')
    <3> SUFFICES ASSUME NEW q \in Kept', hitsEnd <= now' PROVE FALSE
      OBVIOUS
    <3>1. hitsEnd >= stamp[q] + Window + Slack
      BY <1>0, <2>1
    <3>2. q \in Requests /\ ~Gone(q)'
      BY DEF Kept
    <3>3. ~(now' >= stamp[q] + Window + Slack)
      BY <2>1, <3>2 DEF Gone
    <3>4. stamp[q] \in Nat /\ hitsEnd \in Nat /\ now' \in Nat
      BY <3>2, TypeStep DEF TypeInv
    <3>5. QED
      BY <3>1, <3>3, <3>4
  <2>3. \A q \in Kept' : hits' = hits /\ hitsEnd' = hitsEnd
    BY <1>1, <2>2 DEF Tick
  <2>4. QED
    BY <1>0, <2>1, <2>3 DEF KeptInv
<1>2. CASE (\E r \in Requests : Ask(r) \/ Unanswered(r)) \/ UNCHANGED vars
  BY <1>0, <1>2, KeptShrinks, SetStays DEF KeptInv
<1>3. ASSUME NEW r \in Requests, Script(r) PROVE KeptInv'
  <2>1. PICK d \in Draws :
          /\ Count(stamp[r], d)
          /\ r \notin odd' => ~Late(r) /\ [at |-> stamp[r], draw |-> d] \notin hits
    BY <1>3, ScriptEffect
  <2> DEFINE hit == [at |-> stamp[r], draw |-> d]
  <2>2. /\ now' = now /\ stamp' = stamp /\ Ran(r)'
        /\ \A q \in Requests : q # r => (Counted(q)' <=> Counted(q)) /\ (q \in odd' <=> q \in odd)
        /\ Counted(r)' <=> Allowed(stamp[r])
    BY <1>3, ScriptEffect
  <2>3. \A q \in Kept' : q # r => q \in Kept /\ stamp[r] < stamp[q] + Window
    <3> SUFFICES ASSUME NEW q \in Kept', q # r PROVE q \in Kept /\ stamp[r] < stamp[q] + Window
      OBVIOUS
    <3>1. q \in Requests /\ Counted(q) /\ q \notin odd /\ ~Gone(q)'
      BY <2>2 DEF Kept
    <3>2. ~Gone(q)
      BY <3>1, GoneStays, CountedRan
    <3>3. ~(stamp[r] >= stamp[q] + Window)
      BY <2>2, <3>1 DEF Gone
    <3>4. QED
      BY <3>1, <3>2, <3>3 DEF Kept, TypeInv
  <2>4. \A q \in Kept' : q # r => [at |-> stamp[q], draw |-> mark[q]] \in hits'
    <3>1. Recent(stamp[r]) \in SUBSET hits'
      BY <2>1 DEF Count
    <3>2. \A q \in Kept' : q # r => [at |-> stamp[q], draw |-> mark[q]] \in Recent(stamp[r])
      BY <1>0, <2>3, KeptIsRecent DEF Kept
    <3>3. QED
      BY <3>1, <3>2
  <2>5. \A q \in Kept' : q # r => hitsEnd' >= stamp[q] + Window + Slack
    <3> SUFFICES ASSUME NEW q \in Kept', q # r PROVE hitsEnd' >= stamp[q] + Window + Slack
      OBVIOUS
    <3>1. q \in Requests /\ hitsEnd >= stamp[q] + Window + Slack
      BY <1>0, <2>3 DEF Kept
    <3>2. stamp[q] <= now /\ stamp[q] \in Nat /\ now \in Nat
      BY <3>1 DEF TypeInv
    <3>3. hitsEnd' = hitsEnd \/ hitsEnd' = now + Window + Slack
      BY <2>1 DEF Count
    <3>4. QED
      BY <3>1, <3>2, <3>3
  <2>6. CASE r \notin Kept'
    BY <1>0, <2>2, <2>3, <2>4, <2>5, <2>6 DEF KeptInv
  <2>7. CASE r \in Kept'
    <3> DEFINE marked == [mark EXCEPT ![r] = d]
    <3>1. r \notin odd' /\ Allowed(stamp[r])
      BY <2>2, <2>7 DEF Kept
    <3>2. hit \in hits' /\ hitsEnd' = now + Window + Slack
      BY <2>1, <3>1 DEF Count
    <3>3. hit \notin hits /\ stamp[r] <= now /\ stamp[r] \in Nat /\ now \in Nat
      BY <2>1, <3>1 DEF TypeInv
    <3>4. marked \in [Requests -> Draws] /\ marked[r] = d
          /\ \A q \in Requests : q # r => marked[q] = mark[q]
      OBVIOUS
    <3>5. \A q \in Kept' : q # r => ~(stamp[q] = stamp[r] /\ mark[q] = d)
      BY <1>0, <2>3, <3>3
    <3>6. \A q \in Kept' : /\ [at |-> stamp[q], draw |-> marked[q]] \in hits'
                           /\ hitsEnd' >= stamp[q] + Window + Slack
      BY <2>4, <2>5, <3>2, <3>3, <3>4 DEF Kept
    <3>7. \A p, q \in Kept' : stamp[p] = stamp[q] /\ marked[p] = marked[q] => p = q
      BY <1>0, <2>3, <3>4, <3>5 DEF Kept
    <3> HIDE DEF marked
    <3>8. stamp' = stamp /\ marked \in [Requests -> Draws]
      BY <2>2, <3>4
    <3>9. QED
      BY <3>6, <3>7, <3>8 DEF KeptInv
  <2>8. QED
    BY <2>6, <2>7
<1>4. QED
  BY <1>1, <1>2, <1>3 DEF Next, Script

----------------------------------------------------------------------------
(* The bound. *)

\* The requests of a window that were counted in time and with a number of
\* their own.
Regular(time) ==
  {r \in Requests : Counted(r) /\ time - Window < stamp[r] /\ stamp[r] <= time} \ odd

\* No window has more of these than the limit.
RegularBound == \A time \in Nat : Cardinality(Regular(time)) <= Limit

\* Their number is a number.
LEMMA RegularFinite ==
  ASSUME NEW time
  PROVE  /\ IsFiniteSet(PassedWithin(time)) /\ Cardinality(PassedWithin(time)) \in Nat
         /\ IsFiniteSet(Regular(time)) /\ Cardinality(Regular(time)) \in Nat
<1>1. PassedWithin(time) \in SUBSET Requests /\ Regular(time) \in SUBSET Requests
  BY DEF PassedWithin, Regular
<1>2. QED
  BY <1>1, RequestsAssumption, FS_Subset, FS_CardinalityType

\* When a request is decided in time, those of its window are kept.
LEMMA RegularIsKept ==
  ASSUME TypeInv, NEW r \in Requests, ~Late(r), NEW q \in Requests,
         Counted(q), q \notin odd, stamp[q] > stamp[r] - Window
  PROVE  q \in Kept
<1> USE WindowAssumption
<1>1. \A p \in Requests : Ran(p) => stamp[p] <= stamp[r]
  BY DEF Late, Ran, TypeInv
<1>2. now <= stamp[r] + Slack
  BY DEF Late, TypeInv
<1>3. stamp[q] \in Nat /\ stamp[r] \in Nat /\ now \in Nat /\ \A p \in Requests : stamp[p] \in Nat
  BY DEF TypeInv
<1>4. ~Gone(q)
  BY <1>1, <1>2, <1>3 DEF Gone
<1>5. QED
  BY <1>4 DEF Kept

\* Hence each has a hit of its own among those the script counts.
LEMMA RegularIsCounted ==
  ASSUME TypeInv, KeptInv, NEW r \in Requests, ~Late(r), NEW S \in SUBSET Requests,
         \A q \in S : Counted(q) /\ q \notin odd /\ stamp[q] > stamp[r] - Window
  PROVE  Cardinality(S) <= Cardinality(Recent(stamp[r]))
<1>0. PICK mark \in [Requests -> Draws] :
        /\ \A q \in Kept : /\ [at |-> stamp[q], draw |-> mark[q]] \in hits
                           /\ hitsEnd >= stamp[q] + Window + Slack
        /\ \A p, q \in Kept : stamp[p] = stamp[q] /\ mark[p] = mark[q] => p = q
  BY DEF KeptInv
<1> DEFINE hitOf == [q \in S |-> [at |-> stamp[q], draw |-> mark[q]]]
<1>1. \A q \in S : q \in Kept
  BY RegularIsKept
<1>2. \A q \in S : hitOf[q] \in Recent(stamp[r])
  BY <1>0, <1>1 DEF Recent
<1>3. \A p, q \in S : hitOf[p] = hitOf[q] => p = q
  BY <1>0, <1>1
<1>4. hitOf \in Injection(S, Recent(stamp[r]))
  BY <1>2, <1>3 DEF Injection, IsInjective
<1>5. QED
  BY <1>4, RecentFinite, FS_Injection

\* Every step keeps the bound.
LEMMA BoundStep == TypeInv /\ KeptInv /\ RegularBound /\ [Next]_vars => RegularBound'
<1> SUFFICES ASSUME TypeInv, KeptInv, RegularBound, [Next]_vars, NEW time \in Nat
             PROVE  Cardinality(Regular(time)') <= Limit
  BY DEF RegularBound, Regular
<1> USE WindowAssumption
<1>0. /\ \A S \in SUBSET Regular(time) : Cardinality(S) <= Limit
  <2> SUFFICES ASSUME NEW S \in SUBSET Regular(time) PROVE Cardinality(S) <= Limit
    OBVIOUS
  <2>1. Cardinality(S) <= Cardinality(Regular(time)) /\ Cardinality(S) \in Nat
    BY RegularFinite, FS_Subset, FS_CardinalityType
  <2>2. QED
    BY <2>1, RegularFinite, LimitAssumption DEF RegularBound
<1>1. CASE Tick \/ (\E r \in Requests : Ask(r) \/ Unanswered(r)) \/ UNCHANGED vars
  <2>1. Regular(time)' \in SUBSET Regular(time)
    BY <1>1, OthersDecideNothing, CountedRan DEF Regular
  <2>2. QED
    BY <1>0, <2>1
<1>2. ASSUME NEW r \in Requests, Script(r) PROVE Cardinality(Regular(time)') <= Limit
  <2>1. /\ stamp' = stamp
        /\ \A q \in Requests : q # r => (Counted(q)' <=> Counted(q)) /\ (q \in odd' <=> q \in odd)
        /\ Counted(r)' <=> Allowed(stamp[r])
        /\ r \notin odd' => ~Late(r)
    BY <1>2, ScriptEffect
  <2> DEFINE others == Regular(time)' \ {r}
  <2>2. others \in SUBSET Regular(time)
    BY <2>1 DEF Regular
  <2>3. CASE r \notin Regular(time)'
    <3>1. Regular(time)' = others
      BY <2>3
    <3>2. QED
      BY <1>0, <2>2, <3>1
  <2>4. CASE r \in Regular(time)'
    <3>1. Allowed(stamp[r]) /\ ~Late(r) /\ time - Window < stamp[r] /\ stamp[r] <= time
      BY <2>1, <2>4 DEF Regular
    <3>2. \A q \in others : Counted(q) /\ q \notin odd /\ stamp[q] > stamp[r] - Window
      BY <2>2, <3>1 DEF Regular, TypeInv
    <3>3. others \in SUBSET Requests
      BY <2>2 DEF Regular
    <3>4. Cardinality(others) <= Cardinality(Recent(stamp[r]))
      BY <3>1, <3>2, <3>3, RegularIsCounted
    <3>5. Cardinality(Recent(stamp[r])) < Limit
      BY <3>1 DEF Allowed
    <3>6. IsFiniteSet(others) /\ Cardinality(others) \in Nat
      BY <3>3, RequestsAssumption, FS_Subset, FS_CardinalityType
    <3>7. Regular(time)' = others \cup {r} /\ r \notin others
      BY <2>4
    <3>8. Cardinality(Regular(time)') = Cardinality(others) + 1
      BY <3>6, <3>7, FS_AddElement
    <3>9. QED
      BY <3>4, <3>5, <3>6, <3>8, RecentFinite, LimitAssumption
  <2>5. QED
    BY <2>3, <2>4
<1>3. QED
  BY <1>1, <1>2 DEF Next, Script

\* What is in a window is regular or odd.
LEMMA BoundImplies == RegularBound => WindowBound
<1> SUFFICES ASSUME RegularBound, NEW time \in 0 .. MaxTime
             PROVE  Cardinality(PassedWithin(time))
                      <= Limit + Cardinality(PassedWithin(time) \cap Irregular)
  BY DEF WindowBound
<1>1. Cardinality(Regular(time)) =
        Cardinality(PassedWithin(time)) - Cardinality(PassedWithin(time) \cap Irregular)
  <2>1. Regular(time) = PassedWithin(time) \ Irregular
    BY DEF Regular, PassedWithin, Irregular, Counted
  <2>2. QED
    BY <2>1, RegularFinite, FS_Difference
<1>2. PassedWithin(time) \cap Irregular \in SUBSET PassedWithin(time)
  OBVIOUS
<1>3. Cardinality(PassedWithin(time) \cap Irregular) \in Nat
  BY <1>2, RegularFinite, FS_Subset, FS_CardinalityType
<1>4. Cardinality(Regular(time)) <= Limit
  BY MaxTimeAssumption DEF RegularBound
<1>5. QED
  BY <1>1, <1>3, <1>4, RegularFinite, LimitAssumption

\* No window has more requests that went on than the limit and those whose
\* script ran late or whose hit replaced another one, or that an error of Redis
\* let through without a hit: of the script and of failing open, whatever the
\* order in which the script runs for requests, and whether or not its reply
\* reaches their handlers.
THEOREM WindowsAreBounded == Spec => []WindowBound
<1>1. Init => RegularBound
  <2> SUFFICES ASSUME Init, NEW time \in Nat PROVE Cardinality(Regular(time)) <= Limit
    BY DEF RegularBound
  <2>1. Regular(time) = {}
    BY DEF Init, Regular, Counted
  <2>2. QED
    BY <2>1, FS_EmptySet, LimitAssumption
<1>2. QED
  BY <1>1, TypeCorrect, KeptInit, KeptStep, BoundStep, BoundImplies, PTL DEF Spec

----------------------------------------------------------------------------
(* The log of security events. *)

Event == [by : Requests, mine : BOOLEAN]

\* What a step does: a request stores its event, or fails and changes nothing of
\* the list, or the reader turns a page.
Stores(r) == (Push(r) \/ PushFails(r)) /\ Store(r)
Fails(r)  == (PushFails(r) \/ TrimFails(r)) /\ UNCHANGED <<log, pushed>>
Turns     == ReadPage \/ PageFails

\* The type of the list, of the requests and of their events; and who failed to
\* trim is done.
LogType ==
  /\ log \in Seq(Event) /\ pushed \in Seq(Event)
  /\ pc \in [Requests -> {"push", "trim", "done"}]
  /\ offset \in Nat
  /\ untrimmed \in SUBSET {r \in Requests : pc[r] = "done"}

\* The list is a beginning of what was pushed, all of it below the bound.
Beginning ==
  /\ Len(log) <= Len(pushed)
  /\ \A i \in 1 .. Len(log) : log[i] = pushed[i]
  /\ Len(log) < MaxLog => Len(log) = Len(pushed)

\* The requests by which the list may be over its bound.
Owed == {r \in Requests : pc[r] = "trim"} \cup untrimmed

\* It is over by no more than these.
Overhang == Len(log) <= MaxLog + Cardinality(Owed)

\* Whoever has an event in the list, or had one when the reader began, has
\* pushed it.
WasPushed ==
  /\ \A i \in 1 .. Len(log) : pc[log[i].by] # "push"
  /\ \A e \in original : e \in Event /\ pc[e.by] # "push"

----------------------------------------------------------------------------
(* The operations. *)

\* A push puts its event in front.
LEMMA PushAdds ==
  ASSUME NEW seq \in Seq(Event), NEW event \in Event
  PROVE  /\ <<event>> \o seq \in Seq(Event)
         /\ Len(<<event>> \o seq) = Len(seq) + 1
         /\ (<<event>> \o seq)[1] = event
         /\ \A i \in 1 .. Len(seq) : (<<event>> \o seq)[i + 1] = seq[i]
<1>1. <<event>> \in Seq(Event) /\ Len(<<event>>) = 1 /\ <<event>>[1] = event
  OBVIOUS
<1>2. /\ <<event>> \o seq \in Seq(Event)
      /\ Len(<<event>> \o seq) = 1 + Len(seq)
      /\ \A i \in 1 .. 1 + Len(seq) : (<<event>> \o seq)[i] = IF i <= 1 THEN event ELSE seq[i - 1]
  BY <1>1, ConcatProperties
<1>3. Len(seq) \in Nat
  BY LenProperties
<1>4. \A i \in 1 .. Len(seq) : i + 1 \in 1 .. 1 + Len(seq) /\ ~(i + 1 <= 1) /\ (i + 1) - 1 = i
  BY <1>3
<1>5. 1 \in 1 .. 1 + Len(seq)
  BY <1>3
<1>6. QED
  BY <1>2, <1>3, <1>4, <1>5

\* A trim keeps the beginning of the list.
LEMMA TrimKeeps ==
  ASSUME NEW seq \in Seq(Event), NEW n \in Nat
  PROVE  /\ First(seq, n) \in Seq(Event)
         /\ Len(First(seq, n)) = IF Len(seq) < n THEN Len(seq) ELSE n
         /\ \A i \in 1 .. Len(First(seq, n)) : First(seq, n)[i] = seq[i]
<1> DEFINE m == IF Len(seq) < n THEN Len(seq) ELSE n
<1>1. m \in Nat /\ m <= Len(seq) /\ Len(seq) \in Nat
  BY LenProperties
<1>2. \A i \in 1 .. m : seq[i] \in Event
  BY <1>1, ElementOfSeq
<1> HIDE DEF m
<1>3. /\ SubSeq(seq, 1, m) \in Seq(Event)
      /\ Len(SubSeq(seq, 1, m)) = IF 1 <= m THEN m - 1 + 1 ELSE 0
      /\ \A i \in 1 .. m - 1 + 1 : SubSeq(seq, 1, m)[i] = seq[1 + i - 1]
  BY <1>1, <1>2, SubSeqProperties
<1>4. Len(SubSeq(seq, 1, m)) = m /\ m - 1 + 1 = m /\ \A i \in 1 .. m : 1 + i - 1 = i
  BY <1>1, <1>3
<1>5. QED
  BY <1>3, <1>4 DEF First, m

----------------------------------------------------------------------------
(* The steps. *)

\* Every step is one of these.
LEMMA LogSteps ==
  [LogNext]_logVars => \/ \E r \in Requests : Stores(r) \/ Trim(r) \/ Fails(r)
                       \/ Turns
                       \/ UNCHANGED logVars
<1>1. ASSUME NEW r \in Requests, Push(r) \/ PushFails(r) PROVE Stores(r) \/ Fails(r)
  BY <1>1 DEF Push, PushFails, Stores, Fails
<1>2. ASSUME NEW r \in Requests, TrimFails(r) PROVE Fails(r)
  BY <1>2 DEF TrimFails, Fails
<1>3. QED
  BY <1>1, <1>2 DEF LogNext, Turns

\* A request that stores its event is owed a trim, then or for good.
LEMMA StoresEffect ==
  ASSUME LogType, NEW r \in Requests, Stores(r)
  PROVE  /\ \E event \in Event : /\ event.by = r
                                /\ log' = <<event>> \o log /\ pushed' = <<event>> \o pushed
         /\ pc[r] = "push" /\ pc'[r] \in {"trim", "done"} /\ pc' = [pc EXCEPT ![r] = pc'[r]]
         /\ untrimmed' = IF pc'[r] = "done" THEN untrimmed \cup {r} ELSE untrimmed
         /\ UNCHANGED reader
<1>1. \E event \in Event : /\ event.by = r
                          /\ log' = <<event>> \o log /\ pushed' = <<event>> \o pushed
  BY DEF Stores, Store, Events, Event, Pushed
<1>2. CASE Push(r)
  BY <1>1, <1>2 DEF Push, Goto, LogType
<1>3. CASE PushFails(r)
  <2>1. untrimmed' = untrimmed \cup {r}
    <3>1. log' # log
      <4>1. PICK event \in Event : log' = <<event>> \o log
        BY <1>1
      <4>2. Len(log') = Len(log) + 1 /\ Len(log) \in Nat
        BY <4>1, PushAdds, LenProperties DEF LogType
      <4>3. QED
        BY <4>2
    <3>2. QED
      BY <1>3, <3>1 DEF PushFails
  <2>2. QED
    BY <1>1, <1>3, <2>1 DEF PushFails, Goto, LogType
<1>4. QED
  BY <1>2, <1>3 DEF Stores

\* A request that fails without an event to store owes nothing new.
LEMMA FailsEffect ==
  ASSUME LogType, NEW r \in Requests, Fails(r)
  PROVE  /\ log' = log /\ pushed' = pushed
         /\ pc[r] \in {"push", "trim"} /\ pc' = [pc EXCEPT ![r] = "done"]
         /\ untrimmed' = IF pc[r] = "trim" THEN untrimmed \cup {r} ELSE untrimmed
         /\ UNCHANGED reader
<1>1. CASE TrimFails(r)
  BY <1>1 DEF TrimFails, Goto, Fails
<1>2. CASE PushFails(r)
  <2>1. ~Store(r)
    <3> SUFFICES ASSUME NEW event \in Event, log' = <<event>> \o log PROVE FALSE
      BY DEF Store, Pushed, Events, Event
    <3>1. Len(log') = Len(log) + 1 /\ Len(log) \in Nat
      BY PushAdds, LenProperties DEF LogType
    <3>2. QED
      BY <3>1 DEF Fails
  <2>2. QED
    BY <1>2, <2>1 DEF PushFails, Goto, Fails
<1>3. QED
  BY <1>1, <1>2 DEF Fails

----------------------------------------------------------------------------
(* The type. *)

\* The initial state has the type.
LEMMA LogTypeInit == LogInit => LogType
BY EmptySeq DEF LogInit, LogType

\* Every step keeps it.
LEMMA LogTypeStep == LogType /\ [LogNext]_logVars => LogType'
<1> SUFFICES ASSUME LogType, [LogNext]_logVars PROVE LogType'
  OBVIOUS
<1>1. ASSUME NEW r \in Requests, Stores(r) PROVE LogType'
  <2>1. log' \in Seq(Event) /\ pushed' \in Seq(Event)
    <3>1. PICK event \in Event : log' = <<event>> \o log /\ pushed' = <<event>> \o pushed
      BY <1>1, StoresEffect
    <3>2. QED
      BY <3>1, PushAdds DEF LogType
  <2>2. QED
    BY <1>1, <2>1, StoresEffect DEF reader, LogType
<1>2. ASSUME NEW r \in Requests, Trim(r) PROVE LogType'
  <2>1. log' \in Seq(Event)
    BY <1>2, TrimKeeps, MaxLogAssumption DEF Trim, Trimmed, LogType
  <2>2. QED
    BY <1>2, <2>1 DEF Trim, Goto, reader, LogType
<1>3. ASSUME NEW r \in Requests, Fails(r) PROVE LogType'
  BY <1>3, FailsEffect DEF reader, LogType
<1>4. CASE Turns
  BY <1>4, PageAssumption DEF Turns, ReadPage, PageFails, NextPage, LogType
<1>5. CASE UNCHANGED logVars
  BY <1>5 DEF logVars, reader, LogType
<1>6. QED
  BY <1>1, <1>2, <1>3, <1>4, <1>5, LogSteps

\* The state always has its type: of the handlers and of the reader.
THEOREM LogTypeCorrect == LogSpec => []LogType
BY LogTypeInit, LogTypeStep, PTL DEF LogSpec

----------------------------------------------------------------------------
(* The list. *)

\* A step pushes an event, trims the list, or leaves it alone.
LEMMA ListEffect ==
  ASSUME LogType, [LogNext]_logVars
  PROVE  \/ \E event \in Event : log' = <<event>> \o log /\ pushed' = <<event>> \o pushed
         \/ log' = First(log, MaxLog) /\ pushed' = pushed
         \/ log' = log /\ pushed' = pushed
<1>1. ASSUME NEW r \in Requests, Stores(r)
      PROVE  \E event \in Event : log' = <<event>> \o log /\ pushed' = <<event>> \o pushed
  BY <1>1, StoresEffect
<1>2. ASSUME NEW r \in Requests, Trim(r) PROVE log' = First(log, MaxLog) /\ pushed' = pushed
  BY <1>2 DEF Trim, Trimmed
<1>3. ASSUME NEW r \in Requests, Fails(r) PROVE log' = log /\ pushed' = pushed
  BY <1>3, FailsEffect
<1>4. ASSUME Turns \/ UNCHANGED logVars PROVE log' = log /\ pushed' = pushed
  BY <1>4 DEF Turns, ReadPage, PageFails, NextPage, logVars
<1>5. QED
  BY <1>1, <1>2, <1>3, <1>4, LogSteps

\* Every step keeps the list a beginning of what was pushed.
LEMMA BeginningStep == LogType /\ Beginning /\ [LogNext]_logVars => Beginning'
<1> SUFFICES ASSUME LogType, Beginning, [LogNext]_logVars PROVE Beginning'
  OBVIOUS
<1>0. Len(log) \in Nat /\ Len(pushed) \in Nat /\ MaxLog \in Nat
  BY LenProperties, MaxLogAssumption DEF LogType
<1>1. ASSUME NEW event \in Event, log' = <<event>> \o log, pushed' = <<event>> \o pushed
      PROVE  Beginning'
  <2>1. /\ Len(log') = Len(log) + 1 /\ Len(pushed') = Len(pushed) + 1
        /\ log'[1] = event /\ pushed'[1] = event
        /\ \A i \in 1 .. Len(log) : log'[i + 1] = log[i]
        /\ \A i \in 1 .. Len(pushed) : pushed'[i + 1] = pushed[i]
    BY <1>1, PushAdds DEF LogType
  <2>2. \A i \in 1 .. Len(log') : log'[i] = pushed'[i]
    <3> SUFFICES ASSUME NEW i \in 1 .. Len(log') PROVE log'[i] = pushed'[i]
      OBVIOUS
    <3>1. CASE i = 1
      BY <2>1, <3>1
    <3>2. CASE i # 1
      <4> DEFINE j == i - 1
      <4>1. j \in 1 .. Len(log) /\ j \in 1 .. Len(pushed) /\ j + 1 = i
        BY <1>0, <2>1, <3>2 DEF Beginning
      <4>2. log[j] = pushed[j]
        BY <4>1 DEF Beginning
      <4> HIDE DEF j
      <4>3. log'[j + 1] = log[j] /\ pushed'[j + 1] = pushed[j]
        BY <2>1, <4>1
      <4>4. QED
        BY <4>1, <4>2, <4>3
    <3>3. QED
      BY <3>1, <3>2
  <2>3. QED
    BY <1>0, <2>1, <2>2 DEF Beginning
<1>2. ASSUME log' = First(log, MaxLog), pushed' = pushed PROVE Beginning'
  <2>1. /\ Len(log') = IF Len(log) < MaxLog THEN Len(log) ELSE MaxLog
        /\ \A i \in 1 .. Len(log') : log'[i] = log[i]
    BY <1>0, <1>2, TrimKeeps DEF LogType
  <2>2. QED
    BY <1>0, <1>2, <2>1 DEF Beginning
<1>3. ASSUME log' = log, pushed' = pushed PROVE Beginning'
  BY <1>3 DEF Beginning
<1>4. QED
  BY <1>1, <1>2, <1>3, ListEffect

\* The requests that are owed a trim are finitely many.
LEMMA OwedFinite ==
  ASSUME LogType
  PROVE  IsFiniteSet(Owed) /\ Cardinality(Owed) \in Nat
<1>1. Owed \in SUBSET Requests
  BY DEF Owed, LogType
<1>2. QED
  BY <1>1, RequestsAssumption, FS_Subset, FS_CardinalityType

\* Every step keeps the list within its bound and what is owed.
LEMMA OverhangStep == LogType /\ Overhang /\ [LogNext]_logVars => Overhang'
<1> SUFFICES ASSUME LogType, Overhang, [LogNext]_logVars PROVE Overhang'
  OBVIOUS
<1>0. Len(log) \in Nat /\ MaxLog \in Nat
  BY LenProperties, MaxLogAssumption DEF LogType
<1>1. ASSUME NEW r \in Requests, Stores(r) PROVE Overhang'
  <2>1. PICK event \in Event : log' = <<event>> \o log
    BY <1>1, StoresEffect
  <2>2. Len(log') = Len(log) + 1
    BY <2>1, PushAdds DEF LogType
  <2>3. Owed' = Owed \cup {r} /\ r \notin Owed
    BY <1>1, StoresEffect DEF Owed, LogType
  <2>4. Cardinality(Owed') = Cardinality(Owed) + 1
    BY <2>3, OwedFinite, FS_AddElement
  <2>5. QED
    BY <1>0, <2>2, <2>4, OwedFinite DEF Overhang
<1>2. ASSUME NEW r \in Requests, Trim(r) PROVE Overhang'
  <2>1. Len(log') <= MaxLog
    BY <1>0, <1>2, TrimKeeps DEF Trim, Trimmed, LogType
  <2>2. Owed' \in SUBSET Requests
    BY LogTypeStep DEF Owed, LogType
  <2>3. Cardinality(Owed') \in Nat
    BY <2>2, RequestsAssumption, FS_Subset, FS_CardinalityType
  <2>4. Len(log') \in Nat
    BY LogTypeStep, LenProperties DEF LogType
  <2>5. QED
    BY <1>0, <2>1, <2>3, <2>4 DEF Overhang
<1>3. ASSUME NEW r \in Requests, Fails(r) PROVE Overhang'
  <2>1. Owed' = Owed
    BY <1>3, FailsEffect DEF Owed, LogType
  <2>2. QED
    BY <1>3, <2>1, FailsEffect DEF Overhang
<1>4. CASE Turns \/ UNCHANGED logVars
  <2>1. log' = log /\ Owed' = Owed
    BY <1>4 DEF Turns, ReadPage, PageFails, NextPage, logVars, Owed
  <2>2. QED
    BY <2>1 DEF Overhang
<1>5. QED
  BY <1>1, <1>2, <1>3, <1>4, LogSteps

\* A beginning is what the property says it is.
LEMMA BeginningImplies == LogType /\ Beginning /\ Overhang => LogIsMostRecent
<1> SUFFICES ASSUME LogType, Beginning, Overhang PROVE LogIsMostRecent
  OBVIOUS
<1>0. Len(log) \in Nat /\ Len(pushed) \in Nat
  BY LenProperties DEF LogType
<1>1. log = First(pushed, Len(log))
  <2>1. /\ First(pushed, Len(log)) \in Seq(Event)
        /\ Len(First(pushed, Len(log))) = Len(log)
        /\ \A i \in 1 .. Len(log) : First(pushed, Len(log))[i] = pushed[i]
    BY <1>0, TrimKeeps DEF Beginning, LogType
  <2>2. \A i \in 1 .. Len(log) : log[i] = First(pushed, Len(log))[i]
    BY <2>1 DEF Beginning
  <2>3. QED
    BY <2>1, <2>2, SeqEqual DEF LogType
<1>2. Len(log) < MaxLog => log = pushed
  <2> SUFFICES ASSUME Len(log) < MaxLog PROVE log = pushed
    OBVIOUS
  <2>1. Len(log) = Len(pushed) /\ \A i \in 1 .. Len(log) : log[i] = pushed[i]
    BY DEF Beginning
  <2>2. QED
    BY <2>1, SeqEqual DEF LogType
<1>3. QED
  BY <1>1, <1>2 DEF LogIsMostRecent, Overhang, Owed

\* The log is what was pushed last, and over its bound only by trims that are
\* to come or failed: of push and trim as two commands of many handlers.
THEOREM LogStaysRecent == LogSpec => []LogIsMostRecent
<1>1. LogInit => Beginning /\ Overhang
  <2> SUFFICES ASSUME LogInit PROVE Beginning /\ Overhang
    OBVIOUS
  <2>1. Len(log) = 0 /\ Len(pushed) = 0
    BY EmptySeq DEF LogInit
  <2>2. Cardinality(Owed) \in Nat
    BY LogTypeInit, OwedFinite
  <2>3. QED
    BY <2>1, <2>2, MaxLogAssumption DEF Beginning, Overhang
<1>2. QED
  BY <1>1, LogTypeCorrect, BeginningStep, OverhangStep, BeginningImplies, PTL DEF LogSpec

----------------------------------------------------------------------------
(* The reader. *)

\* The initial list is empty.
LEMMA ReaderInit == LogInit => WasPushed /\ PagesMissNothing
BY DEF LogInit, WasPushed, PagesMissNothing

\* Who has pushed goes on.
LEMMA PushersGoOn ==
  ASSUME LogType, [LogNext]_logVars, NEW r \in Requests, pc[r] # "push"
  PROVE  pc'[r] # "push"
<1>1. ASSUME NEW q \in Requests, Stores(q) \/ Trim(q) \/ Fails(q) PROVE pc'[r] # "push"
  BY <1>1, StoresEffect, FailsEffect DEF Trim, Goto, LogType
<1>2. CASE Turns \/ UNCHANGED logVars
  BY <1>2 DEF Turns, ReadPage, PageFails, NextPage, logVars
<1>3. QED
  BY <1>1, <1>2, LogSteps

\* A place of the list holds an event.
LEMMA PlacesHoldEvents ==
  ASSUME LogType
  PROVE  /\ DOMAIN log = 1 .. Len(log) /\ Len(log) \in Nat
         /\ \A i \in 1 .. Len(log) : log[i] \in Event /\ log[i].by \in Requests
<1>1. DOMAIN log = 1 .. Len(log) /\ Len(log) \in Nat
  BY LenProperties DEF LogType
<1>2. \A i \in 1 .. Len(log) : log[i] \in Event
  BY ElementOfSeq DEF LogType
<1>3. QED
  BY <1>1, <1>2 DEF Event

\* Every step keeps events to those who pushed.
LEMMA WasPushedStep == LogType /\ WasPushed /\ [LogNext]_logVars => WasPushed'
<1> SUFFICES ASSUME LogType, WasPushed, [LogNext]_logVars PROVE WasPushed'
  OBVIOUS
<1>1. ASSUME NEW e \in Event, pc[e.by] # "push" PROVE pc'[e.by] # "push"
  BY <1>1, PushersGoOn DEF Event
<1>2. ASSUME NEW r \in Requests, Stores(r) PROVE WasPushed'
  <2>1. PICK event \in Event : event.by = r /\ log' = <<event>> \o log
    BY <1>2, StoresEffect
  <2>2. event \in Event /\ event.by = r /\ pc'[r] # "push" /\ original' = original
    BY <1>2, <2>1, StoresEffect DEF reader
  <2>3. /\ Len(log') = Len(log) + 1 /\ log'[1] = event
        /\ \A i \in 1 .. Len(log) : log'[i + 1] = log[i]
    BY <2>1, <2>2, PushAdds DEF LogType
  <2>4. \A i \in 1 .. Len(log') : pc'[log'[i].by] # "push"
    <3> SUFFICES ASSUME NEW i \in 1 .. Len(log'), i # 1 PROVE pc'[log'[i].by] # "push"
      BY <2>2, <2>3
    <3> DEFINE j == i - 1
    <3>1. j \in 1 .. Len(log) /\ j + 1 = i
      BY <2>3, PlacesHoldEvents
    <3> HIDE DEF j
    <3>2. log'[i] = log[j]
      BY <2>3, <3>1
    <3>3. QED
      BY <1>1, <3>1, <3>2, PlacesHoldEvents DEF WasPushed
  <2>5. QED
    BY <1>1, <2>2, <2>4 DEF WasPushed
<1>3. ASSUME NEW r \in Requests, Trim(r) PROVE WasPushed'
  <2>1. /\ Len(log') <= Len(log) /\ Len(log') \in Nat
        /\ \A i \in 1 .. Len(log') : log'[i] = log[i]
    BY <1>3, TrimKeeps, PlacesHoldEvents, MaxLogAssumption DEF Trim, Trimmed, LogType
  <2>2. \A i \in 1 .. Len(log') : i \in 1 .. Len(log)
    BY <2>1, PlacesHoldEvents
  <2>3. original' = original
    BY <1>3 DEF Trim, reader
  <2>4. QED
    BY <1>1, <2>1, <2>2, <2>3, PlacesHoldEvents DEF WasPushed
<1>4. ASSUME NEW r \in Requests, Fails(r) PROVE WasPushed'
  BY <1>1, <1>4, FailsEffect, PlacesHoldEvents DEF reader, WasPushed
<1>5. CASE Turns
  BY <1>5, PlacesHoldEvents DEF Turns, ReadPage, PageFails, NextPage, WasPushed
<1>6. CASE UNCHANGED logVars
  BY <1>6 DEF logVars, reader, WasPushed
<1>7. QED
  BY <1>2, <1>3, <1>4, <1>5, <1>6, LogSteps

\* A page holds the reader's events among the next places.
LEMMA PageHolds ==
  ASSUME LogType, NEW i \in 1 .. Len(log), log[i].mine, offset < i, i <= offset + PageSize
  PROVE  log[i] \in Page
<1> DEFINE mine == {k \in Scanned : log[k].mine}
           upTo == {k \in mine : k <= i}
<1>1. PageSize \in Nat /\ Overscan \in Nat /\ Overscan >= 1 /\ offset \in Nat
  BY PageAssumption DEF LogType
<1>2. PageSize <= PageSize * Overscan
  BY <1>1
<1>3. i \in mine
  BY <1>1, <1>2, PlacesHoldEvents DEF Scanned
<1>4. upTo \in SUBSET ((offset + 1) .. (offset + PageSize))
  BY <1>1, PlacesHoldEvents DEF Scanned
<1>5. /\ IsFiniteSet((offset + 1) .. (offset + PageSize))
      /\ Cardinality((offset + 1) .. (offset + PageSize)) = PageSize
  <2>1. offset + 1 \in Int /\ offset + PageSize \in Int
    BY <1>1
  <2>2. /\ IsFiniteSet((offset + 1) .. (offset + PageSize))
        /\ Cardinality((offset + 1) .. (offset + PageSize)) =
             IF offset + 1 > offset + PageSize THEN 0 ELSE (offset + PageSize) - (offset + 1) + 1
    BY <2>1, FS_Interval
  <2>3. QED
    BY <1>1, <2>2
<1>6. Cardinality(upTo) <= PageSize
  <2> HIDE DEF upTo
  <2>1. QED
    BY <1>1, <1>4, <1>5, FS_Subset
<1>7. i \in {j \in mine : Cardinality({k \in mine : k <= j}) <= PageSize}
  BY <1>3, <1>6
<1>8. Page = {log[j] : j \in {l \in mine : Cardinality({k \in mine : k <= l}) <= PageSize}}
  BY DEF Page
<1>9. QED
  BY <1>7, <1>8, Zenon

\* Every step keeps the reader from missing an event.
LEMMA PagesStep ==
  LogType /\ WasPushed /\ PagesMissNothing /\ [LogNext]_logVars => PagesMissNothing'
<1> SUFFICES ASSUME LogType, WasPushed, PagesMissNothing, [LogNext]_logVars,
                    NEW i \in 1 .. Len(log'), log'[i] \in original', log'[i].mine
             PROVE  log'[i] \in seen' \cup missed' \/ i > offset'
  <2>1. DOMAIN log' = 1 .. Len(log')
    BY LogTypeStep, LenProperties DEF LogType
  <2>2. QED
    BY <2>1 DEF PagesMissNothing
<1>0. \A j \in 1 .. Len(log) : log[j] \in original /\ log[j].mine => log[j] \in seen \cup missed \/ j > offset
  BY PlacesHoldEvents DEF PagesMissNothing
<1>1. ASSUME NEW r \in Requests, Stores(r) PROVE log'[i] \in seen' \cup missed' \/ i > offset'
  <2>1. PICK event \in Event : event.by = r /\ log' = <<event>> \o log
    BY <1>1, StoresEffect
  <2>2. event \in Event /\ event.by = r /\ pc[r] = "push"
        /\ original' = original /\ seen' = seen /\ missed' = missed /\ offset' = offset
    BY <1>1, <2>1, StoresEffect DEF reader
  <2>3. /\ Len(log') = Len(log) + 1 /\ log'[1] = event
        /\ \A j \in 1 .. Len(log) : log'[j + 1] = log[j]
    BY <2>1, <2>2, PushAdds DEF LogType
  <2>4. i # 1
    BY <2>2, <2>3 DEF WasPushed
  <2> DEFINE j == i - 1
  <2>5. j \in 1 .. Len(log) /\ j + 1 = i
    BY <2>3, <2>4, PlacesHoldEvents
  <2> HIDE DEF j
  <2>6. log'[i] = log[j]
    BY <2>3, <2>5
  <2>7. log[j] \in seen \cup missed \/ j > offset
    BY <1>0, <2>2, <2>5, <2>6
  <2>8. QED
    BY <2>2, <2>5, <2>6, <2>7, PlacesHoldEvents DEF LogType
<1>2. ASSUME NEW r \in Requests, Trim(r) PROVE log'[i] \in seen' \cup missed' \/ i > offset'
  <2>1. Len(log') <= Len(log) /\ Len(log') \in Nat /\ log'[i] = log[i]
    BY <1>2, TrimKeeps, PlacesHoldEvents, MaxLogAssumption DEF Trim, Trimmed, LogType
  <2>2. i \in 1 .. Len(log) /\ original' = original /\ seen' = seen /\ missed' = missed /\ offset' = offset
    BY <1>2, <2>1, PlacesHoldEvents DEF Trim, reader
  <2>3. QED
    BY <1>0, <2>1, <2>2
<1>3. ASSUME NEW r \in Requests, Fails(r) PROVE log'[i] \in seen' \cup missed' \/ i > offset'
  BY <1>0, <1>3, FailsEffect DEF reader
<1>4. CASE Turns
  <2>1. /\ log' = log /\ seen' \cup missed' = seen \cup missed \cup Page
        /\ offset' = offset + PageSize
        /\ offset \in Nat /\ PageSize \in Nat
    BY <1>4, PageAssumption DEF Turns, ReadPage, PageFails, NextPage, LogType
  <2>2. i \in 1 .. Len(log) /\ log[i].mine
    BY <2>1
  <2>3. log[i] \in seen \cup missed \/ i > offset
    <3>1. CASE offset = 0
      BY <2>2, <3>1, PlacesHoldEvents
    <3>2. CASE offset # 0
      BY <1>0, <1>4, <2>1, <2>2, <3>2 DEF Turns, ReadPage, PageFails, NextPage
    <3>3. QED
      BY <3>1, <3>2
  <2>4. i > offset /\ ~(i > offset + PageSize) => log[i] \in Page
    <3> SUFFICES ASSUME i > offset, ~(i > offset + PageSize) PROVE log[i] \in Page
      OBVIOUS
    <3>1. offset < i /\ i <= offset + PageSize
      BY <2>1, <2>2, PlacesHoldEvents
    <3>2. QED
      BY <2>2, <3>1, PageHolds
  <2>5. QED
    BY <2>1, <2>3, <2>4
<1>5. CASE UNCHANGED logVars
  BY <1>0, <1>5 DEF logVars, reader
<1>6. QED
  BY <1>1, <1>2, <1>3, <1>4, <1>5, LogSteps

\* Pages leave no event out that stays in the log, but for those whose reading
\* failed: of get_security_events, one offset after the other, while handlers
\* push in front and trim the end, and Redis loses commands or their replies.
THEOREM PagesLeaveNothingOut == LogSpec => []PagesMissNothing
BY ReaderInit, LogTypeCorrect, WasPushedStep, PagesStep, PTL DEF LogSpec
=============================================================================
