----------------------------- MODULE AnswerLoop -----------------------------
(***************************************************************************)
(* What the self-corrective loop promises, without its nodes: a question   *)
(* is attempted at most budget + 1 times, external sources are searched    *)
(* only when the question needs them or the attempts are used up, and an   *)
(* answer is written, unless a step the loop depends on is lost.           *)
(***************************************************************************)
EXTENDS Integers

CONSTANT MaxBudget  \* the largest retry budget

VARIABLES
  phase,     \* preparing, attempting, searching, writing, answered, lost
  attempts,  \* retries made so far
  budget,    \* retries allowed
  external   \* the question can only be answered from external sources

vars == <<phase, attempts, budget, external>>

Init ==
  /\ phase = "preparing"
  /\ attempts = 0
  /\ budget \in 1..MaxBudget
  /\ external = FALSE

\* The question is analysed, which settles the budget.
Analyse ==
  /\ phase = "preparing"
  /\ budget' \in 1..MaxBudget
  /\ UNCHANGED <<phase, attempts, external>>

\* It is small talk, answered at once, or a question to look up.
Classify ==
  /\ phase = "preparing"
  /\ phase' \in {"attempting", "writing"}
  /\ external' \in BOOLEAN
  /\ UNCHANGED <<attempts, budget>>

Retry ==
  /\ phase = "attempting"
  /\ ~external
  /\ attempts < budget
  /\ attempts' = attempts + 1
  /\ UNCHANGED <<phase, budget, external>>

\* What was found is good enough, or as good as it will get.
Accept ==
  /\ phase = "attempting"
  /\ ~external
  /\ phase' = "writing"
  /\ UNCHANGED <<attempts, budget, external>>

GiveUp ==
  /\ phase = "attempting"
  /\ external \/ attempts = budget
  /\ phase' = "searching"
  /\ UNCHANGED <<attempts, budget, external>>

Search ==
  /\ phase = "searching"
  /\ phase' = "writing"
  /\ UNCHANGED <<attempts, budget, external>>

Write ==
  /\ phase = "writing"
  /\ phase' = "answered"
  /\ UNCHANGED <<attempts, budget, external>>

\* Nothing is promised any more, and nothing is remembered.
Lose ==
  /\ phase \in {"attempting", "writing"}
  /\ phase' = "lost"
  /\ attempts' = 0
  /\ budget' = 1
  /\ external' = FALSE

Next ==
  \/ Analyse \/ Classify
  \/ Retry \/ Accept \/ GiveUp
  \/ Search \/ Write
  \/ Lose

\* Analysing alone may not go on for ever.
Progress == Next /\ <<phase, attempts>>' # <<phase, attempts>>

\* The loop without the promise that it goes on.
Safety == Init /\ [][Next]_vars

Spec == Safety /\ WF_vars(Progress)
=============================================================================
