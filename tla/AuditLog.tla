------------------------------ MODULE AuditLog ------------------------------
(***************************************************************************)
(* The log of security events (server/auth/security_events.py): a Redis    *)
(* list, newest first, that handlers push to and trim by two commands,      *)
(* while a reader pages through it with get_security_events.                *)
(*                                                                         *)
(* Of an event only who logged it is kept, and whether it names the user    *)
(* the reader asks for.                                                    *)
(***************************************************************************)
EXTENDS RedisRequests, Sequences

CONSTANTS
  MaxLog,    \* MAX_LOG_ENTRIES
  PageSize,  \* the limit the reader asks for
  Overscan   \* a page looks at that many times its limit

ASSUME MaxLogAssumption  == MaxLog \in Nat \ {0}
ASSUME PageAssumption    == PageSize \in Nat \ {0} /\ Overscan \in Nat \ {0}

VARIABLES
  log,       \* the list
  pc,        \* the step each request takes next
  offset,    \* where the reader's next page begins
  pushed,    \* history: every event that was pushed, newest first
  untrimmed, \* history: requests with an event and no trim since the last trim that ran
  original,  \* history: the events in the log when the reader began
  seen,      \* history: the events the reader was given
  missed     \* history: the events of pages whose reading failed

reader == <<offset, original, seen, missed>>
logVars   == <<log, pc, pushed, untrimmed, reader>>

----------------------------------------------------------------------------
First(seq, n) == SubSeq(seq, 1, IF Len(seq) < n THEN Len(seq) ELSE n)

LogInit ==
  /\ log = <<>> /\ pushed = <<>>
  /\ pc = [r \in Requests |-> "push"]
  /\ untrimmed = {}
  /\ offset = 0 /\ original = {} /\ seen = {} /\ missed = {}

Goto(r, step) == pc' = [pc EXCEPT ![r] = step]

\* LPUSH.
Pushed(event) == <<event>> \o log

\* Mutant: the end of the range, which is inclusive, is not lowered by one.
Trimmed_OneMore == First(log, MaxLog + 1)

\* LTRIM 0 MAX_LOG_ENTRIES - 1.
Trimmed == First(log, MaxLog)

\* The events that the helpers for logins, logouts, passwords and sessions make:
\* that of a failed login names nobody, all others name their user.
Events(r) == [by : {r}, mine : BOOLEAN]

Store(r) == \E event \in Events(r) : log' = Pushed(event) /\ pushed' = <<event>> \o pushed

\* log_security_event: the push ...
Push(r) ==
  /\ pc[r] = "push"
  /\ Store(r)
  /\ Goto(r, "trim")
  /\ UNCHANGED <<untrimmed, reader>>

\* ... and the trim, whose reply makes no difference.
Trim(r) ==
  /\ pc[r] = "trim"
  /\ log' = Trimmed
  /\ untrimmed' = {}
  /\ Goto(r, "done")
  /\ UNCHANGED <<pushed, reader>>

\* An error of the push is swallowed, and the trim is not tried: the event is
\* stored if only the reply was lost.
PushFails(r) ==
  /\ Failing
  /\ pc[r] = "push"
  /\ \/ UNCHANGED <<log, pushed, untrimmed>>
     \/ Store(r) /\ untrimmed' = untrimmed \cup {r}
  /\ Goto(r, "done")
  /\ UNCHANGED reader

\* An error of the trim is swallowed as well.
TrimFails(r) ==
  /\ Failing
  /\ pc[r] = "trim"
  /\ untrimmed' = untrimmed \cup {r}
  /\ Goto(r, "done")
  /\ UNCHANGED <<log, pushed, reader>>

----------------------------------------------------------------------------
(* get_security_events, with one offset after the other *)

\* Mutant: the offset counts what a page looks at, not what it returns.
Scanned_Far == {i \in DOMAIN log : offset * Overscan < i /\ i <= (offset + PageSize) * Overscan}

\* Where a page looks.
Scanned == {i \in DOMAIN log : offset < i /\ i <= offset + PageSize * Overscan}

\* The first events of the user in it.
Page ==
  LET mine == {i \in Scanned : log[i].mine} IN
  {log[i] : i \in {j \in mine : Cardinality({k \in mine : k <= j}) <= PageSize}}

\* The reader takes the page for read.
NextPage ==
  /\ offset < Len(log)
  /\ original' = IF offset = 0 THEN {log[i] : i \in DOMAIN log} ELSE original
  /\ offset' = offset + PageSize
  /\ UNCHANGED <<log, pc, pushed, untrimmed>>

ReadPage == NextPage /\ seen' = seen \cup Page /\ UNCHANGED missed

\* An error of Redis reads as an empty page, and the reader goes on after it.
PageFails == Failing /\ NextPage /\ missed' = missed \cup Page /\ UNCHANGED seen

LogNext ==
  \/ \E r \in Requests : Push(r) \/ Trim(r) \/ PushFails(r) \/ TrimFails(r)
  \/ ReadPage \/ PageFails

LogSpec == LogInit /\ [][LogNext]_logVars

----------------------------------------------------------------------------
(* Properties *)

\* The log is what was pushed last, in order; nothing of it is lost before its
\* bound is reached, and it is over its bound by no more than the pushes whose
\* trim is still to come, or failed or was left out since the last one that ran.
LogIsMostRecent ==
  /\ log = First(pushed, Len(log))
  /\ Len(log) < MaxLog => log = pushed
  /\ Len(log) <= MaxLog + Cardinality({r \in Requests : pc[r] = "trim"} \cup untrimmed)

\* An event of the user that was in the log when the reader began was given to
\* the reader, or is still ahead of it, or was trimmed, or was on a page whose
\* reading failed: pages may overlap when events are logged in between, and
\* none that is read leaves one out.
PagesMissNothing ==
  \A i \in DOMAIN log :
    log[i] \in original /\ log[i].mine => log[i] \in seen \cup missed \/ i > offset
=============================================================================
