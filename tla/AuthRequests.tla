---------------------------- MODULE AuthRequests ----------------------------
(***************************************************************************)
(* The requests that issue, rotate and revoke (server/auth/router.py):     *)
(* login, refresh, the revocation of one session and of all sessions, on    *)
(* the refresh tokens and the login sessions that Redis keeps, interleaved  *)
(* at every await, while time goes on and calls of Redis fail.             *)
(*                                                                         *)
(* A step is one call of Redis and the code up to the next one.  What these *)
(* handlers do in MongoDB is in Accounts; a request for a user comes from   *)
(* the owner of the account.                                               *)
(***************************************************************************)
EXTENDS LoginSessions

CONSTANTS
  Requests,     \* HTTP requests, each handled once
  Jti,          \* the jti of an access token, which is the id of no session
  MaxTime,      \* bound on the clock
  MaxInFlight,  \* requests handled at the same time
  Failing       \* whether Redis may fail and the server restart

ASSUME ForeverAssumption  == MaxTime \in Nat /\ Forever > MaxTime + SessionLife
ASSUME JtiAssumption      == Jti \notin Sessions
ASSUME InFlightAssumption == MaxInFlight \in Nat \ {0}
ASSUME FailingAssumption  == Failing \in BOOLEAN

VARIABLES
  call,        \* the call each request makes
  pc,          \* the step each request takes next
  started,     \* when each request began
  session,     \* the session a login is making
  scanned,     \* the names a revocation of all sessions has yet to remove
  made,        \* history: the ids of sessions that were made up
  clash,       \* history: chains with two refreshes of a token at once, or a failure
  cut,         \* history: sessions whose login was cut off
  ended        \* history: sessions a user had when all were revoked

redis   == <<blacklist, hash, index, indexEnd>>
history == <<made, clash, cut, ended>>
vars    == <<now, token, redis, call, pc, started, session, scanned, history>>

----------------------------------------------------------------------------
Names == Sessions \cup {Jti}

\* logout asks for the session by the jti of its access token.
Calls == [op : {"login", "revoke all"}, user : Users]
         \cup [op : {"refresh"}, token : Tokens]
         \cup [op : {"revoke"}, user : Users, name : Names]

NoCall == [op |-> "none"]

InFlight == {r \in Requests : pc[r] \notin {"idle", "done"}}

Init ==
  /\ now = 0
  /\ token = [t \in Tokens |-> None]
  /\ blacklist = [t \in Tokens |-> 0]
  /\ hash = [s \in Sessions |-> None]
  /\ index = [u \in Users |-> {}]
  /\ indexEnd = [u \in Users |-> 0]
  /\ call = [r \in Requests |-> NoCall]
  /\ pc = [r \in Requests |-> "idle"]
  /\ started = [r \in Requests |-> 0]
  /\ session = [r \in Requests |-> None]
  /\ scanned = [r \in Requests |-> {}]
  /\ made = {} /\ clash = {} /\ cut = {}
  /\ ended = [u \in Users |-> {}]

Goto(r, step) == pc' = [pc EXCEPT ![r] = step]

\* The request is answered, or cut off.
Done(r) ==
  /\ Goto(r, "done")
  /\ call' = [call EXCEPT ![r] = NoCall]
  /\ started' = [started EXCEPT ![r] = 0]
  /\ session' = [session EXCEPT ![r] = None]
  /\ scanned' = [scanned EXCEPT ![r] = {}]

Continue(r, step) == Goto(r, step) /\ UNCHANGED <<call, started, session, scanned>>

\* The chains of the tokens a request refreshes.
Chains(requests) == {token[call[q].token].chain : q \in {p \in requests : call[p].op = "refresh"}}

Tick ==
  /\ now < MaxTime
  /\ now' = now + 1
  /\ DropEntries(now')
  /\ DropSessions(now')
  /\ UNCHANGED <<token, call, pc, started, session, scanned, history>>

----------------------------------------------------------------------------
(* The beginning of a request, up to its first call of Redis. *)

\* create_token_pair and the id and the time of create_session.
BeginLogin(r, c) ==
  /\ c.op = "login"
  /\ \E s \in Sessions :
       /\ s \notin made
       /\ made' = made \cup {s}
       /\ session' = [session EXCEPT ![r] = s]
  /\ Goto(r, "add session")
  /\ UNCHANGED clash

\* The token is decoded, which shows that it is a refresh token.
BeginRefresh(r, c) ==
  /\ c.op = "refresh"
  /\ Decodes(c.token)
  /\ clash' = IF \E q \in InFlight : call[q] = c
              THEN clash \cup {token[c.token].chain} ELSE clash
  /\ Goto(r, "check")
  /\ UNCHANGED <<session, made>>

BeginRevoke(r, c) ==
  /\ \/ c.op = "revoke" /\ Goto(r, "own")
     \/ c.op = "revoke all" /\ Goto(r, "scan")
  /\ UNCHANGED <<session, made, clash>>

Begin(r) ==
  /\ pc[r] = "idle"
  /\ Cardinality(InFlight) < MaxInFlight
  /\ \E c \in Calls :
       /\ BeginLogin(r, c) \/ BeginRefresh(r, c) \/ BeginRevoke(r, c)
       /\ call' = [call EXCEPT ![r] = c]
  /\ started' = [started EXCEPT ![r] = now]
  /\ UNCHANGED <<now, token, redis, scanned, cut, ended>>

----------------------------------------------------------------------------
(* login, register: create_session *)

Add(r) ==
  /\ pc[r] = "add session"
  /\ AddSession(session[r], call[r].user, started[r])
  /\ Continue(r, "set fields")
  /\ UNCHANGED <<now, token, blacklist, history>>

Describe(r) ==
  /\ pc[r] = "set fields"
  /\ SetFields(session[r])
  /\ Continue(r, "extend")
  /\ UNCHANGED <<now, token, blacklist, index, indexEnd, history>>

\* The tokens were made before the session; now the client gets them.
Login(r) ==
  /\ pc[r] = "extend"
  /\ Extend(session[r])
  /\ \E t \in Tokens : Issue(t, call[r].user, t, started[r] + RefreshLife)
  /\ Done(r)
  /\ UNCHANGED <<now, blacklist, index, indexEnd, history>>

----------------------------------------------------------------------------
(* refresh: refresh_token_pair *)

\* Mutant: a token that is on the blacklist is good for a refresh.
Granted_AnyDecoded(t) == Decodes(t) /\ ~Expired(t)

\* What is asked once the answer about the blacklist is there.
Granted(t) == ~Blacklisted(t) /\ Decodes(t) /\ ~Expired(t)

Check(r) ==
  /\ pc[r] = "check"
  /\ IF Granted(call[r].token) THEN Continue(r, "rotate") ELSE Done(r)
  /\ UNCHANGED <<now, token, redis, history>>

\* The user, and the chain, of the token that is replaced.
Successor(t) ==
  \E new \in Tokens : Issue(new, token[t].user, token[t].chain, now + RefreshLife)

\* Whether the blacklist had the token already makes no difference.
Rotate(r) ==
  /\ pc[r] = "rotate"
  /\ Blacklist(call[r].token)
  /\ Successor(call[r].token)
  /\ Done(r)
  /\ UNCHANGED <<now, hash, index, indexEnd, history>>

----------------------------------------------------------------------------
(* revoke_session and revoke_all_sessions *)

CheckOwner(r) ==
  /\ pc[r] = "own"
  /\ LET h == HashOf(call[r].name) IN
     IF h # None /\ h.user = call[r].user THEN Continue(r, "remove") ELSE Done(r)
  /\ UNCHANGED <<now, token, redis, history>>

Revoke(r) ==
  /\ pc[r] = "remove"
  /\ RemoveSession(call[r].name, call[r].user)
  /\ Done(r)
  /\ UNCHANGED <<now, token, blacklist, history>>

SessionsOf(user) == {s \in Sessions : hash[s] # None /\ hash[s].user = user}

Scan(r) ==
  /\ pc[r] = "scan"
  /\ scanned' = [scanned EXCEPT ![r] = index[call[r].user]]
  /\ Goto(r, "remove all")
  /\ UNCHANGED <<now, token, redis, call, started, session, history>>

\* The members of the set are taken for ids.
RemoveNext(r) ==
  /\ pc[r] = "remove all"
  /\ \E name \in scanned[r] :
       /\ RemoveSession(name, call[r].user)
       /\ scanned' = [scanned EXCEPT ![r] = @ \ {name}]
  /\ UNCHANGED <<now, token, blacklist, call, pc, started, session, history>>

\* All sessions the user had before the request began were to end.
RevokedAll(r) ==
  /\ pc[r] = "remove all"
  /\ scanned[r] = {}
  /\ ended' = [ended EXCEPT ![call[r].user] =
                 @ \cup {s \in SessionsOf(call[r].user) : hash[s].created < started[r]}]
  /\ Done(r)
  /\ UNCHANGED <<now, token, redis, made, clash, cut>>

----------------------------------------------------------------------------
(* Failures *)

\* An error of Redis counts as "not revoked".
CheckUnanswered(r) ==
  /\ Failing
  /\ pc[r] = "check"
  /\ clash' = clash \cup Chains({r})
  /\ LET t == call[r].token IN
     IF Decodes(t) /\ ~Expired(t) THEN Continue(r, "rotate") ELSE Done(r)
  /\ UNCHANGED <<now, token, redis, made, cut, ended>>

\* The rotation goes on after an error, whether or not the entry was made.
RotateUnanswered(r) ==
  /\ Failing
  /\ pc[r] = "rotate"
  /\ clash' = clash \cup Chains({r})
  /\ Blacklist(call[r].token) \/ UNCHANGED blacklist
  /\ Successor(call[r].token)
  /\ Done(r)
  /\ UNCHANGED <<now, hash, index, indexEnd, made, cut, ended>>

\* The server restarts, or an error of Redis ends a login or a revocation,
\* before the next call.
Fail(r) ==
  /\ Failing
  /\ r \in InFlight
  /\ cut' = cut \cup ({session[r]} \ {None})
  /\ Done(r)
  /\ UNCHANGED <<now, token, redis, made, clash, ended>>

Next ==
  \/ Tick
  \/ \E r \in Requests :
       \/ Begin(r)
       \/ Add(r) \/ Describe(r) \/ Login(r)
       \/ Check(r) \/ Rotate(r)
       \/ CheckOwner(r) \/ Revoke(r)
       \/ Scan(r) \/ RemoveNext(r) \/ RevokedAll(r)
       \/ CheckUnanswered(r) \/ RotateUnanswered(r) \/ Fail(r)

Spec == Init /\ [][Next]_vars

----------------------------------------------------------------------------
(* Properties *)

Steps == {"idle", "add session", "set fields", "extend", "check", "rotate",
          "own", "remove", "scan", "remove all", "done"}

MemberNames == {DetailKey(s) : s \in Sessions}

\* The clock, the tokens of the clients and the blacklist.
TokenType ==
  /\ now \in 0 .. MaxTime
  /\ token \in [Tokens -> Token \cup {None}]
  /\ blacklist \in [Tokens -> Nat]

\* The sessions in Redis.
SessionType ==
  /\ hash \in [Sessions -> Hash \cup {None}]
  /\ index \in [Users -> SUBSET MemberNames]
  /\ indexEnd \in [Users -> Nat]
  /\ \A u \in Users : index[u] = {} <=> indexEnd[u] = 0

\* What the requests hold.
RequestType ==
  /\ call \in [Requests -> Calls \cup {NoCall}]
  /\ pc \in [Requests -> Steps]
  /\ started \in [Requests -> Nat]
  /\ session \in [Requests -> Sessions \cup {None}]
  /\ scanned \in [Requests -> SUBSET MemberNames]

\* What is remembered for the properties.
HistoryType ==
  /\ made \subseteq Sessions
  /\ clash \subseteq Tokens
  /\ cut \subseteq Sessions
  /\ ended \in [Users -> SUBSET Sessions]

\* The variables stay within their types; a set exists exactly while it has
\* members.
TypeOK == TokenType /\ SessionType /\ RequestType /\ HistoryType

\* At any time one token at most of those that go back to one login is good
\* for a refresh, unless two refreshes of one token were handled at once or
\* Redis did not answer one.
OneUsableToken ==
  \A t1, t2 \in Tokens :
    /\ Usable(t1) /\ Usable(t2)
    /\ token[t1].chain = token[t2].chain
    /\ token[t1].chain \notin clash
    => t1 = t2

\* A token that was used up or has expired never becomes good again: the entry
\* in the blacklist outlives the token, whatever fails and whatever interleaves.
SpentStaysSpent == [][\A t \in Tokens : Spent(t) => Spent(t)']_vars

\* For as long as a session was meant to last its user's set has it, although
\* the two have lifetimes of their own.
IndexCovers ==
  \A s \in Sessions, u \in Users :
    s \in SessionsOf(u) /\ now < hash[s].created + SessionLife => DetailKey(s) \in index[u]

\* Every session ends by itself, except one that is being made, or whose login
\* was cut off while it was.
SessionsEnd ==
  \A s \in Sessions :
    hash[s] # None /\ hash[s].end = Forever =>
      s \in cut \/ \E r \in Requests : pc[r] = "extend" /\ session[r] = s

----------------------------------------------------------------------------
(* What reset_password says of itself. *)

\* "Revoke all sessions (force re-login)".
ResetEndsSessions ==
  \A u \in Users : ended[u] \cap SessionsOf(u) = {}
=============================================================================
