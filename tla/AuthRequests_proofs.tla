------------------------ MODULE AuthRequests_proofs ------------------------
(***************************************************************************)
(* Proofs about AuthRequests, for any number of users, tokens, sessions and *)
(* requests, any lifetimes and any bound on the clock and on the requests   *)
(* in flight.                                                              *)
(*                                                                         *)
(* First what is said of the helpers that every action is built from, then  *)
(* the type invariant together with what a request at each step holds, and  *)
(* then the safety properties, each with the strengthening that makes it    *)
(* inductive.                                                              *)
(***************************************************************************)
EXTENDS AuthRequests, TLAPS

RefreshCalls == [op : {"refresh"}, token : Tokens]
UserCalls    == [op : {"login", "revoke all"}, user : Users]
                \cup [op : {"revoke"}, user : Users, name : Names]

LoginSteps   == {"add session", "set fields", "extend"}
RefreshSteps == {"check", "rotate"}
RevokeSteps  == {"own", "remove", "scan", "remove all"}

\* What a request holds at each of its steps.
CallOK(r) ==
  /\ pc[r] \in RefreshSteps => call[r] \in RefreshCalls /\ token[call[r].token] # None
  /\ pc[r] \in LoginSteps \cup RevokeSteps => call[r] \in UserCalls
  /\ pc[r] \in LoginSteps => session[r] \in Sessions

TypeInv == TypeOK /\ \A r \in Requests : CallOK(r)

----------------------------------------------------------------------------
(* Helpers *)

\* The calls are those for a user and those with a token.
LEMMA CallsAre ==
  /\ Calls = UserCalls \cup RefreshCalls
  /\ \A c \in UserCalls : c.user \in Users /\ c.op # "refresh"
  /\ \A c \in RefreshCalls : c.token \in Tokens /\ c.op = "refresh"
BY DEF Calls, UserCalls, RefreshCalls

\* A refresh is its token.
LEMMA RefreshIsItsToken ==
  ASSUME NEW c \in RefreshCalls, NEW d \in RefreshCalls, c.token = d.token
  PROVE  c = d
BY DEF RefreshCalls

\* A request that is answered is forgotten, and no other one is touched.
LEMMA DoneEffect ==
  ASSUME RequestType, NEW r \in Requests, Done(r)
  PROVE  /\ RequestType'
         /\ pc'[r] = "done" /\ call'[r] = NoCall /\ session'[r] = None /\ started'[r] = 0
         /\ \A q \in Requests \ {r} :
              /\ pc'[q] = pc[q] /\ call'[q] = call[q] /\ session'[q] = session[q]
              /\ started'[q] = started[q]
<1>1. "done" \in Steps
  BY DEF Steps
<1>2. QED
  BY <1>1 DEF RequestType, Done, Goto

\* A request that goes on keeps what it holds, and no other one is touched.
LEMMA ContinueEffect ==
  ASSUME RequestType, NEW r \in Requests, NEW step \in Steps, Continue(r, step)
  PROVE  /\ RequestType'
         /\ pc'[r] = step
         /\ UNCHANGED <<call, session, started>>
         /\ \A q \in Requests \ {r} : pc'[q] = pc[q]
BY DEF RequestType, Continue, Goto

\* Issuing gives a token that was not there, and touches no other one.
LEMMA IssueEffect ==
  ASSUME token \in [Tokens -> Token \cup {None}],
         NEW t \in Tokens, NEW user \in Users, NEW chain \in Tokens, NEW exp \in Nat,
         Issue(t, user, chain, exp)
  PROVE  /\ token' \in [Tokens -> Token \cup {None}]
         /\ token[t] = None
         /\ token'[t] \in Token /\ token'[t] # None
         /\ token'[t].exp = exp /\ token'[t].chain = chain
         /\ \A x \in Tokens \ {t} : token'[x] = token[x]
BY NoneAssumption DEF Issue, Token

\* The blacklist has the token then, and no other entry changes.
LEMMA BlacklistEffect ==
  ASSUME TokenType, NEW t \in Tokens, Blacklist(t)
  PROVE  /\ blacklist' \in [Tokens -> Nat]
         /\ blacklist'[t] \in {blacklist[t], now + RefreshLife}
         /\ blacklist'[t] # 0
         /\ \A x \in Tokens \ {t} : blacklist'[x] = blacklist[x]
<1>1. now \in Nat /\ RefreshLife \in Nat \ {0}
  BY LifeAssumption DEF TokenType
<1>2. QED
  BY <1>1 DEF TokenType, Blacklist, Blacklisted

\* The commands on sessions keep the types and the two halves of a set together.
LEMMA AddSessionType ==
  ASSUME SessionType, now \in Nat,
         NEW s \in Sessions, NEW user \in Users, NEW created \in Nat,
         AddSession(s, user, created)
  PROVE  SessionType'
<1>1. now + SessionLife \in Nat \ {0}
  BY SessionLifeAssumption
<1>2. DetailKey(s) \in MemberNames
  BY DEF MemberNames
<1>3. [user |-> user, created |-> created, end |-> now + SessionLife] \in Hash
  BY <1>1 DEF Hash
<1>4. hash' \in [Sessions -> Hash \cup {None}]
  BY <1>3 DEF SessionType, AddSession
<1>5. index' \in [Users -> SUBSET MemberNames] /\ indexEnd' \in [Users -> Nat]
  BY <1>1, <1>2 DEF SessionType, AddSession
<1>6. \A u \in Users : index'[u] = {} <=> indexEnd'[u] = 0
  BY <1>1 DEF SessionType, AddSession
<1>7. QED
  BY <1>4, <1>5, <1>6 DEF SessionType

\* So does HSET ...
LEMMA SetFieldsType ==
  ASSUME SessionType, NEW s \in Sessions, SetFields(s)
  PROVE  hash' \in [Sessions -> Hash \cup {None}]
BY SessionLifeAssumption DEF SessionType, SetFields, Hash

\* ... and EXPIRE ...
LEMMA ExtendType ==
  ASSUME SessionType, now \in Nat, NEW s \in Sessions, Extend(s)
  PROVE  hash' \in [Sessions -> Hash \cup {None}]
<1>1. CASE hash[s] = None
  BY <1>1 DEF SessionType, Extend
<1>2. CASE hash[s] # None
  <2>1. hash[s] \in Hash
    BY <1>2 DEF SessionType
  <2>2. [hash[s] EXCEPT !.end = now + SessionLife] \in Hash
    BY <2>1, SessionLifeAssumption DEF Hash
  <2>3. hash' = [hash EXCEPT ![s] = [hash[s] EXCEPT !.end = now + SessionLife]]
    BY <1>2 DEF Extend
  <2>4. QED
    BY <2>2, <2>3 DEF SessionType
<1>3. QED
  BY <1>1, <1>2

\* ... the removing script, which drops a set with its last member ...
LEMMA RemoveSessionType ==
  ASSUME SessionType, NEW name, NEW user \in Users, RemoveSession(name, user)
  PROVE  SessionType'
<1>1. hash' \in [Sessions -> Hash \cup {None}]
  BY DEF SessionType, RemoveSession
<1>2. index' \in [Users -> SUBSET MemberNames]
  BY DEF SessionType, RemoveSession
<1>3. indexEnd' \in [Users -> Nat]
  BY DEF SessionType, RemoveSession
<1>4. \A u \in Users : index'[u] = {} <=> indexEnd'[u] = 0
  BY DEF SessionType, RemoveSession
<1>5. QED
  BY <1>1, <1>2, <1>3, <1>4 DEF SessionType

\* ... and the passing of time.
LEMMA DropSessionsType ==
  ASSUME SessionType, NEW time \in Nat, DropSessions(time)
  PROVE  SessionType'
BY DEF SessionType, DropSessions

----------------------------------------------------------------------------
(* The type invariant. *)

\* The steps of a request that touch no token leave the other requests' calls
\* as they are.
LEMMA CallsKept ==
  ASSUME TypeInv, NEW r \in Requests, UNCHANGED token, CallOK(r)',
         \A q \in Requests \ {r} :
           pc'[q] = pc[q] /\ call'[q] = call[q] /\ session'[q] = session[q]
  PROVE  \A q \in Requests : CallOK(q)'
BY DEF TypeInv, CallOK

\* Nor does a step that issues a token, since it takes one that was not there.
LEMMA CallsKeptByIssue ==
  ASSUME TypeInv, NEW r \in Requests, Done(r),
         NEW t \in Tokens, token[t] = None, \A x \in Tokens \ {t} : token'[x] = token[x]
  PROVE  \A q \in Requests : CallOK(q)'
<1>1. TypeOK /\ RequestType
  BY DEF TypeInv, TypeOK
<1>2. CallOK(r)'
  BY <1>1, DoneEffect DEF CallOK, RefreshSteps, LoginSteps, RevokeSteps
<1>3. ASSUME NEW q \in Requests \ {r} PROVE CallOK(q)'
  <2>1. CallOK(q)
    BY DEF TypeInv
  <2>2. pc[q] \in RefreshSteps => call[q].token \in Tokens \ {t}
    BY <2>1, CallsAre DEF CallOK
  <2>3. pc'[q] = pc[q] /\ call'[q] = call[q] /\ session'[q] = session[q]
    BY <1>1, DoneEffect
  <2>4. QED
    BY <2>1, <2>2, <2>3 DEF CallOK
<1>4. QED
  BY <1>2, <1>3

\* What a request that is answered holds.
LEMMA DoneOK ==
  ASSUME TypeInv, NEW r \in Requests, Done(r), UNCHANGED token
  PROVE  RequestType' /\ \A q \in Requests : CallOK(q)'
<1>1. RequestType
  BY DEF TypeInv, TypeOK
<1>2. CallOK(r)'
  BY <1>1, DoneEffect DEF CallOK, RefreshSteps, LoginSteps, RevokeSteps
<1>3. QED
  BY <1>1, <1>2, DoneEffect, CallsKept

\* Steps of one kind follow each other, but for those that a request begins with.
LEMMA ContinueOK ==
  ASSUME TypeInv, NEW r \in Requests, NEW step, Continue(r, step), UNCHANGED token,
         \/ pc[r] \in LoginSteps /\ step \in LoginSteps
         \/ pc[r] \in RefreshSteps /\ step \in RefreshSteps
         \/ pc[r] \in RevokeSteps /\ step \in RevokeSteps
  PROVE  RequestType' /\ \A q \in Requests : CallOK(q)'
<1>1. RequestType /\ CallOK(r)
  BY DEF TypeInv, TypeOK
<1>2. step \in Steps
  BY DEF Steps, LoginSteps, RefreshSteps, RevokeSteps
<1>3. /\ RequestType' /\ pc'[r] = step
      /\ UNCHANGED <<call, session>>
      /\ \A q \in Requests \ {r} : pc'[q] = pc[q]
  BY <1>1, <1>2, ContinueEffect
<1>4. CallOK(r)'
  BY <1>1, <1>3 DEF CallOK, LoginSteps, RefreshSteps, RevokeSteps
<1>5. QED
  BY <1>3, <1>4, CallsKept

\* The set of the user whose session is added, removed or looked for.
LEMMA UserOfCall ==
  ASSUME TypeInv, NEW r \in Requests, pc[r] \in LoginSteps \cup RevokeSteps
  PROVE  call[r].user \in Users
BY CallsAre DEF TypeInv, CallOK

\* The token of a refresh was issued.
LEMMA TokenOfCall ==
  ASSUME TypeInv, NEW r \in Requests, pc[r] \in RefreshSteps
  PROVE  /\ call[r].token \in Tokens
         /\ token[call[r].token] # None
         /\ token[call[r].token] \in Token
         /\ token[call[r].token].chain \in Tokens
         /\ token[call[r].token].user \in Users
         /\ call[r] \in RefreshCalls
         /\ Chains({r}) = {token[call[r].token].chain}
<1>1. call[r] \in RefreshCalls /\ token[call[r].token] # None
  BY DEF TypeInv, CallOK
<1>2. call[r].token \in Tokens /\ call[r].op = "refresh"
  BY <1>1, CallsAre
<1>3. token[call[r].token] \in Token
  BY <1>1, <1>2 DEF TypeInv, TypeOK, TokenType
<1>4. Chains({r}) = {token[call[r].token].chain}
  BY <1>2 DEF Chains
<1>5. QED
  BY <1>1, <1>2, <1>3, <1>4 DEF Token

\* A new request holds the call it begins with.
LEMMA BeginOK ==
  ASSUME TypeInv, NEW r \in Requests, Begin(r)
  PROVE  TypeInv'
<1>1. RequestType /\ HistoryType /\ TokenType /\ SessionType /\ now \in Nat
  BY DEF TypeInv, TypeOK, TokenType
<1>2. PICK c \in Calls :
        /\ BeginLogin(r, c) \/ BeginRefresh(r, c) \/ BeginRevoke(r, c)
        /\ call' = [call EXCEPT ![r] = c]
  BY DEF Begin
<1>3. UNCHANGED <<now, token, redis, scanned, cut, ended>> /\ started' = [started EXCEPT ![r] = now]
  BY DEF Begin
<1>4. TokenType' /\ SessionType'
  BY <1>1, <1>3 DEF TokenType, SessionType, redis
<1>5. /\ call' \in [Requests -> Calls \cup {NoCall}]
      /\ call'[r] = c /\ \A q \in Requests \ {r} : call'[q] = call[q]
      /\ started' \in [Requests -> Nat] /\ scanned' \in [Requests -> SUBSET MemberNames]
  BY <1>1, <1>2, <1>3 DEF RequestType
<1>6. CASE BeginLogin(r, c)
  <2>1. PICK s \in Sessions : made' = made \cup {s} /\ session' = [session EXCEPT ![r] = s]
    BY <1>6 DEF BeginLogin
  <2>2. pc' = [pc EXCEPT ![r] = "add session"] /\ UNCHANGED clash /\ c.op = "login"
    BY <1>6 DEF BeginLogin, Goto
  <2>3. RequestType'
    BY <1>1, <1>5, <2>1, <2>2 DEF RequestType, Steps
  <2>4. HistoryType'
    BY <1>1, <1>3, <2>1, <2>2 DEF HistoryType
  <2>5. c \in UserCalls
    BY <2>2, CallsAre
  <2>6. CallOK(r)'
    BY <1>1, <1>5, <2>1, <2>2, <2>5 DEF CallOK, RequestType, RefreshSteps
  <2>7. \A q \in Requests \ {r} : pc'[q] = pc[q] /\ call'[q] = call[q] /\ session'[q] = session[q]
    BY <1>1, <1>5, <2>1, <2>2 DEF RequestType
  <2>8. QED
    BY <1>3, <1>4, <2>3, <2>4, <2>6, <2>7, CallsKept DEF TypeInv, TypeOK
<1>7. CASE BeginRefresh(r, c)
  <2>1. /\ pc' = [pc EXCEPT ![r] = "check"] /\ UNCHANGED <<session, made>>
        /\ c.op = "refresh" /\ token[c.token] # None
        /\ clash' \in {clash, clash \cup {token[c.token].chain}}
    BY <1>7 DEF BeginRefresh, Goto, Decodes
  <2>2. c \in RefreshCalls /\ c.token \in Tokens
    BY <2>1, CallsAre
  <2>3. token[c.token].chain \in Tokens
    BY <1>1, <2>1, <2>2 DEF TokenType, Token
  <2>4. RequestType'
    BY <1>1, <1>5, <2>1 DEF RequestType, Steps
  <2>5. HistoryType'
    BY <1>1, <1>3, <2>1, <2>3 DEF HistoryType
  <2>6. CallOK(r)'
    BY <1>1, <1>3, <1>5, <2>1, <2>2 DEF CallOK, RequestType, LoginSteps, RevokeSteps
  <2>7. \A q \in Requests \ {r} : pc'[q] = pc[q] /\ call'[q] = call[q] /\ session'[q] = session[q]
    BY <1>1, <1>5, <2>1 DEF RequestType
  <2>8. QED
    BY <1>3, <1>4, <2>4, <2>5, <2>6, <2>7, CallsKept DEF TypeInv, TypeOK
<1>8. CASE BeginRevoke(r, c)
  <2>1. PICK step \in {"own", "scan"} : pc' = [pc EXCEPT ![r] = step]
    BY <1>8 DEF BeginRevoke, Goto
  <2>2. UNCHANGED <<session, made, clash>> /\ c.op # "refresh"
    BY <1>8 DEF BeginRevoke
  <2>3. RequestType'
    BY <1>1, <1>5, <2>1, <2>2 DEF RequestType, Steps
  <2>4. HistoryType'
    BY <1>1, <1>3, <2>2 DEF HistoryType
  <2>5. c \in UserCalls
    BY <2>2, CallsAre
  <2>6. CallOK(r)'
    BY <1>1, <1>5, <2>1, <2>5 DEF CallOK, RequestType, RefreshSteps, LoginSteps
  <2>7. \A q \in Requests \ {r} : pc'[q] = pc[q] /\ call'[q] = call[q] /\ session'[q] = session[q]
    BY <1>1, <1>5, <2>1, <2>2 DEF RequestType
  <2>8. QED
    BY <1>3, <1>4, <2>3, <2>4, <2>6, <2>7, CallsKept DEF TypeInv, TypeOK
<1>9. QED
  BY <1>2, <1>6, <1>7, <1>8

\* A refresh that is granted replaces its token by one of the same user and
\* login.
LEMMA SuccessorEffect ==
  ASSUME TypeInv, NEW r \in Requests, pc[r] = "rotate", Successor(call[r].token), Done(r)
  PROVE  /\ token' \in [Tokens -> Token \cup {None}]
         /\ RequestType' /\ \A q \in Requests : CallOK(q)'
         /\ \E new \in Tokens :
              /\ token[new] = None
              /\ token'[new] \in Token /\ token'[new] # None
              /\ token'[new].exp = now + RefreshLife
              /\ token'[new].chain = token[call[r].token].chain
              /\ \A x \in Tokens \ {new} : token'[x] = token[x]
<1> DEFINE t == call[r].token
<1>1. token[t].user \in Users /\ token[t].chain \in Tokens
  BY TokenOfCall DEF RefreshSteps
<1>2. RequestType /\ TokenType /\ now + RefreshLife \in Nat
  BY LifeAssumption DEF TypeInv, TypeOK, TokenType
<1>3. PICK new \in Tokens : Issue(new, token[t].user, token[t].chain, now + RefreshLife)
  BY DEF Successor
<1>4. /\ token' \in [Tokens -> Token \cup {None}]
      /\ token[new] = None
      /\ token'[new] \in Token /\ token'[new] # None
      /\ token'[new].exp = now + RefreshLife
      /\ token'[new].chain = token[t].chain
      /\ \A x \in Tokens \ {new} : token'[x] = token[x]
  BY <1>1, <1>2, <1>3, IssueEffect DEF TokenType
<1>5. QED
  BY <1>2, <1>4, CallsKeptByIssue, DoneEffect

\* A login ends with a token that starts a chain.
LEMMA LoginEffect ==
  ASSUME TypeInv, NEW r \in Requests, Login(r)
  PROVE  /\ token' \in [Tokens -> Token \cup {None}]
         /\ RequestType' /\ \A q \in Requests : CallOK(q)'
         /\ \E new \in Tokens :
              /\ token[new] = None
              /\ token'[new] \in Token /\ token'[new] # None
              /\ token'[new].exp = started[r] + RefreshLife
              /\ token'[new].chain = new
              /\ \A x \in Tokens \ {new} : token'[x] = token[x]
<1>1. call[r].user \in Users
  BY UserOfCall DEF Login, LoginSteps
<1>2. RequestType /\ TokenType /\ started[r] + RefreshLife \in Nat
  BY LifeAssumption DEF TypeInv, TypeOK, RequestType
<1>3. PICK new \in Tokens : Issue(new, call[r].user, new, started[r] + RefreshLife)
  BY DEF Login
<1>4. /\ token' \in [Tokens -> Token \cup {None}]
      /\ token[new] = None
      /\ token'[new] \in Token /\ token'[new] # None
      /\ token'[new].exp = started[r] + RefreshLife
      /\ token'[new].chain = new
      /\ \A x \in Tokens \ {new} : token'[x] = token[x]
  BY <1>1, <1>2, <1>3, IssueEffect DEF TokenType
<1>5. QED
  BY <1>2, <1>4, CallsKeptByIssue, DoneEffect DEF Login

\* The strengthened type invariant is inductive.
LEMMA TypeInvNext ==
  ASSUME TypeInv, [Next]_vars
  PROVE  TypeInv'
<1>0. /\ TokenType /\ RequestType /\ HistoryType /\ SessionType
      /\ now \in 0 .. MaxTime /\ now \in Nat
      /\ \A r \in Requests : CallOK(r)
  BY DEF TypeInv, TypeOK, TokenType, SessionType
<1>1. CASE Tick
  <2>1. now + 1 \in 0 .. MaxTime
    BY <1>0, <1>1, ForeverAssumption DEF Tick
  <2>2. SessionType'
    BY <1>0, <1>1, DropSessionsType DEF Tick
  <2>3. blacklist' \in [Tokens -> Nat]
    BY <1>0, <1>1 DEF Tick, DropEntries, TokenType
  <2>4. TokenType' /\ SessionType'
    BY <1>0, <1>1, <2>1, <2>2, <2>3 DEF Tick, TokenType
  <2>5. RequestType' /\ HistoryType'
    BY <1>0, <1>1 DEF Tick, RequestType, HistoryType, history
  <2>6. \A r \in Requests : CallOK(r)'
    BY <1>0, <1>1 DEF Tick, CallOK
  <2>7. QED
    BY <2>4, <2>5, <2>6 DEF TypeInv, TypeOK, TokenType, SessionType
<1>2. ASSUME NEW r \in Requests, Begin(r) PROVE TypeInv'
  BY <1>2, BeginOK
<1>3. ASSUME NEW r \in Requests, Add(r) PROVE TypeInv'
  <2>1. session[r] \in Sessions /\ call[r].user \in Users /\ started[r] \in Nat
    BY <1>0, <1>3, UserOfCall DEF Add, CallOK, LoginSteps, RequestType
  <2>2. SessionType'
    BY <1>0, <1>3, <2>1, AddSessionType DEF Add
  <2>3. RequestType' /\ \A q \in Requests : CallOK(q)'
    BY <1>3, ContinueOK DEF Add, LoginSteps
  <2>4. QED
    BY <1>0, <1>3, <2>2, <2>3 DEF Add, TypeInv, TypeOK, HistoryType, history, TokenType, SessionType
<1>4. ASSUME NEW r \in Requests, Describe(r) PROVE TypeInv'
  <2>1. session[r] \in Sessions
    BY <1>0, <1>4 DEF Describe, CallOK, LoginSteps
  <2>2. hash' \in [Sessions -> Hash \cup {None}]
    BY <1>0, <1>4, <2>1, SetFieldsType DEF Describe
  <2>3. SessionType'
    BY <1>0, <1>4, <2>2 DEF Describe, SessionType
  <2>4. RequestType' /\ \A q \in Requests : CallOK(q)'
    BY <1>4, ContinueOK DEF Describe, LoginSteps
  <2>5. QED
    BY <1>0, <1>4, <2>3, <2>4 DEF Describe, TypeInv, TypeOK, HistoryType, history, TokenType, SessionType
<1>5. ASSUME NEW r \in Requests, Login(r) PROVE TypeInv'
  <2>1. session[r] \in Sessions
    BY <1>0, <1>5 DEF Login, CallOK, LoginSteps
  <2>2. hash' \in [Sessions -> Hash \cup {None}]
    BY <1>0, <1>5, <2>1, ExtendType DEF Login
  <2>3. SessionType'
    BY <1>0, <1>5, <2>2 DEF Login, SessionType
  <2>4. TokenType' /\ SessionType'
    BY <1>0, <1>5, <2>3, LoginEffect DEF Login, TokenType
  <2>5. HistoryType'
    BY <1>0, <1>5 DEF Login, HistoryType, history
  <2>6. QED
    BY <1>5, <2>4, <2>5, LoginEffect DEF TypeInv, TypeOK, TokenType, SessionType
<1>6. ASSUME NEW r \in Requests, Check(r) PROVE TypeInv'
  <2>1. RequestType' /\ \A q \in Requests : CallOK(q)'
    BY <1>6, ContinueOK, DoneOK DEF Check, RefreshSteps
  <2>2. QED
    BY <1>0, <1>6, <2>1 DEF Check, TypeInv, TypeOK, TokenType, HistoryType, history, redis, SessionType
<1>7. ASSUME NEW r \in Requests, Rotate(r) PROVE TypeInv'
  <2>1. blacklist' \in [Tokens -> Nat]
    BY <1>0, <1>7, TokenOfCall, BlacklistEffect DEF Rotate, RefreshSteps
  <2>2. /\ token' \in [Tokens -> Token \cup {None}]
        /\ RequestType' /\ \A q \in Requests : CallOK(q)'
    BY <1>7, SuccessorEffect DEF Rotate
  <2>3. QED
    BY <1>0, <1>7, <2>1, <2>2 DEF Rotate, TypeInv, TypeOK, TokenType, HistoryType, history, SessionType
<1>8. ASSUME NEW r \in Requests, CheckOwner(r) PROVE TypeInv'
  <2>1. RequestType' /\ \A q \in Requests : CallOK(q)'
    BY <1>8, ContinueOK, DoneOK DEF CheckOwner, RevokeSteps
  <2>2. QED
    BY <1>0, <1>8, <2>1 DEF CheckOwner, TypeInv, TypeOK, TokenType, HistoryType, history, redis, SessionType
<1>9. ASSUME NEW r \in Requests, Revoke(r) PROVE TypeInv'
  <2>1. SessionType'
    BY <1>0, <1>9, UserOfCall, RemoveSessionType DEF Revoke, RevokeSteps
  <2>2. RequestType' /\ \A q \in Requests : CallOK(q)'
    BY <1>9, DoneOK DEF Revoke
  <2>3. QED
    BY <1>0, <1>9, <2>1, <2>2 DEF Revoke, TypeInv, TypeOK, HistoryType, history, TokenType, SessionType
<1>10. ASSUME NEW r \in Requests, Scan(r) PROVE TypeInv'
  <2>1. index[call[r].user] \subseteq MemberNames
    BY <1>0, <1>10, UserOfCall DEF Scan, RevokeSteps, SessionType
  <2>2. RequestType'
    BY <1>0, <1>10, <2>1 DEF Scan, Goto, RequestType, Steps
  <2>3. CallOK(r)'
    BY <1>0, <1>10 DEF Scan, Goto, CallOK, RequestType, RefreshSteps, LoginSteps, RevokeSteps
  <2>4. \A q \in Requests : CallOK(q)'
    BY <1>10, <2>3, CallsKept DEF Scan, Goto, TypeInv, TypeOK, RequestType, TokenType, SessionType
  <2>5. QED
    BY <1>0, <1>10, <2>2, <2>4 DEF Scan, TypeInv, TypeOK, TokenType, HistoryType, history, redis, SessionType
<1>11. ASSUME NEW r \in Requests, RemoveNext(r) PROVE TypeInv'
  <2>1. PICK name \in scanned[r] :
          /\ RemoveSession(name, call[r].user)
          /\ scanned' = [scanned EXCEPT ![r] = @ \ {name}]
    BY <1>11 DEF RemoveNext
  <2>2. SessionType'
    BY <1>0, <1>11, <2>1, UserOfCall, RemoveSessionType DEF RemoveNext, RevokeSteps
  <2>3. RequestType'
    BY <1>0, <1>11, <2>1 DEF RemoveNext, RequestType
  <2>4. \A q \in Requests : CallOK(q)'
    BY <1>0, <1>11 DEF RemoveNext, CallOK
  <2>5. QED
    BY <1>0, <1>11, <2>2, <2>3, <2>4
    DEF RemoveNext, TypeInv, TypeOK, HistoryType, history, TokenType, SessionType
<1>12. ASSUME NEW r \in Requests, RevokedAll(r) PROVE TypeInv'
  <2>1. RequestType' /\ \A q \in Requests : CallOK(q)'
    BY <1>12, DoneOK DEF RevokedAll
  <2>2. HistoryType'
    BY <1>0, <1>12 DEF RevokedAll, HistoryType, SessionsOf
  <2>3. QED
    BY <1>0, <1>12, <2>1, <2>2 DEF RevokedAll, TypeInv, TypeOK, TokenType, redis, SessionType
<1>13. ASSUME NEW r \in Requests, CheckUnanswered(r) PROVE TypeInv'
  <2>1. RequestType' /\ \A q \in Requests : CallOK(q)'
    BY <1>13, ContinueOK, DoneOK DEF CheckUnanswered, RefreshSteps
  <2>2. HistoryType'
    BY <1>0, <1>13, TokenOfCall DEF CheckUnanswered, RefreshSteps, HistoryType
  <2>3. QED
    BY <1>0, <1>13, <2>1, <2>2 DEF CheckUnanswered, TypeInv, TypeOK, TokenType, redis, SessionType
<1>14. ASSUME NEW r \in Requests, RotateUnanswered(r) PROVE TypeInv'
  <2>1. blacklist' \in [Tokens -> Nat]
    BY <1>0, <1>14, TokenOfCall, BlacklistEffect DEF RotateUnanswered, RefreshSteps, TokenType
  <2>2. /\ token' \in [Tokens -> Token \cup {None}]
        /\ RequestType' /\ \A q \in Requests : CallOK(q)'
    BY <1>14, SuccessorEffect DEF RotateUnanswered
  <2>3. HistoryType'
    BY <1>0, <1>14, TokenOfCall DEF RotateUnanswered, RefreshSteps, HistoryType
  <2>4. QED
    BY <1>0, <1>14, <2>1, <2>2, <2>3 DEF RotateUnanswered, TypeInv, TypeOK, TokenType, SessionType
<1>15. ASSUME NEW r \in Requests, Fail(r) PROVE TypeInv'
  <2>1. RequestType' /\ \A q \in Requests : CallOK(q)'
    BY <1>15, DoneOK DEF Fail
  <2>2. HistoryType'
    BY <1>0, <1>15 DEF Fail, HistoryType, RequestType
  <2>3. QED
    BY <1>0, <1>15, <2>1, <2>2 DEF Fail, TypeInv, TypeOK, TokenType, redis, SessionType
<1>16. CASE UNCHANGED vars
  BY <1>0, <1>16
  DEF vars, redis, history, TypeInv, TypeOK, TokenType, RequestType, HistoryType, CallOK, SessionType
<1>17. QED
  BY <1>1, <1>2, <1>3, <1>4, <1>5, <1>6, <1>7, <1>8, <1>9, <1>10, <1>11, <1>12, <1>13,
     <1>14, <1>15, <1>16 DEF Next

\* The strengthened type invariant holds throughout.
LEMMA TypeInvAlways == Spec => []TypeInv
<1>1. Init => TypeInv
  <2> SUFFICES ASSUME Init PROVE TypeInv
    OBVIOUS
  <2>1. TokenType /\ SessionType
    BY ForeverAssumption DEF Init, TokenType, SessionType
  <2>2. RequestType
    BY DEF Init, RequestType, Steps
  <2>3. HistoryType
    BY DEF Init, HistoryType
  <2>4. \A r \in Requests : CallOK(r)
    BY DEF Init, CallOK, RefreshSteps, LoginSteps, RevokeSteps
  <2>5. QED
    BY <2>1, <2>2, <2>3, <2>4 DEF TypeInv, TypeOK, TokenType, SessionType
<1>2. QED
  BY <1>1, TypeInvNext, PTL DEF Spec

\* The variables keep their types, and a set of Redis exists exactly while it
\* has members.
THEOREM TypeCorrect == Spec => []TypeOK
BY TypeInvAlways, PTL DEF TypeInv

----------------------------------------------------------------------------
(* Which steps change what. *)

\* Time passes in ticks, and nothing else happens in one.
LEMMA ClockStep ==
  ASSUME [Next]_vars
  PROVE  UNCHANGED now \/ Tick
BY DEF Next, vars, Begin, Add, Describe, Login, Check, Rotate, CheckOwner, Revoke, Scan,
       RemoveNext, RevokedAll, CheckUnanswered, RotateUnanswered, Fail

\* Tokens and the blacklist are changed by logins, rotations and the clock.
LEMMA TokenStep ==
  ASSUME [Next]_vars
  PROVE  \/ UNCHANGED <<token, blacklist>>
         \/ Tick
         \/ \E r \in Requests : Login(r) \/ Rotate(r) \/ RotateUnanswered(r)
BY DEF Next, vars, redis, Begin, Add, Describe, Check, CheckOwner, Revoke, Scan,
       RemoveNext, RevokedAll, CheckUnanswered, Fail

\* Sessions and sets are changed by the steps of a login, by removals and by
\* the clock.
LEMMA SessionStep ==
  ASSUME [Next]_vars
  PROVE  \/ UNCHANGED <<hash, index, indexEnd>>
         \/ Tick
         \/ \E r \in Requests : \/ Add(r) \/ Describe(r) \/ Login(r)
                                \/ Revoke(r) \/ RemoveNext(r)
BY DEF Next, vars, redis, Begin, Check, Rotate, CheckOwner, Scan,
       RevokedAll, CheckUnanswered, RotateUnanswered, Fail

\* A request knows when it began, and not after that.
LEMMA StartedStep ==
  ASSUME RequestType, NEW q \in Requests, [Next]_vars
  PROVE  started'[q] \in {started[q], now, 0}
<1>1. ASSUME NEW r \in Requests, Done(r) PROVE started'[q] \in {started[q], 0}
  BY <1>1, DoneEffect
<1>2. ASSUME NEW r \in Requests, Begin(r) PROVE started'[q] \in {started[q], now}
  BY <1>2 DEF Begin, RequestType
<1>3. QED
  BY <1>1, <1>2
  DEF Next, vars, Tick, Continue, Add, Describe, Login, Check, Rotate, CheckOwner, Revoke,
      Scan, RemoveNext, RevokedAll, CheckUnanswered, RotateUnanswered, Fail

----------------------------------------------------------------------------
(* Spent tokens. *)

\* What is said of the clock: no token outlives a refresh token's life, and an
\* entry of the blacklist outlives its token.
ClockInv ==
  /\ \A r \in Requests : started[r] <= now
  /\ \A t \in Tokens : token[t] # None => token[t].exp <= now + RefreshLife
  /\ \A t \in Tokens : blacklist[t] # 0 => token[t] # None /\ token[t].exp <= blacklist[t]

\* What a rotation does to the blacklist, answered or not.
LEMMA RotateBlacklists ==
  ASSUME TypeInv, NEW r \in Requests, Rotate(r) \/ RotateUnanswered(r)
  PROVE  \A t \in Tokens :
           \/ blacklist'[t] = blacklist[t]
           \/ t = call[r].token /\ blacklist'[t] = now + RefreshLife
<1>1. call[r].token \in Tokens /\ TokenType
  BY TokenOfCall DEF Rotate, RotateUnanswered, RefreshSteps, TypeInv, TypeOK
<1>2. Blacklist(call[r].token) \/ UNCHANGED blacklist
  BY DEF Rotate, RotateUnanswered
<1>3. QED
  BY <1>1, <1>2, BlacklistEffect

\* The tokens that a rotation or a login issues.
LEMMA IssuingSteps ==
  ASSUME TypeInv, ClockInv,
         NEW r \in Requests, Login(r) \/ Rotate(r) \/ RotateUnanswered(r)
  PROVE  /\ \A t \in Tokens : token[t] # None => token'[t] = token[t]
         /\ \A t \in Tokens : token'[t] # None => token'[t].exp <= now + RefreshLife
<1>1. /\ now \in Nat /\ RefreshLife \in Nat /\ started[r] \in Nat /\ started[r] <= now
      /\ token \in [Tokens -> Token \cup {None}]
  BY LifeAssumption DEF TypeInv, TypeOK, TokenType, RequestType, ClockInv
<1>2. PICK new \in Tokens : /\ token[new] = None
                            /\ token'[new].exp \in {now + RefreshLife, started[r] + RefreshLife}
                            /\ \A x \in Tokens \ {new} : token'[x] = token[x]
  BY LoginEffect, SuccessorEffect DEF Rotate, RotateUnanswered
<1>3. token'[new].exp <= now + RefreshLife
  BY <1>1, <1>2
<1>4. QED
  BY <1>2, <1>3 DEF ClockInv

\* What is said of the clock is inductive.
LEMMA ClockInvNext ==
  ASSUME TypeInv, ClockInv, [Next]_vars
  PROVE  ClockInv'
<1>0. /\ now \in Nat /\ RefreshLife \in Nat /\ RequestType
      /\ blacklist \in [Tokens -> Nat] /\ started \in [Requests -> Nat]
      /\ \A t \in Tokens : token[t] # None => token[t].exp \in Nat
  BY LifeAssumption DEF TypeInv, TypeOK, TokenType, RequestType, Token
<1>1. now' \in Nat /\ now <= now'
  BY <1>0, ClockStep DEF Tick
<1>2. \A r \in Requests : started'[r] <= now'
  <2> SUFFICES ASSUME NEW r \in Requests PROVE started'[r] <= now'
    OBVIOUS
  <2>1. started'[r] \in {started[r], now, 0}
    BY <1>0, StartedStep
  <2>2. QED
    BY <1>0, <1>1, <2>1 DEF ClockInv
<1>3. CASE UNCHANGED <<token, blacklist>>
  BY <1>0, <1>1, <1>2, <1>3 DEF ClockInv
<1>4. CASE Tick
  <2>1. \A t \in Tokens : blacklist'[t] # 0 => blacklist'[t] = blacklist[t]
    BY <1>0, <1>4 DEF Tick, DropEntries
  <2>2. QED
    BY <1>0, <1>1, <1>2, <1>4, <2>1 DEF ClockInv, Tick
<1>5. ASSUME NEW r \in Requests, Login(r) \/ Rotate(r) \/ RotateUnanswered(r)
      PROVE  ClockInv'
  <2>1. UNCHANGED now
    BY <1>5 DEF Login, Rotate, RotateUnanswered
  <2>2. /\ \A t \in Tokens : token[t] # None => token'[t] = token[t]
        /\ \A t \in Tokens : token'[t] # None => token'[t].exp <= now + RefreshLife
    BY <1>5, IssuingSteps
  <2>3. \A t \in Tokens : blacklist'[t] # 0 =>
          token[t] # None /\ token[t].exp <= blacklist'[t]
    <3>1. CASE Login(r)
      BY <3>1 DEF Login, ClockInv
    <3>2. CASE Rotate(r) \/ RotateUnanswered(r)
      <4>1. token[call[r].token] # None
        BY <3>2, TokenOfCall DEF Rotate, RotateUnanswered, RefreshSteps
      <4>2. QED
        BY <3>2, <4>1, RotateBlacklists DEF ClockInv
    <3>3. QED
      BY <1>5, <3>1, <3>2
  <2>4. QED
    BY <1>2, <2>1, <2>2, <2>3 DEF ClockInv
<1>6. QED
  BY <1>3, <1>4, <1>5, TokenStep

\* A token that was issued stays what it is, and a spent one stays spent.
LEMMA SpentNext ==
  ASSUME TypeInv, ClockInv, [Next]_vars, NEW t \in Tokens, token[t] # None
  PROVE  token'[t] = token[t] /\ (Spent(t) => Spent(t)')
<1>0. /\ now \in Nat /\ now' \in Nat /\ now <= now' /\ RefreshLife \in Nat
      /\ blacklist \in [Tokens -> Nat]
      /\ token[t].exp \in Nat
  BY ClockStep, LifeAssumption DEF TypeInv, TypeOK, TokenType, Token, Tick
<1>1. token'[t] = token[t]
  BY TokenStep, IssuingSteps DEF Tick
<1>2. ASSUME Spent(t) PROVE Spent(t)'
  <2>1. token[t].exp <= now \/ blacklist[t] # 0
    BY <1>0, <1>2 DEF Spent, Usable, Decodes, Expired, Blacklisted
  <2>2. CASE UNCHANGED <<token, blacklist>>
    BY <1>0, <2>1, <2>2 DEF Spent, Usable, Decodes, Expired, Blacklisted
  <2>3. CASE Tick
    <3>1. token[t].exp <= now' \/ blacklist'[t] # 0
      BY <1>0, <2>1, <2>3 DEF Tick, DropEntries, ClockInv
    <3>2. QED
      BY <1>0, <1>1, <3>1 DEF Spent, Usable, Decodes, Expired, Blacklisted
  <2>4. ASSUME NEW r \in Requests, Login(r) \/ Rotate(r) \/ RotateUnanswered(r)
        PROVE  Spent(t)'
    <3>1. blacklist'[t] = blacklist[t] \/ blacklist'[t] = now + RefreshLife
      BY <2>4, RotateBlacklists DEF Login
    <3>2. now + RefreshLife # 0
      BY <1>0, LifeAssumption
    <3>3. token[t].exp <= now' \/ blacklist'[t] # 0
      BY <1>0, <2>1, <3>1, <3>2
    <3>4. QED
      BY <1>0, <1>1, <3>3 DEF Spent, Usable, Decodes, Expired, Blacklisted
  <2>5. QED
    BY <2>2, <2>3, <2>4, TokenStep
<1>3. QED
  BY <1>1, <1>2

\* A token that was used up or has expired never becomes good again.
THEOREM SpentForGood == Spec => SpentStaysSpent
<1>1. Init => ClockInv
  BY LifeAssumption DEF Init, ClockInv
<1>2. TypeInv /\ ClockInv /\ [Next]_vars => [\A t \in Tokens : Spent(t) => Spent(t)']_vars
  BY SpentNext DEF Spent
<1>3. TypeInv /\ ClockInv /\ [Next]_vars => ClockInv'
  BY ClockInvNext
<1>4. QED
  BY <1>1, <1>2, <1>3, TypeInvAlways, PTL DEF Spec, SpentStaysSpent

----------------------------------------------------------------------------
(* Sessions. *)

\* A hash without a lifetime is made for a session that is about to get one,
\* and every other end is one that the clock reaches.
LEMMA SessionsEndNext ==
  ASSUME TypeInv, SessionsEnd, [Next]_vars
  PROVE  SessionsEnd'
<1> SUFFICES ASSUME NEW s \in Sessions, hash'[s] # None /\ hash'[s].end = Forever
             PROVE  s \in cut' \/ \E r \in Requests : pc'[r] = "extend" /\ session'[r] = s
  BY DEF SessionsEnd
<1>0. /\ now + SessionLife # Forever /\ RequestType /\ SessionType
      /\ \A r \in Requests : CallOK(r)
  <2>1. now + SessionLife # Forever
    BY ForeverAssumption, SessionLifeAssumption DEF TypeInv, TypeOK, TokenType
  <2>2. QED
    BY <2>1 DEF TypeInv, TypeOK
<1>1. CASE \E r \in Requests : Add(r) /\ session[r] = s
  <2>1. PICK r \in Requests : Add(r) /\ session[r] = s
    BY <1>1
  <2>2. hash'[s] = [user |-> call[r].user, created |-> started[r], end |-> now + SessionLife]
    BY <1>0, <2>1 DEF Add, AddSession, SessionType
  <2>3. QED
    BY <1>0, <2>2
<1>2. CASE \E r \in Requests : Login(r) /\ session[r] = s
  <2>1. PICK r \in Requests : Login(r) /\ session[r] = s
    BY <1>2
  <2>2. CASE hash[s] = None
    BY <2>1, <2>2 DEF Login, Extend
  <2>3. CASE hash[s] # None
    <3>1. hash[s] \in Hash
      BY <1>0, <2>3 DEF SessionType
    <3>2. hash'[s] = [hash[s] EXCEPT !.end = now + SessionLife]
      BY <1>0, <2>1, <2>3 DEF Login, Extend, SessionType
    <3>3. hash'[s].end = now + SessionLife
      BY <3>1, <3>2 DEF Hash
    <3>4. QED
      BY <1>0, <3>3
  <2>4. QED
    BY <2>2, <2>3
<1>3. CASE \E r \in Requests : Describe(r) /\ session[r] = s
  <2>1. PICK r \in Requests : Describe(r) /\ session[r] = s
    BY <1>3
  <2>2. pc'[r] = "extend" /\ session'[r] = s
    BY <1>0, <2>1, ContinueEffect DEF Describe, Steps
  <2>3. QED
    BY <2>2
<1>4. CASE ~\E r \in Requests : (Add(r) \/ Describe(r) \/ Login(r)) /\ session[r] = s
  \* The hash is as it was ...
  <2>1. hash[s] # None /\ hash[s].end = Forever
    <3>1. ASSUME NEW r \in Requests, Add(r) \/ Describe(r) \/ Login(r)
          PROVE  hash'[s] = hash[s]
      <4>1. session[r] # s /\ session[r] \in Sessions
        BY <1>0, <1>4, <3>1 DEF Add, Describe, Login, CallOK, LoginSteps
      <4>2. QED
        BY <1>0, <3>1, <4>1
        DEF Add, Describe, Login, AddSession, SetFields, Extend, SessionType
    <3>2. ASSUME NEW r \in Requests, Revoke(r) \/ RemoveNext(r)
          PROVE  hash'[s] \in {hash[s], None}
      BY <3>2 DEF Revoke, RemoveNext, RemoveSession
    <3>3. ASSUME Tick PROVE hash'[s] \in {hash[s], None}
      BY <3>3 DEF Tick, DropSessions
    <3>4. QED
      BY <3>1, <3>2, <3>3, SessionStep
  \* ... and so is the request that has to give it a lifetime, or it was cut off.
  <2>2. CASE s \in cut
    BY <2>2
    DEF Next, vars, history, Tick, Begin, Add, Describe, Login, Check, Rotate, CheckOwner,
        Revoke, Scan, RemoveNext, RevokedAll, CheckUnanswered, RotateUnanswered, Fail
  <2>3. ASSUME NEW r \in Requests, pc[r] = "extend" /\ session[r] = s
        PROVE  s \in cut' \/ (pc'[r] = "extend" /\ session'[r] = s)
    <3>1. ASSUME NEW q \in Requests, Done(q), q # r
          PROVE  pc'[r] = pc[r] /\ session'[r] = session[r]
      BY <1>0, <3>1, DoneEffect
    <3>2. ASSUME NEW q \in Requests, NEW step, Continue(q, step), q # r
          PROVE  pc'[r] = pc[r] /\ session'[r] = session[r]
      BY <1>0, <3>2 DEF Continue, Goto, RequestType
    <3>3. ASSUME NEW q \in Requests, Begin(q)
          PROVE  pc'[r] = pc[r] /\ session'[r] = session[r]
      <4>1. q # r
        BY <2>3, <3>3 DEF Begin
      <4>2. PICK c \in Calls : BeginLogin(q, c) \/ BeginRefresh(q, c) \/ BeginRevoke(q, c)
        BY <3>3 DEF Begin
      <4>3. \E step : Goto(q, step)
        BY <4>2 DEF BeginLogin, BeginRefresh, BeginRevoke
      <4>4. UNCHANGED session \/ \E x \in Sessions : session' = [session EXCEPT ![q] = x]
        BY <4>2 DEF BeginLogin, BeginRefresh, BeginRevoke
      <4>5. QED
        BY <1>0, <4>1, <4>3, <4>4 DEF Goto, RequestType
    <3>4. ASSUME NEW q \in Requests, Scan(q)
          PROVE  pc'[r] = pc[r] /\ session'[r] = session[r]
      BY <1>0, <2>3, <3>4 DEF Scan, Goto, RequestType
    <3>5. CASE Fail(r)
      BY <2>3, <3>5, SessionsAssumption DEF Fail
    <3>6. ~Login(r)
      BY <1>4, <2>3
    <3>7. QED
      BY <2>3, <3>1, <3>2, <3>3, <3>4, <3>5, <3>6
      DEF Next, vars, Tick, Add, Describe, Login, Check, Rotate, CheckOwner, Revoke,
          RemoveNext, RevokedAll, CheckUnanswered, RotateUnanswered, Fail
  <2>4. QED
    BY <2>1, <2>2, <2>3 DEF SessionsEnd
<1>5. QED
  BY <1>1, <1>2, <1>3, <1>4

\* Every session ends by itself, except one that is being made, or whose login
\* was cut off while it was.
THEOREM SessionsEndThemselves == Spec => []SessionsEnd
<1>1. Init => SessionsEnd
  BY DEF Init, SessionsEnd
<1>2. QED
  BY <1>1, SessionsEndNext, TypeInvAlways, PTL DEF Spec

\* A set lasts as long as any of its sessions was meant to, and a session is
\* never younger than the clock says.
CoverInv ==
  \A s \in Sessions, u \in Users :
    hash[s] # None /\ hash[s].user = u =>
      /\ hash[s].created <= now
      /\ now < hash[s].created + SessionLife =>
           DetailKey(s) \in index[u] /\ hash[s].created + SessionLife <= indexEnd[u]

\* A set is extended with every session added, and shortened by none.
LEMMA CoverInvNext ==
  ASSUME TypeInv, ClockInv, CoverInv, [Next]_vars
  PROVE  CoverInv'
<1> SUFFICES ASSUME NEW s \in Sessions, NEW u \in Users, hash'[s] # None, hash'[s].user = u
             PROVE  /\ hash'[s].created <= now'
                    /\ now' < hash'[s].created + SessionLife =>
                         /\ DetailKey(s) \in index'[u]
                         /\ hash'[s].created + SessionLife <= indexEnd'[u]
  BY DEF CoverInv
<1>0. /\ now \in Nat /\ SessionLife \in Nat \ {0} /\ SessionType /\ RequestType
      /\ \A r \in Requests : CallOK(r) /\ started[r] \in Nat /\ started[r] <= now
      /\ hash[s] # None => hash[s] \in Hash /\ hash[s].created \in Nat
      /\ indexEnd[u] \in Nat
  BY SessionLifeAssumption
  DEF TypeInv, TypeOK, TokenType, SessionType, RequestType, Hash, ClockInv
<1>1. CASE UNCHANGED <<hash, index, indexEnd>>
  BY <1>0, <1>1, ClockStep DEF CoverInv, Tick
<1>2. CASE Tick
  <2>1. hash'[s] = hash[s] /\ now' = now + 1
    BY <1>2 DEF Tick, DropSessions
  <2>2. CASE now' < hash[s].created + SessionLife
    BY <1>0, <1>2, <2>1, <2>2 DEF Tick, DropSessions, CoverInv
  <2>3. QED
    BY <1>0, <2>1, <2>2 DEF CoverInv
<1>3. ASSUME NEW r \in Requests, Add(r)
      PROVE  /\ hash'[s].created <= now'
             /\ now' < hash'[s].created + SessionLife =>
                  /\ DetailKey(s) \in index'[u]
                  /\ hash'[s].created + SessionLife <= indexEnd'[u]
  <2> DEFINE v == call[r].user
  <2>1. v \in Users /\ session[r] \in Sessions /\ now' = now
    BY <1>0, <1>3, UserOfCall DEF Add, CallOK, LoginSteps
  <2>2. /\ index' = [index EXCEPT ![v] = @ \cup {DetailKey(session[r])}]
        /\ indexEnd' = [indexEnd EXCEPT ![v] = now + SessionLife]
        /\ hash' = [hash EXCEPT ![session[r]] =
                      [user |-> v, created |-> started[r], end |-> now + SessionLife]]
    BY <1>3 DEF Add, AddSession
  <2>3. CASE s = session[r]
    BY <1>0, <2>1, <2>2, <2>3 DEF SessionType
  <2>4. CASE s # session[r]
    <3>1. hash'[s] = hash[s]
      BY <1>0, <2>2, <2>4 DEF SessionType
    <3>2. index[u] \subseteq index'[u] /\ indexEnd'[u] \in {indexEnd[u], now + SessionLife}
      BY <1>0, <2>1, <2>2 DEF SessionType
    <3>3. QED
      BY <1>0, <2>1, <3>1, <3>2 DEF CoverInv
  <2>5. QED
    BY <2>3, <2>4
<1>4. ASSUME NEW r \in Requests, Describe(r) \/ Login(r)
      PROVE  /\ hash'[s].created <= now'
             /\ now' < hash'[s].created + SessionLife =>
                  /\ DetailKey(s) \in index'[u]
                  /\ hash'[s].created + SessionLife <= indexEnd'[u]
  <2>1. UNCHANGED <<now, index, indexEnd>> /\ session[r] \in Sessions
    BY <1>0, <1>4 DEF Describe, Login, CallOK, LoginSteps
  <2>2. hash[s] # None /\ hash[s].user = u /\ hash'[s].created = hash[s].created
    <3>1. CASE Describe(r)
      BY <1>0, <2>1, <3>1, NoneAssumption DEF Describe, SetFields, SessionType
    <3>2. CASE Login(r)
      <4>1. hash'[s] = hash[s] \/ hash'[s] = [hash[s] EXCEPT !.end = now + SessionLife]
        BY <1>0, <2>1, <3>2 DEF Login, Extend, SessionType
      <4>2. hash[s] # None
        BY <1>0, <2>1, <3>2 DEF Login, Extend, SessionType
      <4>3. QED
        BY <1>0, <4>1, <4>2 DEF Hash
    <3>3. QED
      BY <1>4, <3>1, <3>2
  <2>3. QED
    BY <1>0, <2>1, <2>2 DEF CoverInv
<1>5. ASSUME NEW r \in Requests, NEW name, RemoveSession(name, call[r].user), now' = now
      PROVE  /\ hash'[s].created <= now'
             /\ now' < hash'[s].created + SessionLife =>
                  /\ DetailKey(s) \in index'[u]
                  /\ hash'[s].created + SessionLife <= indexEnd'[u]
  <2>1. hash'[s] = hash[s] /\ DetailKey(s) # DetailKey(name)
    BY <1>5 DEF RemoveSession
  <2>2. DetailKey(s) \in index[u] => DetailKey(s) \in index'[u]
    BY <1>0, <1>5, <2>1 DEF RemoveSession, SessionType
  <2>3. index'[u] # {} => indexEnd'[u] = indexEnd[u]
    BY <1>0, <1>5 DEF RemoveSession, SessionType
  <2>4. QED
    BY <1>0, <1>5, <2>1, <2>2, <2>3 DEF CoverInv
<1>6. QED
  BY <1>1, <1>2, <1>3, <1>4, <1>5, SessionStep DEF Revoke, RemoveNext

\* For as long as a session was meant to last its user's set has it.
THEOREM IndexCoversSessions == Spec => []IndexCovers
<1>1. Init => ClockInv /\ CoverInv
  BY LifeAssumption DEF Init, ClockInv, CoverInv
<1>2. CoverInv => IndexCovers
  BY DEF CoverInv, IndexCovers, SessionsOf
<1>3. QED
  BY <1>1, <1>2, ClockInvNext, CoverInvNext, TypeInvAlways, PTL DEF Spec

----------------------------------------------------------------------------
(* One usable token for each login. *)

ChainOf(r) == token[call[r].token].chain

\* A chain begins with a token that was issued.
ChainsBegin == \A t \in Tokens : token[t] # None => token[token[t].chain] # None

\* Outside of clash no token is refreshed by two requests at once ...
RefreshedOnce ==
  \A r, q \in Requests :
    /\ pc[r] \in RefreshSteps /\ pc[q] \in RefreshSteps
    /\ call[r].token = call[q].token /\ ChainOf(r) \notin clash
    => r = q

\* ... a chain is rotated by one request only ...
RotatedOnce ==
  \A r, q \in Requests :
    /\ pc[r] = "rotate" /\ pc[q] = "rotate"
    /\ ChainOf(r) = ChainOf(q) /\ ChainOf(r) \notin clash
    => r = q

\* ... and that request holds the last token of the chain.
RotatesTheLast ==
  \A r \in Requests, t \in Tokens :
    /\ pc[r] = "rotate" /\ ChainOf(r) \notin clash
    /\ token[t] # None /\ token[t].chain = ChainOf(r) /\ t # call[r].token
    => Spent(t)

RotationInv ==
  ChainsBegin /\ RefreshedOnce /\ RotatedOnce /\ RotatesTheLast /\ OneUsableToken

\* A chain is never taken out of clash.
LEMMA ClashGrows ==
  ASSUME [Next]_vars
  PROVE  clash \subseteq clash'
<1>1. ASSUME NEW r \in Requests, Begin(r) PROVE clash \subseteq clash'
  BY <1>1 DEF Begin, BeginLogin, BeginRefresh, BeginRevoke
<1>2. QED
  BY <1>1
  DEF Next, vars, history, Tick, Add, Describe, Login, Check, Rotate, CheckOwner, Revoke,
      Scan, RemoveNext, RevokedAll, CheckUnanswered, RotateUnanswered, Fail

\* One request moves, or none.
LEMMA OneMoves ==
  ASSUME TypeInv, [Next]_vars
  PROVE  \E r \in Requests \cup {None} : \A q \in Requests \ {r} :
           pc'[q] = pc[q] /\ call'[q] = call[q]
<1>0. RequestType
  BY DEF TypeInv, TypeOK
<1>1. ASSUME NEW r \in Requests, Done(r)
      PROVE  \A q \in Requests \ {r} : pc'[q] = pc[q] /\ call'[q] = call[q]
  BY <1>0, <1>1, DoneEffect
<1>2. ASSUME NEW r \in Requests, NEW step, Continue(r, step)
      PROVE  \A q \in Requests \ {r} : pc'[q] = pc[q] /\ call'[q] = call[q]
  BY <1>0, <1>2 DEF Continue, Goto, RequestType
<1>3. ASSUME NEW r \in Requests, Begin(r) \/ Scan(r)
      PROVE  \A q \in Requests \ {r} : pc'[q] = pc[q] /\ call'[q] = call[q]
  BY <1>0, <1>3
  DEF Begin, BeginLogin, BeginRefresh, BeginRevoke, Scan, Goto, RequestType
<1>4. QED
  BY <1>1, <1>2, <1>3
  DEF Next, vars, Tick, Add, Describe, Login, Check, Rotate, CheckOwner, Revoke,
      RemoveNext, RevokedAll, CheckUnanswered, RotateUnanswered, Fail

\* How a request comes to a step of a refresh: it is at one already, or begins,
\* and then it is the only one with its token unless the chain is in clash.
LEMMA ToRefresh ==
  ASSUME TypeInv, [Next]_vars, NEW r \in Requests, pc'[r] \in RefreshSteps
  PROVE  \/ pc[r] \in RefreshSteps /\ call'[r] = call[r]
         \/ /\ pc[r] = "idle" /\ pc'[r] = "check" /\ UNCHANGED token
            /\ \A q \in Requests \ {r} :
                 /\ pc'[q] = pc[q] /\ call'[q] = call[q]
                 /\ pc[q] \in RefreshSteps /\ call[q].token = call'[r].token =>
                      token[call[q].token].chain \in clash'
<1>0. RequestType /\ \A q \in Requests : CallOK(q)
  BY DEF TypeInv, TypeOK
<1>1. ASSUME NEW q \in Requests, Done(q)
      PROVE  pc[r] \in RefreshSteps /\ call'[r] = call[r]
  BY <1>0, <1>1, DoneEffect DEF RefreshSteps
<1>2. ASSUME NEW q \in Requests, NEW step, Continue(q, step),
             step \notin RefreshSteps \/ pc[q] \in RefreshSteps
      PROVE  pc[r] \in RefreshSteps /\ call'[r] = call[r]
  BY <1>0, <1>2 DEF Continue, Goto, RequestType
<1>3. ASSUME NEW q \in Requests, Scan(q) \/ RemoveNext(q)
      PROVE  pc[r] \in RefreshSteps /\ call'[r] = call[r]
  BY <1>0, <1>3 DEF Scan, RemoveNext, Goto, RequestType, RefreshSteps
<1>4. ASSUME NEW q \in Requests, Begin(q), q # r
      PROVE  pc[r] \in RefreshSteps /\ call'[r] = call[r]
  BY <1>0, <1>4 DEF Begin, BeginLogin, BeginRefresh, BeginRevoke, Goto, RequestType
<1>5. CASE Begin(r)
  <2>1. PICK c \in Calls :
          /\ BeginLogin(r, c) \/ BeginRefresh(r, c) \/ BeginRevoke(r, c)
          /\ call' = [call EXCEPT ![r] = c]
    BY <1>5 DEF Begin
  <2>2. BeginRefresh(r, c)
    BY <1>0, <2>1 DEF BeginLogin, BeginRevoke, Goto, RequestType, RefreshSteps
  <2>3. /\ pc[r] = "idle" /\ pc'[r] = "check" /\ UNCHANGED token
        /\ call'[r] = c /\ c \in RefreshCalls
        /\ \A q \in Requests \ {r} : pc'[q] = pc[q] /\ call'[q] = call[q]
    BY <1>0, <1>5, <2>1, <2>2, CallsAre DEF Begin, BeginRefresh, Goto, RequestType
  <2>4. ASSUME NEW q \in Requests \ {r}, pc[q] \in RefreshSteps, call[q].token = c.token
        PROVE  token[call[q].token].chain \in clash'
    <3>1. call[q] \in RefreshCalls /\ q \in InFlight
      BY <1>0, <2>4 DEF CallOK, InFlight, RefreshSteps
    <3>2. call[q] = c
      BY <2>3, <2>4, <3>1, RefreshIsItsToken
    <3>3. QED
      BY <2>2, <3>1, <3>2 DEF BeginRefresh
  <2>5. QED
    BY <2>3, <2>4
<1>6. CASE Tick \/ UNCHANGED vars
  BY <1>6 DEF Tick, vars
<1>7. QED
  BY <1>1, <1>2, <1>3, <1>4, <1>5, <1>6
  DEF Next, Add, Describe, Login, Check, Rotate, CheckOwner, Revoke, RefreshSteps,
      RevokedAll, CheckUnanswered, RotateUnanswered, Fail

\* How a request comes to rotate: it does so already, or its token was good a
\* moment ago, or the chain is in clash.
LEMMA ToRotate ==
  ASSUME TypeInv, [Next]_vars, NEW r \in Requests, pc'[r] = "rotate"
  PROVE  \/ pc[r] = "rotate" /\ call'[r] = call[r]
         \/ /\ pc[r] = "check" /\ call'[r] = call[r]
            /\ UNCHANGED <<now, token, blacklist>>
            /\ \A q \in Requests \ {r} : pc'[q] = pc[q] /\ call'[q] = call[q]
            /\ ~Usable(call[r].token) => ChainOf(r) \in clash'
<1>0. RequestType /\ \A q \in Requests : CallOK(q)
  BY DEF TypeInv, TypeOK
<1>1. ASSUME NEW q \in Requests, Done(q)
      PROVE  pc[r] = "rotate" /\ call'[r] = call[r]
  BY <1>0, <1>1, DoneEffect
<1>2. ASSUME NEW q \in Requests, NEW step, Continue(q, step), step # "rotate" \/ q # r
      PROVE  pc[r] = "rotate" /\ call'[r] = call[r]
  BY <1>0, <1>2 DEF Continue, Goto, RequestType
<1>3. ASSUME NEW q \in Requests, Scan(q) \/ RemoveNext(q)
      PROVE  pc[r] = "rotate" /\ call'[r] = call[r]
  BY <1>0, <1>3 DEF Scan, RemoveNext, Goto, RequestType
<1>4. ASSUME NEW q \in Requests, Begin(q)
      PROVE  pc[r] = "rotate" /\ call'[r] = call[r]
  BY <1>0, <1>4 DEF Begin, BeginLogin, BeginRefresh, BeginRevoke, Goto, RequestType
<1>5. CASE (Check(r) \/ CheckUnanswered(r)) /\ Continue(r, "rotate")
  <2>1. /\ pc[r] = "check" /\ UNCHANGED <<call, now, token, blacklist>>
        /\ \A q \in Requests \ {r} : pc'[q] = pc[q]
    BY <1>0, <1>5 DEF Check, CheckUnanswered, redis, Continue, Goto, RequestType
  <2>2. ~Usable(call[r].token) => ChainOf(r) \in clash'
    <3>1. CASE Check(r)
      <4>1. ~Done(r)
        BY <1>0, <1>5, DoneEffect
      <4>2. QED
        BY <3>1, <4>1 DEF Check, Granted, Usable
    <3>2. CASE CheckUnanswered(r)
      BY <2>1, <3>2, TokenOfCall DEF CheckUnanswered, ChainOf, RefreshSteps
    <3>3. QED
      BY <1>5, <3>1, <3>2
  <2>3. QED
    BY <2>1, <2>2
<1>6. CASE Tick \/ UNCHANGED vars
  BY <1>6 DEF Tick, vars
<1>7. QED
  BY <1>1, <1>2, <1>3, <1>4, <1>5, <1>6
  DEF Next, Add, Describe, Login, Check, Rotate, CheckOwner, Revoke,
      RevokedAll, CheckUnanswered, RotateUnanswered, Fail

\* A token that appears begins a chain, or is the next one of a chain that is
\* rotated, or belongs to a chain in clash; and it is the only one.
LEMMA NewToken ==
  ASSUME TypeInv, [Next]_vars, NEW t \in Tokens, token[t] = None, token'[t] # None
  PROVE  /\ \/ token'[t].chain = t
            \/ \E p \in Requests : Rotate(p) /\ token'[t].chain = ChainOf(p)
            \/ token'[t].chain \in clash'
         /\ ChainsBegin => token'[t].chain = t \/ token[token'[t].chain] # None
         /\ \A x \in Tokens \ {t} : token'[x] = token[x]
<1>1. PICK p \in Requests : Login(p) \/ Rotate(p) \/ RotateUnanswered(p)
  BY TokenStep DEF Tick
<1>2. CASE Login(p)
  BY <1>2, LoginEffect
<1>3. CASE Rotate(p) \/ RotateUnanswered(p)
  <2>1. /\ token'[t].chain = ChainOf(p)
        /\ \A x \in Tokens \ {t} : token'[x] = token[x]
    BY <1>3, SuccessorEffect DEF Rotate, RotateUnanswered, ChainOf
  <2>2. /\ call[p].token \in Tokens /\ token[call[p].token] # None
        /\ Chains({p}) = {ChainOf(p)}
    BY <1>3, TokenOfCall DEF Rotate, RotateUnanswered, RefreshSteps, ChainOf
  <2>3. RotateUnanswered(p) => ChainOf(p) \in clash'
    BY <2>2 DEF RotateUnanswered
  <2>4. ChainsBegin => token[ChainOf(p)] # None
    BY <2>2 DEF ChainsBegin, ChainOf
  <2>5. QED
    BY <1>3, <2>1, <2>3, <2>4
<1>4. QED
  BY <1>1, <1>2, <1>3

\* The parts of RotationInv keep each other.
LEMMA RotationInvNext ==
  ASSUME TypeInv, ClockInv, RotationInv, [Next]_vars
  PROVE  RotationInv'
<1>0. /\ ChainsBegin /\ RefreshedOnce /\ RotatedOnce /\ RotatesTheLast /\ OneUsableToken
      /\ RequestType
  BY DEF RotationInv, TypeInv, TypeOK
<1>1. \A t \in Tokens : token[t] # None =>
        token'[t] = token[t] /\ (Spent(t) => Spent(t)') /\ token[t].chain \in Tokens
  BY SpentNext DEF TypeInv, TypeOK, TokenType, Token
<1>2. clash \subseteq clash'
  BY ClashGrows
<1>3. \A r \in Requests : pc[r] \in RefreshSteps =>
        call[r].token \in Tokens /\ token[call[r].token] # None
  BY TokenOfCall
<1>4. ASSUME NEW r \in Requests, pc[r] \in RefreshSteps, call'[r] = call[r]
      PROVE  ChainOf(r)' = ChainOf(r)
  BY <1>1, <1>3, <1>4 DEF ChainOf
<1>5. ASSUME NEW t \in Tokens, Spent(t)' PROVE ~Usable(t)'
  BY <1>5 DEF Spent
<1>6. ChainsBegin'
  <2> SUFFICES ASSUME NEW t \in Tokens, token'[t] # None
               PROVE  token'[token'[t].chain] # None
    BY DEF ChainsBegin
  <2>1. CASE token[t] # None
    BY <1>0, <1>1, <2>1 DEF ChainsBegin
  <2>2. CASE token[t] = None
    <3>1. token'[t].chain = t \/ token[token'[t].chain] # None
      BY <1>0, <2>2, NewToken
    <3>2. token'[t].chain \in Tokens
      BY TypeInvNext DEF TypeInv, TypeOK, TokenType, Token
    <3>3. QED
      BY <1>1, <3>1, <3>2
  <2>3. QED
    BY <2>1, <2>2
<1>7. RefreshedOnce'
  <2> SUFFICES ASSUME NEW r \in Requests, NEW q \in Requests, r # q,
                      pc'[r] \in RefreshSteps, pc'[q] \in RefreshSteps,
                      call'[r].token = call'[q].token, ChainOf(r)' \notin clash'
               PROVE  FALSE
    BY DEF RefreshedOnce, RefreshSteps
  <2>1. ChainOf(r)' = ChainOf(q)'
    BY DEF ChainOf
  <2>2. CASE pc[r] \in RefreshSteps /\ call'[r] = call[r] /\ pc[q] \in RefreshSteps /\ call'[q] = call[q]
    BY <1>0, <1>2, <1>4, <2>2 DEF RefreshedOnce
  <2>3. CASE pc[r] = "idle"
    <3>1. /\ UNCHANGED token /\ pc'[q] = pc[q] /\ call'[q] = call[q]
          /\ pc[q] \in RefreshSteps /\ call[q].token = call'[r].token =>
               token[call[q].token].chain \in clash'
      BY <2>3, ToRefresh DEF RefreshSteps
    <3>2. QED
      BY <2>1, <3>1 DEF ChainOf
  <2>4. CASE pc[q] = "idle"
    <3>1. /\ UNCHANGED token /\ pc'[r] = pc[r] /\ call'[r] = call[r]
          /\ pc[r] \in RefreshSteps /\ call[r].token = call'[q].token =>
               token[call[r].token].chain \in clash'
      BY <2>4, ToRefresh DEF RefreshSteps
    <3>2. QED
      BY <3>1 DEF ChainOf
  <2>5. QED
    BY <2>2, <2>3, <2>4, ToRefresh
<1>8. RotatedOnce'
  <2>1. ASSUME NEW r \in Requests, NEW q \in Requests, r # q,
               pc[r] = "check", call'[r] = call[r], UNCHANGED token,
               ~Usable(call[r].token) => ChainOf(r) \in clash',
               pc[q] = "rotate", call'[q] = call[q],
               ChainOf(r)' = ChainOf(q)', ChainOf(r)' \notin clash'
        PROVE  FALSE
    <3>1. ChainOf(r) = ChainOf(q) /\ ChainOf(r) \notin clash /\ Usable(call[r].token)
      BY <1>2, <2>1 DEF ChainOf
    <3>2. call[r].token # call[q].token
      BY <1>0, <2>1, <3>1 DEF RefreshedOnce, RefreshSteps
    <3>3. Spent(call[r].token)
      BY <1>0, <1>3, <2>1, <3>1, <3>2 DEF RotatesTheLast, ChainOf, RefreshSteps
    <3>4. QED
      BY <3>1, <3>3 DEF Spent
  <2> SUFFICES ASSUME NEW r \in Requests, NEW q \in Requests, r # q,
                      pc'[r] = "rotate", pc'[q] = "rotate",
                      ChainOf(r)' = ChainOf(q)', ChainOf(r)' \notin clash'
               PROVE  FALSE
    BY DEF RotatedOnce
  <2>2. CASE pc[r] = "rotate" /\ call'[r] = call[r] /\ pc[q] = "rotate" /\ call'[q] = call[q]
    BY <1>0, <1>2, <1>4, <2>2 DEF RotatedOnce, RefreshSteps
  <2>3. CASE pc[r] = "check"
    BY <2>1, <2>3, ToRotate
  <2>4. CASE pc[q] = "check"
    BY <2>1, <2>4, ToRotate
  <2>5. QED
    BY <2>2, <2>3, <2>4, ToRotate
<1>9. RotatesTheLast'
  <2> SUFFICES ASSUME NEW r \in Requests, NEW t \in Tokens,
                      pc'[r] = "rotate", ChainOf(r)' \notin clash',
                      token'[t] # None, token'[t].chain = ChainOf(r)', t # call'[r].token
               PROVE  Spent(t)'
    BY DEF RotatesTheLast
  <2>1. CASE /\ pc[r] = "check" /\ call'[r] = call[r] /\ UNCHANGED token
             /\ ~Usable(call[r].token) => ChainOf(r) \in clash'
    <3>1. Usable(call[r].token) /\ ChainOf(r) \notin clash
      BY <1>2, <2>1 DEF ChainOf
    <3>2. ~Usable(t)
      BY <1>0, <1>3, <2>1, <3>1 DEF OneUsableToken, ChainOf, RefreshSteps
    <3>3. QED
      BY <1>1, <2>1, <3>2 DEF Spent
  <2>2. CASE pc[r] = "rotate" /\ call'[r] = call[r]
    <3>1. ChainOf(r)' = ChainOf(r) /\ ChainOf(r) \notin clash
      BY <1>2, <1>4, <2>2 DEF RefreshSteps
    <3>2. CASE token[t] # None
      BY <1>0, <1>1, <2>2, <3>1, <3>2 DEF RotatesTheLast
    <3>3. CASE token[t] = None
      <4>1. token'[t].chain # t
        BY <1>0, <1>3, <2>2, <3>1, <3>3 DEF ChainsBegin, ChainOf, RefreshSteps
      <4>2. PICK p \in Requests : Rotate(p) /\ token'[t].chain = ChainOf(p)
        BY <3>3, <4>1, NewToken
      <4>3. p = r
        BY <1>0, <2>2, <3>1, <4>2 DEF RotatedOnce, Rotate
      <4>4. pc'[r] = "done"
        BY <1>0, <4>2, <4>3, DoneEffect DEF Rotate
      <4>5. QED
        BY <4>4
    <3>4. QED
      BY <3>2, <3>3
  <2>3. QED
    BY <2>1, <2>2, ToRotate
<1>10. OneUsableToken'
  <2>1. ASSUME NEW t \in Tokens, token[t] # None, Usable(t)' PROVE Usable(t)
    BY <1>1, <1>5, <2>1 DEF Spent
  <2>2. ASSUME NEW t \in Tokens, NEW x \in Tokens, t # x, Usable(t)', Usable(x)',
               token[t] = None, token[x] # None,
               token'[t].chain = token'[x].chain, token'[t].chain \notin clash'
        PROVE  FALSE
    <3>1. token'[t] # None /\ token'[x] = token[x]
      BY <1>1, <2>2 DEF Usable, Decodes
    <3>2. token'[t].chain # t
      BY <1>0, <2>2, <3>1 DEF ChainsBegin
    <3>3. PICK p \in Requests : Rotate(p) /\ token'[t].chain = ChainOf(p)
      BY <2>2, <3>1, <3>2, NewToken
    <3>4. CASE x = call[p].token
      <4>1. blacklist'[x] # 0
        BY <3>3, <3>4, BlacklistEffect DEF Rotate, TypeInv, TypeOK
      <4>2. QED
        BY <2>2, <4>1 DEF Usable, Blacklisted
    <3>5. CASE x # call[p].token
      <4>1. Spent(x)
        BY <1>0, <1>2, <2>2, <3>1, <3>3, <3>5 DEF RotatesTheLast, Rotate
      <4>2. QED
        BY <1>1, <1>5, <2>2, <4>1
    <3>6. QED
      BY <3>4, <3>5
  <2> SUFFICES ASSUME NEW t1 \in Tokens, NEW t2 \in Tokens, t1 # t2,
                      Usable(t1)', Usable(t2)',
                      token'[t1].chain = token'[t2].chain, token'[t1].chain \notin clash'
               PROVE  FALSE
    BY DEF OneUsableToken
  <2>3. token'[t1] # None /\ token'[t2] # None
    BY DEF Usable, Decodes
  <2>4. CASE token[t1] # None /\ token[t2] # None
    BY <1>0, <1>1, <1>2, <2>1, <2>4 DEF OneUsableToken
  <2>5. CASE token[t1] = None /\ token[t2] = None
    BY <2>3, <2>5, NewToken
  <2>6. QED
    BY <2>2, <2>4, <2>5
<1>11. QED
  BY <1>6, <1>7, <1>8, <1>9, <1>10 DEF RotationInv

\* At any time one token at most of those that go back to one login is good for
\* a refresh, unless two refreshes of one token were handled at once or Redis
\* did not answer one.
THEOREM OneTokenForEachLogin == Spec => []OneUsableToken
<1>1. Init => ClockInv /\ RotationInv
  BY LifeAssumption
  DEF Init, ClockInv, RotationInv, ChainsBegin, RefreshedOnce, RotatedOnce,
      RotatesTheLast, OneUsableToken, Usable, Decodes, RefreshSteps
<1>2. RotationInv => OneUsableToken
  BY DEF RotationInv
<1>3. QED
  BY <1>1, <1>2, ClockInvNext, RotationInvNext, TypeInvAlways, PTL DEF Spec
=============================================================================
