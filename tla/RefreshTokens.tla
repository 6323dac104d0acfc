--------------------------- MODULE RefreshTokens ---------------------------
(***************************************************************************)
(* Refresh tokens (server/auth/security.py) and the blacklist of them in   *)
(* Redis (server/auth/token_blacklist.py): what can be said of a token at   *)
(* a moment, and how one is issued and revoked.  AuthRequests makes steps   *)
(* of this.                                                                *)
(*                                                                         *)
(* A token is its jti; of its claims the user and the expiry are kept, and  *)
(* the login it goes back to.  Access tokens are left out: nothing puts    *)
(* one on a blacklist, they only expire.                                   *)
(***************************************************************************)
EXTENDS Integers, FiniteSets

CONSTANTS
  Users,
  Tokens,       \* the jtis of refresh tokens
  None,         \* no token, no session, no user
  RefreshLife,  \* how long a refresh token is valid
  AccessLife    \* how long an access token is valid, which is shorter

ASSUME LifeAssumption ==
  RefreshLife \in Nat /\ AccessLife \in Nat /\ 0 < AccessLife /\ AccessLife < RefreshLife
VARIABLES
  now,        \* the time on the clock
  token,      \* the tokens that were issued
  blacklist   \* until when the blacklist has a token; 0 when it does not

Token == [user : Users, chain : Tokens, exp : Nat]

ASSUME NoneAssumption == None \notin Users \cup Tokens \cup Token

\* A login starts a chain of tokens; each refresh adds to it.
Issue(t, user, chain, exp) ==
  /\ token[t] = None
  /\ token' = [token EXCEPT ![t] = [user |-> user, chain |-> chain, exp |-> exp]]

\* A token is good up to and including its last second for the library ...
Decodes(t) == token[t] # None /\ token[t].exp >= now

\* ... and has expired in it for the function that asks.
Expired(t) == token[t] # None /\ now >= token[t].exp

Blacklisted(t) == blacklist[t] # 0

\* Mutant: the entry lives as long as an access token.
Blacklist_AccessTTL(t) ==
  blacklist' = IF Blacklisted(t) THEN blacklist
               ELSE [blacklist EXCEPT ![t] = now + AccessLife]

\* An entry that is there keeps the end it has.
Blacklist(t) ==
  blacklist' = IF Blacklisted(t) THEN blacklist
               ELSE [blacklist EXCEPT ![t] = now + RefreshLife]

\* Redis drops the entries that end at the given time.
DropEntries(time) ==
  blacklist' = [t \in Tokens |-> IF blacklist[t] <= time THEN 0 ELSE blacklist[t]]

\* A refresh with the token would be granted.
Usable(t) == Decodes(t) /\ ~Expired(t) /\ ~Blacklisted(t)

Spent(t) == token[t] # None /\ ~Usable(t)
=============================================================================
