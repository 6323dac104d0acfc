--------------------------- MODULE LoginSessions ---------------------------
(***************************************************************************)
(* Login sessions in Redis (server/auth/session_manager.py): a hash for    *)
(* each session, with its lifetime, and a sorted set of sessions for each   *)
(* user, with a lifetime of its own.  One operator per command or script;   *)
(* AuthRequests makes steps of them.                                       *)
(***************************************************************************)
EXTENDS RefreshTokens

CONSTANTS
  Sessions,    \* ids of sessions
  SessionLife, \* DEFAULT_SESSION_TTL
  Forever      \* the end of a hash that has no lifetime

ASSUME SessionLifeAssumption == SessionLife \in Nat \ {0} /\ Forever \in Nat
ASSUME SessionsAssumption    == None \notin Sessions

VARIABLES
  hash,        \* the hash of each session, None when there is none
  index,       \* the names in the sorted set of each user
  indexEnd     \* until when Redis keeps the set; 0 when there is none

\* A hash that was not made by the script has no user.
Hash == [user : Users \cup {None}, created : Nat, end : Nat]

\* The key of the hash of the session with the given name.
DetailKey(name) == <<"maat:session", name>>

\* What get_session finds under a name.
HashOf(name) ==
  LET at == {s \in Sessions : DetailKey(s) = DetailKey(name)} IN
  IF at = {} THEN None ELSE hash[CHOOSE s \in at : TRUE]

\* Mutant: the set gets its lifetime when it is made, and keeps it.
AddSession_SetOnce(s, user, created) ==
  /\ hash' = [hash EXCEPT ![s] = [user |-> user, created |-> created, end |-> now + SessionLife]]
  /\ index' = [index EXCEPT ![user] = @ \cup {DetailKey(s)}]
  /\ indexEnd' = [indexEnd EXCEPT ![user] = IF @ = 0 THEN now + SessionLife ELSE @]

\* SESSION_ADD_SCRIPT.  The member of the set is the key of the hash.
AddSession(s, user, created) ==
  /\ hash' = [hash EXCEPT ![s] = [user |-> user, created |-> created, end |-> now + SessionLife]]
  /\ index' = [index EXCEPT ![user] = @ \cup {DetailKey(s)}]
  /\ indexEnd' = [indexEnd EXCEPT ![user] = now + SessionLife]

\* HSET of the remaining fields.  It makes a hash, without a lifetime, when
\* there is none.
SetFields(s) ==
  hash' = IF hash[s] # None THEN hash
          ELSE [hash EXCEPT ![s] = [user |-> None, created |-> 0, end |-> Forever]]

\* Mutant: only a hash that has a lifetime is given a new one.
Extend_Finite(s) ==
  hash' = IF hash[s] = None \/ hash[s].end = Forever THEN hash
          ELSE [hash EXCEPT ![s].end = now + SessionLife]

\* EXPIRE.
Extend(s) ==
  hash' = IF hash[s] = None THEN hash ELSE [hash EXCEPT ![s].end = now + SessionLife]

\* SESSION_REMOVE_SCRIPT, with the key that the name gives.
RemoveSession(name, user) ==
  /\ index' = [index EXCEPT ![user] = @ \ {DetailKey(name)}]
  /\ hash' = [s \in Sessions |-> IF DetailKey(s) = DetailKey(name) THEN None ELSE hash[s]]
  /\ indexEnd' = IF index'[user] = {} THEN [indexEnd EXCEPT ![user] = 0] ELSE indexEnd

\* Redis drops the hashes and the sets that end at the given time.
DropSessions(time) ==
  /\ hash' = [s \in Sessions |->
                IF hash[s] # None /\ hash[s].end <= time THEN None ELSE hash[s]]
  /\ index' = [u \in Users |-> IF indexEnd[u] <= time THEN {} ELSE index[u]]
  /\ indexEnd' = [u \in Users |-> IF indexEnd[u] <= time THEN 0 ELSE indexEnd[u]]
=============================================================================
