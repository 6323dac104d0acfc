------------------------------ MODULE Accounts ------------------------------
(***************************************************************************)
(* User accounts: registration, login, password changes and resets         *)
(* (server/auth/router.py), preferences and the deletion of an account     *)
(* (server/settings/router.py), and the chats that hang on an account, as   *)
(* requests that interleave at every await.                                *)
(*                                                                         *)
(* A step is one database call and the code up to the next one.  As in     *)
(* ChatService a document is read whole and written back whole, and save() *)
(* inserts what is no longer there.  Tokens are left out: a request for an *)
(* account comes from its owner.  So are the contents of settings and of   *)
(* chats; only whether an account has any is kept.                         *)
(***************************************************************************)
EXTENDS Integers, FiniteSets

CONSTANTS
  Requests,     \* HTTP requests, each handled once
  Accounts,     \* object ids of users
  Emails,
  Original,     \* the password of an account that is there at first
  None,         \* no account, no document
  MaxInFlight,  \* requests handled at the same time
  Failing       \* whether the database may fail and the server restart

ASSUME OriginalAssumption == Original \notin Requests
ASSUME InFlightAssumption == MaxInFlight \in Nat \ {0}
ASSUME FailingAssumption  == Failing \in BOOLEAN

VARIABLES
  users,       \* the accounts in the collection of users
  document,    \* their documents; that of a deleted account is its last value
  settings,    \* accounts with a document in the collection of settings
  sessions,    \* accounts with chat sessions
  messages,    \* accounts with chat messages
  call,        \* the call each request makes
  pc,          \* the step each request takes next
  id,          \* the account each request is about
  local,       \* the user document a request holds in memory
  latest,      \* history: the last password set for an account
  deleted,     \* history: accounts that were deleted
  overlapped   \* history: the calls that were in flight together, in pairs

chats   == <<sessions, messages>>
history == <<latest, deleted, overlapped>>
vars    == <<users, document, settings, sessions, messages, call, pc, id, local,
             latest, deleted, overlapped>>

----------------------------------------------------------------------------
\* A password is the request that set it.
User == [email : Emails, password : Requests \cup {Original}]

ASSUME NoneAssumption == None \notin Accounts \cup User

ByEmail == {"register", "login"}

\* By the account named in the access token or the reset token.
ById == {"change", "reset", "update", "delete", "create_chat", "message"}

Calls == [op : ByEmail, email : Emails] \cup [op : ById, id : Accounts]

NoCall == [op |-> "none"]

InFlight == {r \in Requests : pc[r] \notin {"idle", "done"}}

\* Some accounts were registered before, one after the other.
Init ==
  /\ users \in SUBSET Accounts
  /\ document \in [Accounts -> [email : Emails, password : {Original}] \cup {None}]
  /\ \A a \in Accounts : document[a] = None <=> a \notin users
  /\ \A a, b \in users : document[a] = document[b] => a = b
  /\ settings = users
  /\ sessions \in SUBSET users
  /\ messages \in SUBSET sessions
  /\ call = [r \in Requests |-> NoCall]
  /\ pc = [r \in Requests |-> "idle"]
  /\ id = [r \in Requests |-> None]
  /\ local = [r \in Requests |-> None]
  /\ latest = [a \in Accounts |-> Original]
  /\ deleted = {}
  /\ overlapped = {}

Goto(r, step) == pc' = [pc EXCEPT ![r] = step]

\* The request is answered, or cut off; what it answers is left out.
Done(r) ==
  /\ Goto(r, "done")
  /\ call' = [call EXCEPT ![r] = NoCall]
  /\ id' = [id EXCEPT ![r] = None]
  /\ local' = [local EXCEPT ![r] = None]

Begin(r) ==
  /\ pc[r] = "idle"
  /\ Cardinality(InFlight) < MaxInFlight
  /\ \E c \in Calls :
       /\ call' = [call EXCEPT ![r] = c]
       /\ overlapped' = overlapped \cup {{c.op, call[q].op} : q \in InFlight}
  /\ Goto(r, "read")
  /\ UNCHANGED <<users, document, settings, id, local, latest, deleted>>
  /\ UNCHANGED chats

----------------------------------------------------------------------------
(* The first step of a request: the user document. *)

\* Mutant: register looks for the address as it was typed, and finds nobody.
Found_AsTyped(r) ==
  {a \in users : \/ call[r].op = "login" /\ document[a].email = call[r].email
                 \/ call[r].op \in ById /\ a = call[r].id}

\* find_one by email, or get by id.
Found(r) ==
  {a \in users : IF call[r].op \in ByEmail
                 THEN document[a].email = call[r].email
                 ELSE a = call[r].id}

\* No account has the id yet.
Fresh(a) == document[a] = None /\ a \notin settings /\ \A r \in Requests : id[r] # a

\* Mutant: a reset saves the document without the new password.
Edited_ChangeOnly(r, doc) ==
  IF call[r].op = "change" THEN [doc EXCEPT !.password = r] ELSE doc

\* Changes the document in memory; the rest of the handler follows.
Edited(r, doc) ==
  IF call[r].op \in {"change", "reset"} THEN [doc EXCEPT !.password = r] ELSE doc

\* Mutant: an account is deleted without its messages.
AfterRead_SessionsFirst(r) ==
  CASE call[r].op \in {"login", "change", "reset"} -> "save"
    [] call[r].op = "update"                       -> "save_settings"
    [] call[r].op = "delete"                       -> "delete_sessions"
    [] call[r].op = "create_chat"                  -> "insert_session"
    [] call[r].op = "message"                      -> "read_session"

AfterRead(r) ==
  CASE call[r].op \in {"login", "change", "reset"} -> "save"
    [] call[r].op = "update"                       -> "save_settings"
    [] call[r].op = "delete"                       -> "delete_messages"
    [] call[r].op = "create_chat"                  -> "insert_session"
    [] call[r].op = "message"                      -> "read_session"

ReadUser(r) ==
  /\ pc[r] = "read"
  /\ call[r].op # "register"
  /\ \E a \in Found(r) :
       /\ id' = [id EXCEPT ![r] = a]
       /\ local' = [local EXCEPT ![r] = Edited(r, document[a])]
  /\ Goto(r, AfterRead(r))
  /\ UNCHANGED <<users, document, settings, call>>
  /\ UNCHANGED chats
  /\ UNCHANGED history

\* Nobody has the email address: the document is made, with a new id.
PrepareUser(r) ==
  /\ pc[r] = "read"
  /\ call[r].op = "register"
  /\ Found(r) = {}
  /\ \E a \in Accounts :
       /\ Fresh(a)
       /\ id' = [id EXCEPT ![r] = a]
  /\ local' = [local EXCEPT ![r] = [email |-> call[r].email, password |-> r]]
  /\ Goto(r, "insert_settings")
  /\ UNCHANGED <<users, document, settings, call>>
  /\ UNCHANGED chats
  /\ UNCHANGED history

\* The calls that ask for the current password.
NeedsPassword(r) == call[r].op \in {"login", "change", "delete"}

\* Somebody has the email address, nobody has the account, or the password
\* that was sent is a wrong one.
Refuse(r) ==
  /\ pc[r] = "read"
  /\ \/ call[r].op = "register" /\ Found(r) # {}
     \/ call[r].op # "register" /\ Found(r) = {}
     \/ NeedsPassword(r)
  /\ Done(r)
  /\ UNCHANGED <<users, document, settings>>
  /\ UNCHANGED chats
  /\ UNCHANGED history

----------------------------------------------------------------------------
(* Writes *)

InsertSettings(r) ==
  /\ pc[r] = "insert_settings"
  /\ settings' = settings \cup {id[r]}
  /\ Goto(r, "insert_user")
  /\ UNCHANGED <<users, document, call, id, local>>
  /\ UNCHANGED chats
  /\ UNCHANGED history

Written(r) ==
  /\ users' = users \cup {id[r]}
  /\ document' = [document EXCEPT ![id[r]] = local[r]]

InsertUser(r) ==
  /\ pc[r] = "insert_user"
  /\ Written(r)
  /\ latest' = [latest EXCEPT ![id[r]] = r]
  /\ Done(r)
  /\ UNCHANGED <<settings, deleted, overlapped>>
  /\ UNCHANGED chats

\* login writes last_login_at, the others the password.
SaveUser(r) ==
  /\ pc[r] = "save"
  /\ Written(r)
  /\ latest' = IF call[r].op = "login" THEN latest
               ELSE [latest EXCEPT ![id[r]] = r]
  /\ Done(r)
  /\ UNCHANGED <<settings, deleted, overlapped>>
  /\ UNCHANGED chats

\* The document in the collection only: the copy within the user document
\* stays as it is.
SaveSettings(r) ==
  /\ pc[r] = "save_settings"
  /\ settings' = settings \cup {id[r]}
  /\ Done(r)
  /\ UNCHANGED <<users, document>>
  /\ UNCHANGED chats
  /\ UNCHANGED history

InsertSession(r) ==
  /\ pc[r] = "insert_session"
  /\ sessions' = sessions \cup {id[r]}
  /\ Done(r)
  /\ UNCHANGED <<users, document, settings, messages>>
  /\ UNCHANGED history

ReadSession(r) ==
  /\ pc[r] = "read_session"
  /\ IF id[r] \in sessions
     THEN Goto(r, "insert_message") /\ UNCHANGED <<call, id, local>>
     ELSE Done(r)
  /\ UNCHANGED <<users, document, settings>>
  /\ UNCHANGED chats
  /\ UNCHANGED history

InsertMessage(r) ==
  /\ pc[r] = "insert_message"
  /\ messages' = messages \cup {id[r]}
  /\ Goto(r, "insert_session")
  /\ UNCHANGED <<users, document, settings, sessions, call, id, local>>
  /\ UNCHANGED history

----------------------------------------------------------------------------
(* delete_account *)

DeleteMessages(r) ==
  /\ pc[r] = "delete_messages"
  /\ messages' = messages \ {id[r]}
  /\ Goto(r, "delete_sessions")
  /\ UNCHANGED <<users, document, settings, sessions, call, id, local>>
  /\ UNCHANGED history

DeleteSessions(r) ==
  /\ pc[r] = "delete_sessions"
  /\ sessions' = sessions \ {id[r]}
  /\ Goto(r, "delete_settings")
  /\ UNCHANGED <<users, document, settings, messages, call, id, local>>
  /\ UNCHANGED history

DeleteSettings(r) ==
  /\ pc[r] = "delete_settings"
  /\ settings' = settings \ {id[r]}
  /\ Goto(r, "delete_user")
  /\ UNCHANGED <<users, document, call, id, local>>
  /\ UNCHANGED chats
  /\ UNCHANGED history

DeleteUser(r) ==
  /\ pc[r] = "delete_user"
  /\ users' = users \ {id[r]}
  /\ deleted' = deleted \cup {id[r]}
  /\ Done(r)
  /\ UNCHANGED <<document, settings, latest, overlapped>>
  /\ UNCHANGED chats

\* A database error or a restart ends the request before its next call.
Fail(r) ==
  /\ Failing
  /\ r \in InFlight
  /\ Done(r)
  /\ UNCHANGED <<users, document, settings>>
  /\ UNCHANGED chats
  /\ UNCHANGED history

Next ==
  \E r \in Requests :
    \/ Begin(r)
    \/ ReadUser(r)
    \/ PrepareUser(r)
    \/ Refuse(r)
    \/ InsertSettings(r)
    \/ InsertUser(r)
    \/ SaveUser(r)
    \/ SaveSettings(r)
    \/ InsertSession(r)
    \/ ReadSession(r)
    \/ InsertMessage(r)
    \/ DeleteMessages(r)
    \/ DeleteSessions(r)
    \/ DeleteSettings(r)
    \/ DeleteUser(r)
    \/ Fail(r)

Spec == Init /\ [][Next]_vars

----------------------------------------------------------------------------
(* Properties *)

Steps ==
  {"idle", "read", "insert_settings", "insert_user", "save", "save_settings",
   "insert_session", "read_session", "insert_message", "delete_messages",
   "delete_sessions", "delete_settings", "delete_user", "done"}

\* The variables stay within their types, and there are no users without a
\* document.
TypeOK ==
  /\ users \subseteq {a \in Accounts : document[a] # None}
  /\ document \in [Accounts -> User \cup {None}]
  /\ settings \subseteq Accounts
  /\ sessions \subseteq Accounts
  /\ messages \subseteq Accounts
  /\ call \in [Requests -> Calls \cup {NoCall}]
  /\ pc \in [Requests -> Steps]
  /\ id \in [Requests -> Accounts \cup {None}]
  /\ local \in [Requests -> User \cup {None}]
  /\ latest \in [Accounts -> Requests \cup {Original}]
  /\ deleted \subseteq Accounts
  /\ overlapped \subseteq {{o, p} : o, p \in ByEmail \cup ById}

\* Calls of these two kinds were in flight together.
Overlapped(ops1, ops2) == \E o \in ops1, p \in ops2 : {o, p} \in overlapped

SetPassword == {"change", "reset"}
SaveDocument == SetPassword \cup {"login"}
WriteBack == SaveDocument \cup {"update", "create_chat", "message"}

\* An account's password is the one that was set last, whatever is cut off and
\* whatever interleaves, unless a call that sets a password overlaps one that
\* writes the whole document back.
PasswordIsLatest ==
  ~Overlapped(SetPassword, SaveDocument) =>
    \A a \in users : document[a].password = latest[a]

UniqueEmails ==
  \A a, b \in users : document[a].email = document[b].email => a = b

\* No two accounts have one email address, unless two registrations overlap,
\* or a deletion overlaps a call that writes the document back.
EmailsStayUnique ==
  ~Overlapped({"register"}, {"register"}) /\ ~Overlapped({"delete"}, SaveDocument)
    => UniqueEmails

\* Nothing is left of an account that was deleted, however often the deletion
\* was cut off before, and no chat is left without its account, so that a
\* deletion that was cut off can be asked for again; unless a deletion overlaps
\* a call that writes something of the account.
NoOrphans ==
  ~Overlapped({"delete"}, WriteBack) =>
    /\ deleted \cap (users \cup settings) = {}
    /\ messages \subseteq sessions
    /\ sessions \subseteq users

=============================================================================
