---------------------------- MODULE ChatService ----------------------------
(***************************************************************************)
(* Chat sessions and their messages: ChatService (server/chat/service.py)  *)
(* and the chat turn of server/api/routes.py that is built on it, as       *)
(* requests that interleave at every await.                                *)
(*                                                                         *)
(* A step is one database call and the code up to the next one.  A Beanie  *)
(* document is read whole, changed in memory and written back whole, and   *)
(* save() inserts the document if it is no longer there.                   *)
(***************************************************************************)
EXTENDS Integers, FiniteSets, FiniteSetsExt

CONSTANTS
  Requests,     \* HTTP requests, each handled once
  Users,
  Configured,   \* users whose account holds settings, as registration makes it
  Nobody,       \* owner of a session that was never created
  Sessions,     \* object ids of chat_sessions
  Malformed,    \* an id that is no object id: "new", start_chat's uuid[:8]
  Original,     \* the value a field has when the session is created
  NoLimit,      \* get_history without a limit
  Limits,       \* limits a caller may give, NoLimit included
  MaxInFlight,  \* requests handled at the same time
  Failing       \* whether the database may fail and the server restart

ASSUME ConfiguredAssumption == Configured \subseteq Users
ASSUME NobodyAssumption   == Nobody \notin Users
ASSUME IdsAssumption      == Malformed \notin Sessions
ASSUME OriginalAssumption == Original \notin Requests
ASSUME LimitsAssumption   == Limits \subseteq (Nat \ {0}) \cup {NoLimit}
ASSUME InFlightAssumption == MaxInFlight \in Nat \ {0}
ASSUME FailingAssumption  == Failing \in BOOLEAN

VARIABLES
  stored,    \* ids of the sessions in the collection
  sessions,  \* the documents; that of a deleted session is its last value
  messages,  \* the chat_messages collection
  clock,     \* stamps given to messages so far
  call,      \* the call each request makes
  pc,        \* the step each request takes next
  turn,      \* how far a chat turn has come
  local,     \* the session document a request holds in memory
  reply,     \* how the request ended
  shown,     \* the history a request was given
  written,   \* history: last request that meant to write a field
  purged,    \* history: sessions whose messages a request deleted
  serial     \* history: requests never overlapped and none was cut off

db      == <<stored, sessions, messages, clock, written, purged>>
vars    == <<stored, sessions, messages, clock, call, pc, turn, local, reply,
             shown, written, purged, serial>>

----------------------------------------------------------------------------
Fields == {"title", "is_archived", "memory_summary"}

\* A field's value is the request that wrote it.
ChatSession ==
  [user_id       : Users \cup {Nobody},
   fields        : [Fields -> Requests \cup {Original}],
   message_count : Nat]

NewSession(u) ==
  [user_id |-> u, fields |-> [f \in Fields |-> Original], message_count |-> 0]

\* The content of a message is the turn it belongs to.
ChatMessage ==
  [session_id : Sessions, user_id : Users, role : {"human", "ai"},
   content : Requests, created_at : Nat]

MessagesOf(s) == {m \in messages : m.session_id = s}

Ids == Sessions \cup {Malformed}

Call(ops, fields, limits) ==
  [op : ops, user_id : Users, session_id : Ids, fields : fields, limit : limits]

Calls ==
  Call({"delete", "chat"}, {{}}, {NoLimit})
    \cup Call({"update"}, SUBSET {"title", "is_archived"}, {NoLimit})
    \cup Call({"memory"}, {{"memory_summary"}}, {NoLimit})
    \cup Call({"history"}, {{}}, Limits)

NoCall == [op |-> "none"]

InFlight == {r \in Requests : pc[r] \notin {"idle", "done"}}

\* The service method a request is in: a chat turn reads the history, then
\* adds the question, then the answer.
Method(r) ==
  IF call[r].op # "chat" THEN call[r].op
  ELSE IF turn[r] = "history" THEN "history" ELSE "add"

----------------------------------------------------------------------------
Init ==
  /\ stored = {}
  /\ sessions = [s \in Sessions |-> NewSession(Nobody)]
  /\ messages = {}
  /\ clock = 0
  /\ call = [r \in Requests |-> NoCall]
  /\ pc = [r \in Requests |-> "idle"]
  /\ turn = [r \in Requests |-> "history"]
  /\ local = [r \in Requests |-> NewSession(Nobody)]
  /\ reply = [r \in Requests |-> "none"]
  /\ shown = [r \in Requests |-> {}]
  /\ written = [s \in Sessions |-> [f \in Fields |-> Original]]
  /\ purged = {}
  /\ serial = TRUE

Goto(r, step) == pc' = [pc EXCEPT ![r] = step]

Reply(r, answer) ==
  /\ Goto(r, "done")
  /\ reply' = [reply EXCEPT ![r] = answer]

\* A last write that was applied may still be reported as an error.
Answer(r) ==
  \/ Reply(r, "ok")
  \/ Failing /\ Reply(r, "error")

\* A single insert: nothing can come between its steps.
CreateSession(s, u) ==
  /\ sessions[s].user_id = Nobody
  /\ stored' = stored \cup {s}
  /\ sessions' = [sessions EXCEPT ![s] = NewSession(u)]
  /\ UNCHANGED <<messages, clock, call, pc, turn, local, reply, shown, written,
                 purged, serial>>

Begin(r) ==
  /\ pc[r] = "idle"
  /\ Cardinality(InFlight) < MaxInFlight
  /\ \E c \in Calls : call' = [call EXCEPT ![r] = c]
  /\ Goto(r, "read")
  /\ serial' = (serial /\ InFlight = {})
  /\ UNCHANGED <<turn, local, reply, shown>>
  /\ UNCHANGED db

\* Mutant: the owner is not compared with the user.
Owned_ByAnyone(r) == call[r].session_id \in stored

\* ChatSession.get succeeded and the session belongs to the user.
Owned(r) ==
  /\ call[r].session_id \in stored
  /\ sessions[call[r].session_id].user_id = call[r].user_id

\* Only the update methods change the document before writing it back.
Edited(r, doc) ==
  [doc EXCEPT !.fields = [f \in Fields |->
     IF f \in call[r].fields THEN r ELSE doc.fields[f]]]

\* Mutant: a deletion leaves the messages.
AfterRead_KeepsMessages(r) ==
  CASE Method(r) \in {"update", "memory"} -> "save"
    [] Method(r) = "delete"               -> "remove"
    [] Method(r) = "add"                  -> "insert"
    [] Method(r) = "history"              -> "fetch"

AfterRead(r) ==
  CASE Method(r) \in {"update", "memory"} -> "save"
    [] Method(r) = "delete"               -> "purge"
    [] Method(r) = "add"                  -> "insert"
    [] Method(r) = "history"              -> "fetch"

ReadSession(r) ==
  /\ pc[r] = "read"
  /\ Owned(r)
  /\ local' = [local EXCEPT ![r] = Edited(r, sessions[call[r].session_id])]
  /\ Goto(r, AfterRead(r))
  /\ UNCHANGED <<call, turn, reply, shown, serial>>
  /\ UNCHANGED db

\* PydanticObjectId raises bson's InvalidId, which is not the exception that
\* the methods catch.
Refusal(r) ==
  IF call[r].session_id = Malformed THEN "InvalidId"
                                    ELSE "ResourceNotFoundError"

Refuse(r) ==
  /\ pc[r] = "read"
  /\ ~Owned(r)
  /\ turn[r] # "history" \/ call[r].op # "chat"
  /\ Reply(r, Refusal(r))
  /\ UNCHANGED <<call, turn, local, shown, serial>>
  /\ UNCHANGED db

\* Mutant: the turn stores its answer only.
Pipeline_AnswerOnly(r) ==
  \/ /\ Reply(r, "error")
     /\ UNCHANGED turn
  \/ /\ call[r].user_id \notin Configured
     /\ Goto(r, "read")
     /\ turn' = [turn EXCEPT ![r] = "ai"]
     /\ UNCHANGED reply

\* Settings are asked for a top_p they do not have, which ends the turn.  Else
\* the agent runs inside the request without an await.  It fails, or there is
\* an answer and the question is stored next.
Pipeline(r) ==
  \/ /\ Reply(r, "error")
     /\ UNCHANGED turn
  \/ /\ call[r].user_id \notin Configured
     /\ Goto(r, "read")
     /\ turn' = [turn EXCEPT ![r] = "human"]
     /\ UNCHANGED reply

\* invoke_chat swallows every error of get_history: the turn has no history.
HistoryUnavailable(r) ==
  /\ call[r].op = "chat" /\ turn[r] = "history"
  /\ \/ pc[r] = "read" /\ ~Owned(r)
     \/ pc[r] \in {"read", "fetch"} /\ Failing
  /\ Pipeline(r)
  /\ UNCHANGED <<call, local, shown, serial>>
  /\ UNCHANGED db

\* The first limit messages in order of created_at.
Page(ms, limit) ==
  IF limit = NoLimit THEN ms
  ELSE {m \in ms : Cardinality({n \in ms : n.created_at < m.created_at}) < limit}

FetchHistory(r) ==
  /\ pc[r] = "fetch"
  /\ shown' = [shown EXCEPT ![r] =
                 Page(MessagesOf(call[r].session_id), call[r].limit)]
  /\ IF call[r].op = "chat" THEN Pipeline(r)
                            ELSE Reply(r, "ok") /\ UNCHANGED turn
  /\ UNCHANGED <<call, local, serial>>
  /\ UNCHANGED db

\* Mutants: the first message counts for the whole turn; the message is not counted.
Counted_Turn(doc) == [doc EXCEPT !.message_count = @ + 2]
Counted_Not(doc) == doc

Counted(doc) == [doc EXCEPT !.message_count = @ + 1]

InsertMessage(r) ==
  /\ pc[r] = "insert"
  /\ messages' = messages \cup
       {[session_id |-> call[r].session_id, user_id |-> call[r].user_id,
         role |-> turn[r], content |-> r, created_at |-> clock]}
  /\ clock' = clock + 1
  /\ local' = [local EXCEPT ![r] = Counted(@)]
  /\ Goto(r, "save")
  /\ UNCHANGED <<stored, sessions, call, turn, reply, shown, written, purged,
                 serial>>

\* After the question the answer; one that is empty cannot be stored.
AfterAdd(r) ==
  IF call[r].op = "chat" /\ turn[r] = "human"
  THEN \/ Goto(r, "read") /\ turn' = [turn EXCEPT ![r] = "ai"] /\ UNCHANGED reply
       \/ Reply(r, "error") /\ UNCHANGED turn
  ELSE Answer(r) /\ UNCHANGED turn

SaveSession(r) ==
  LET s == call[r].session_id IN
  /\ pc[r] = "save"
  /\ stored' = stored \cup {s}
  /\ sessions' = [sessions EXCEPT ![s] = local[r]]
  /\ written' = [written EXCEPT ![s] = [f \in Fields |->
       IF f \in call[r].fields THEN r ELSE written[s][f]]]
  /\ AfterAdd(r)
  /\ UNCHANGED <<messages, clock, call, local, shown, purged, serial>>

PurgeMessages(r) ==
  /\ pc[r] = "purge"
  /\ messages' = messages \ MessagesOf(call[r].session_id)
  /\ purged' = purged \cup {call[r].session_id}
  /\ Goto(r, "remove")
  /\ UNCHANGED <<stored, sessions, clock, call, turn, local, reply, shown,
                 written, serial>>

RemoveSession(r) ==
  /\ pc[r] = "remove"
  /\ stored' = stored \ {call[r].session_id}
  /\ Answer(r)
  /\ UNCHANGED <<sessions, messages, clock, call, turn, local, shown, written,
                 purged, serial>>

\* A database error or a restart ends the request before its next call.
Fail(r) ==
  /\ Failing
  /\ r \in InFlight
  /\ Reply(r, "error")
  /\ serial' = FALSE
  /\ UNCHANGED <<call, turn, local, shown>>
  /\ UNCHANGED db

Next ==
  \/ \E s \in Sessions, u \in Users : CreateSession(s, u)
  \/ \E r \in Requests :
       \/ Begin(r)
       \/ ReadSession(r)
       \/ Refuse(r)
       \/ HistoryUnavailable(r)
       \/ FetchHistory(r)
       \/ InsertMessage(r)
       \/ SaveSession(r)
       \/ PurgeMessages(r)
       \/ RemoveSession(r)
       \/ Fail(r)

Spec == Init /\ [][Next]_vars

----------------------------------------------------------------------------
(* Properties *)

Steps == {"idle", "read", "fetch", "insert", "save", "purge", "remove", "done"}

Replies == {"none", "ok", "error", "InvalidId", "ResourceNotFoundError"}

\* The variables stay within their types.
TypeOK ==
  /\ stored \subseteq Sessions
  /\ sessions \in [Sessions -> ChatSession]
  /\ messages \subseteq ChatMessage
  /\ clock \in Nat
  /\ call \in [Requests -> Calls \cup {NoCall}]
  /\ pc \in [Requests -> Steps]
  /\ turn \in [Requests -> {"history", "human", "ai"}]
  /\ local \in [Requests -> ChatSession]
  /\ reply \in [Requests -> Replies]
  /\ shown \in [Requests -> SUBSET ChatMessage]
  /\ written \in [Sessions -> [Fields -> Requests \cup {Original}]]
  /\ purged \subseteq Sessions
  /\ serial \in BOOLEAN

\* However turns interleave and wherever they are cut off, message_count is
\* never more than the messages there are, as long as none was deleted.
CountNeverOverstates ==
  \A s \in stored \ purged :
    sessions[s].message_count <= Cardinality(MessagesOf(s))

\* A session never changes hands, not even when it is written back after its
\* deletion, and nobody is given another user's messages.
OwnerIsolation ==
  /\ \A m \in messages : m.user_id = sessions[m.session_id].user_id
  /\ \A r \in Requests : \A m \in shown[r] : m.user_id = call[r].user_id

\* An answer is never stored or shown without the question it answers, unless
\* the session's messages were deleted in between.
AnswerHasItsQuestion ==
  LET Complete(ms) ==
        \A m \in ms : (m.role = "ai" /\ m.session_id \notin purged) =>
          \E q \in ms : /\ q.content = m.content
                        /\ q.role = "human"
                        /\ q.created_at < m.created_at
  IN  Complete(messages) /\ \A r \in Requests : Complete(shown[r])

----------------------------------------------------------------------------
(* What sequential use keeps and concurrent use does not. *)

Quiet == serial /\ InFlight = {}

\* As long as requests come one after the other and none is cut off,
\* message_count is the number of messages between them.
CountIsExact ==
  Quiet => \A s \in stored :
             sessions[s].message_count = Cardinality(MessagesOf(s))

\* Under the same condition every field holds what was last written to it, and
\* a session that was deleted is gone with its messages.
LastWriteStands ==
  Quiet => /\ \A s \in stored : sessions[s].fields = written[s]
           /\ \A m \in messages : m.session_id \in stored

\* delete_session: "Delete a chat session and all its messages."  Once it has
\* answered there is neither.
DeletedMeansGone ==
  \A r \in Requests :
    (call[r].op = "delete" /\ reply[r] = "ok") =>
      /\ call[r].session_id \notin stored
      /\ MessagesOf(call[r].session_id) = {}
=============================================================================
