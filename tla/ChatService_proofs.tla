------------------------- MODULE ChatService_proofs -------------------------
(***************************************************************************)
(* Proofs about ChatService, for any number of requests, users and         *)
(* sessions, any limits and any number of requests in flight, with and     *)
(* without failures.                                                       *)
(*                                                                         *)
(* First the types together with what a request at each step has, then the *)
(* properties that survive every interleaving, and last those that         *)
(* sequential use keeps.                                                   *)
(***************************************************************************)
EXTENDS ChatService, FiniteSetTheorems, TLAPS

\* The steps before which a request read the session.
Holding == {"fetch", "insert", "save", "purge", "remove"}

\* What a request has at each step: its call, and from the read on a session of
\* its user.
CallOK(r) ==
  /\ pc[r] = "idle" => turn[r] = "history" /\ shown[r] = {}
  /\ pc[r] # "idle" => call[r] \in Calls
  /\ turn[r] # "history" => call[r].op = "chat"
  /\ pc[r] = "insert" => turn[r] # "history"
  /\ pc[r] = "fetch" => turn[r] = "history"
  /\ pc[r] \in {"purge", "remove"} => call[r].op = "delete"
  /\ pc[r] \in Holding =>
       /\ call[r].session_id \in Sessions
       /\ sessions[call[r].session_id].user_id = call[r].user_id
       /\ local[r].user_id = call[r].user_id

TypeInv ==
  /\ TypeOK
  /\ IsFiniteSet(messages)
  /\ \A m \in messages : m.created_at < clock
  /\ \A r \in Requests : CallOK(r)

\* Every message belongs to the owner of its session, also those that were
\* shown.
OwnerInv == TypeInv /\ OwnerIsolation

\* The question of a turn is stored, unless its session was purged since.
Asked(r) ==
  call[r].session_id \notin purged =>
    \E q \in messages :
      /\ q.session_id = call[r].session_id
      /\ q.content = r
      /\ q.role = "human"

\* Every answer has its question in its own session.
Answered(ms) ==
  \A m \in ms : (m.role = "ai" /\ m.session_id \notin purged) =>
    \E q \in ms : /\ q.session_id = m.session_id
                  /\ q.content = m.content
                  /\ q.role = "human"
                  /\ q.created_at < m.created_at

AnswerInv ==
  /\ TypeInv
  /\ Answered(messages)
  /\ \A r \in Requests :
       /\ Answered(shown[r])
       /\ turn[r] = "ai" => Asked(r)
       /\ turn[r] = "human" /\ pc[r] = "save" => Asked(r)

\* Neither a stored count nor one that a request is about to write is too high.
CountInv ==
  /\ TypeInv
  /\ \A s \in Sessions \ purged :
       /\ sessions[s].message_count <= Cardinality(MessagesOf(s))
       /\ \A r \in Requests :
            pc[r] \in Holding /\ call[r].session_id = s =>
              local[r].message_count <= Cardinality(MessagesOf(s))
  /\ \A r \in Requests : pc[r] = "remove" => call[r].session_id \in purged

----------------------------------------------------------------------------
(* What actions have in common *)

\* A step of one request leaves what the others have alone ...
OthersStay(r) ==
  \A q \in Requests \ {r} :
    /\ pc'[q] = pc[q] /\ turn'[q] = turn[q] /\ call'[q] = call[q]
    /\ local'[q] = local[q] /\ shown'[q] = shown[q]

\* ... and no step gives a session that has an owner another one.
OwnersStay ==
  \A s \in Sessions :
    sessions[s].user_id \in Users => sessions'[s].user_id = sessions[s].user_id

\* The requests' own variables.
RequestType ==
  /\ call \in [Requests -> Calls \cup {NoCall}]
  /\ pc \in [Requests -> Steps]
  /\ turn \in [Requests -> {"history", "human", "ai"}]
  /\ local \in [Requests -> ChatSession]
  /\ reply \in [Requests -> Replies]
  /\ shown \in [Requests -> SUBSET ChatMessage]

\* The database and what is remembered of it.
DbType ==
  /\ stored \subseteq Sessions
  /\ sessions \in [Sessions -> ChatSession]
  /\ messages \subseteq ChatMessage
  /\ clock \in Nat
  /\ written \in [Sessions -> [Fields -> Requests \cup {Original}]]
  /\ purged \subseteq Sessions
  /\ IsFiniteSet(messages)
  /\ \A m \in messages : m.created_at < clock

\* The type invariant in these parts.
LEMMA TypeParts ==
  TypeInv <=> RequestType /\ DbType /\ serial \in BOOLEAN /\ \A r \in Requests : CallOK(r)
BY DEF TypeInv, TypeOK, RequestType, DbType

\* The parts of a call.
LEMMA CallType ==
  ASSUME NEW c \in Calls
  PROVE  /\ c.op \in {"delete", "chat", "update", "memory", "history"}
         /\ c.user_id \in Users
         /\ c.session_id \in Ids
         /\ c.fields \subseteq Fields
         /\ c.limit \in Limits \cup {NoLimit}
         /\ c.op = "chat" => c.fields = {}
BY DEF Calls, Call, Fields

\* What another request has stays as good as it was.
LEMMA OthersOK ==
  ASSUME RequestType, NEW r \in Requests, \A q \in Requests : CallOK(q),
         OthersStay(r), OwnersStay, CallOK(r)'
  PROVE  \A q \in Requests : CallOK(q)'
<1> SUFFICES ASSUME NEW q \in Requests \ {r}
             PROVE  CallOK(q)'
  OBVIOUS
<1>1. CallOK(q)
  OBVIOUS
<1>2. pc[q] # "idle" => call[q].user_id \in Users
  BY <1>1, CallType DEF CallOK
<1>3. pc[q] \in Holding => sessions'[call[q].session_id].user_id = call[q].user_id
  BY <1>1, <1>2 DEF CallOK, OwnersStay, Holding
<1>4. QED
  BY <1>1, <1>3 DEF CallOK, OthersStay

\* An answer ends the request, with one of the replies.
LEMMA ReplyEffect ==
  ASSUME RequestType, NEW r \in Requests, NEW answer \in Replies, Reply(r, answer)
  PROVE  /\ pc' \in [Requests -> Steps] /\ reply' \in [Requests -> Replies]
         /\ pc'[r] = "done"
         /\ \A q \in Requests \ {r} : pc'[q] = pc[q]
BY DEF RequestType, Reply, Goto, Steps

\* A request that goes on takes another step.
LEMMA GotoEffect ==
  ASSUME RequestType, NEW r \in Requests, NEW step \in Steps, Goto(r, step)
  PROVE  /\ pc' \in [Requests -> Steps]
         /\ pc'[r] = step
         /\ \A q \in Requests \ {r} : pc'[q] = pc[q]
BY DEF RequestType, Goto

\* A request that is done has nothing to be right about but its call.
LEMMA DoneOK ==
  ASSUME NEW r \in Requests, CallOK(r), pc[r] # "idle", pc'[r] = "done",
         call'[r] = call[r], turn'[r] = turn[r]
  PROVE  CallOK(r)'
BY DEF CallOK, Holding

----------------------------------------------------------------------------
(* Type correctness: each action *)

\* What a step of a request has to keep.
Sound(r) ==
  /\ RequestType' /\ DbType' /\ serial' \in BOOLEAN
  /\ CallOK(r)' /\ OthersStay(r) /\ OwnersStay

\* A request that only moves leaves the database right.
LEMMA DbStays ==
  ASSUME DbType, UNCHANGED db
  PROVE  DbType' /\ OwnersStay
BY DEF DbType, OwnersStay, db

\* A request begins with one of the calls.
LEMMA BeginSound ==
  ASSUME TypeInv, NEW r \in Requests, Begin(r)
  PROVE  Sound(r)
<1>1. RequestType /\ DbType /\ serial \in BOOLEAN /\ CallOK(r) /\ pc[r] = "idle"
  BY TypeParts DEF Begin
<1>2. UNCHANGED <<turn, local, reply, shown>> /\ serial' \in BOOLEAN /\ UNCHANGED db
  BY <1>1 DEF Begin
<1>3. /\ pc' \in [Requests -> Steps] /\ pc'[r] = "read"
      /\ \A q \in Requests \ {r} : pc'[q] = pc[q]
  BY <1>1, GotoEffect DEF Begin, Steps
<1>4. PICK c \in Calls : call' = [call EXCEPT ![r] = c]
  BY DEF Begin
<1>5. RequestType' /\ OthersStay(r) /\ call'[r] \in Calls
  BY <1>1, <1>2, <1>3, <1>4 DEF RequestType, OthersStay
<1>6. CallOK(r)'
  BY <1>1, <1>2, <1>3, <1>5 DEF CallOK, Holding
<1>7. QED
  BY <1>1, <1>2, <1>5, <1>6, DbStays DEF Sound

\* What is read is edited without changing its owner.
LEMMA EditedType ==
  ASSUME NEW r \in Requests, NEW doc \in ChatSession
  PROVE  /\ Edited(r, doc) \in ChatSession
         /\ Edited(r, doc).user_id = doc.user_id
         /\ Edited(r, doc).message_count = doc.message_count
BY DEF Edited, ChatSession

\* The step after the read suits the call.
LEMMA AfterReadType ==
  ASSUME NEW r \in Requests, call[r] \in Calls,
         turn[r] \in {"history", "human", "ai"}, turn[r] # "history" => call[r].op = "chat"
  PROVE  /\ AfterRead(r) \in Holding \cap Steps
         /\ AfterRead(r) = "insert" => turn[r] # "history"
         /\ AfterRead(r) = "fetch" => turn[r] = "history"
         /\ AfterRead(r) # "remove"
         /\ AfterRead(r) = "purge" => call[r].op = "delete"
         /\ AfterRead(r) = "save" => call[r].op \in {"update", "memory"}
<1>1. call[r].op \in {"delete", "chat", "update", "memory", "history"}
  BY CallType
<1>2. QED
  BY <1>1 DEF AfterRead, Method, Holding, Steps

\* A request that found its session holds it as it was read.
LEMMA ReadSessionSound ==
  ASSUME TypeInv, NEW r \in Requests, ReadSession(r)
  PROVE  Sound(r)
<1>1. RequestType /\ DbType /\ serial \in BOOLEAN /\ CallOK(r) /\ pc[r] = "read"
  BY TypeParts DEF ReadSession
<1> DEFINE s == call[r].session_id
<1>2. call[r] \in Calls /\ s \in Sessions /\ sessions[s].user_id = call[r].user_id
  BY <1>1 DEF CallOK, ReadSession, Owned, DbType
<1>3. UNCHANGED <<call, turn, reply, shown, serial>> /\ UNCHANGED db
  BY DEF ReadSession
<1>4. /\ pc' \in [Requests -> Steps] /\ pc'[r] = AfterRead(r)
      /\ \A q \in Requests \ {r} : pc'[q] = pc[q]
  BY <1>1, <1>2, AfterReadType, GotoEffect DEF ReadSession, RequestType, CallOK
<1>5. local' = [local EXCEPT ![r] = Edited(r, sessions[s])]
  BY DEF ReadSession
<1>6. Edited(r, sessions[s]) \in ChatSession /\ Edited(r, sessions[s]).user_id = call[r].user_id
  BY <1>1, <1>2, EditedType DEF DbType
<1>7. RequestType' /\ OthersStay(r)
  BY <1>1, <1>3, <1>4, <1>5, <1>6 DEF RequestType, OthersStay
<1>8. local'[r].user_id = call[r].user_id
  BY <1>1, <1>5, <1>6 DEF RequestType
<1>9. sessions' = sessions
  BY <1>3 DEF db
<1>10. turn[r] # "history" => call[r].op = "chat"
  BY <1>1 DEF CallOK
<1>11. /\ AfterRead(r) \in Holding
       /\ AfterRead(r) = "insert" => turn[r] # "history"
       /\ AfterRead(r) = "fetch" => turn[r] = "history"
       /\ AfterRead(r) # "remove"
       /\ AfterRead(r) = "purge" => call[r].op = "delete"
  BY <1>1, <1>2, <1>10, AfterReadType DEF RequestType
<1>12. CallOK(r)'
  BY <1>2, <1>3, <1>4, <1>8, <1>9, <1>10, <1>11 DEF CallOK, Holding
<1>13. QED
  BY <1>1, <1>3, <1>7, <1>12, DbStays DEF Sound

\* A refusal ends the request.
LEMMA RefuseSound ==
  ASSUME TypeInv, NEW r \in Requests, Refuse(r)
  PROVE  Sound(r)
<1>1. RequestType /\ DbType /\ serial \in BOOLEAN /\ CallOK(r) /\ pc[r] = "read"
  BY TypeParts DEF Refuse
<1>2. UNCHANGED <<call, turn, local, shown, serial>> /\ UNCHANGED db
  BY DEF Refuse
<1>3. Refusal(r) \in Replies
  BY DEF Refusal, Replies
<1>4. /\ pc' \in [Requests -> Steps] /\ reply' \in [Requests -> Replies]
      /\ pc'[r] = "done" /\ \A q \in Requests \ {r} : pc'[q] = pc[q]
  BY <1>1, <1>3, ReplyEffect DEF Refuse
<1>5. RequestType' /\ OthersStay(r) /\ CallOK(r)'
  BY <1>1, <1>2, <1>4, DoneOK DEF RequestType, OthersStay
<1>6. QED
  BY <1>1, <1>2, <1>5, DbStays DEF Sound

\* The pipeline fails, or the question is stored next.
LEMMA PipelineEffect ==
  ASSUME RequestType, NEW r \in Requests, Pipeline(r)
  PROVE  /\ pc' \in [Requests -> Steps] /\ reply' \in [Requests -> Replies]
         /\ turn' \in [Requests -> {"history", "human", "ai"}]
         /\ \/ pc'[r] = "done" /\ turn' = turn
            \/ pc'[r] = "read" /\ turn'[r] = "human"
         /\ \A q \in Requests \ {r} : pc'[q] = pc[q] /\ turn'[q] = turn[q]
BY ReplyEffect, GotoEffect DEF Pipeline, RequestType, Replies, Steps

\* A turn without a history goes on.
LEMMA HistoryUnavailableSound ==
  ASSUME TypeInv, NEW r \in Requests, HistoryUnavailable(r)
  PROVE  Sound(r)
<1>1. /\ RequestType /\ DbType /\ serial \in BOOLEAN /\ CallOK(r)
      /\ pc[r] \in {"read", "fetch"} /\ call[r].op = "chat"
  BY TypeParts DEF HistoryUnavailable
<1>2. UNCHANGED <<call, local, shown, serial>> /\ UNCHANGED db
  BY DEF HistoryUnavailable
<1>3. Pipeline(r)
  BY DEF HistoryUnavailable
<1>4. RequestType' /\ OthersStay(r)
  BY <1>1, <1>2, <1>3, PipelineEffect DEF RequestType, OthersStay
<1>5. CallOK(r)'
  BY <1>1, <1>2, <1>3, PipelineEffect DEF CallOK, Holding
<1>6. QED
  BY <1>1, <1>2, <1>4, <1>5, DbStays DEF Sound

\* What is shown are messages of the session.
LEMMA PageIsOfSession ==
  ASSUME NEW ms, NEW limit
  PROVE  Page(ms, limit) \subseteq ms
BY DEF Page

\* The history is shown, and a turn goes on with it.
LEMMA FetchHistorySound ==
  ASSUME TypeInv, NEW r \in Requests, FetchHistory(r)
  PROVE  Sound(r)
<1>1. /\ RequestType /\ DbType /\ serial \in BOOLEAN /\ CallOK(r) /\ pc[r] = "fetch"
  BY TypeParts DEF FetchHistory
<1>2. UNCHANGED <<call, local, serial>> /\ UNCHANGED db
  BY DEF FetchHistory
<1> DEFINE page == Page(MessagesOf(call[r].session_id), call[r].limit)
<1>3. page \in SUBSET ChatMessage /\ shown' = [shown EXCEPT ![r] = page]
  BY <1>1, PageIsOfSession DEF FetchHistory, MessagesOf, DbType
<1>4. /\ pc' \in [Requests -> Steps] /\ reply' \in [Requests -> Replies]
      /\ turn' \in [Requests -> {"history", "human", "ai"}]
      /\ \/ pc'[r] = "done" /\ turn' = turn
         \/ pc'[r] = "read" /\ turn'[r] = "human" /\ call[r].op = "chat"
      /\ \A q \in Requests \ {r} : pc'[q] = pc[q] /\ turn'[q] = turn[q]
  <2>1. CASE call[r].op = "chat"
    BY <1>1, <2>1, PipelineEffect DEF FetchHistory
  <2>2. CASE call[r].op # "chat"
    BY <1>1, <2>2, ReplyEffect DEF FetchHistory, Replies, RequestType
  <2>3. QED
    BY <2>1, <2>2
<1>5. RequestType' /\ OthersStay(r)
  BY <1>1, <1>2, <1>3, <1>4 DEF RequestType, OthersStay
<1>6. CallOK(r)'
  BY <1>1, <1>2, <1>4 DEF CallOK, Holding
<1>7. QED
  BY <1>1, <1>2, <1>5, <1>6, DbStays DEF Sound

\* The message that a request inserts, and what it does to the collection.
NewMessage(r) ==
  [session_id |-> call[r].session_id, user_id |-> call[r].user_id,
   role |-> turn[r], content |-> r, created_at |-> clock]

\* Counting changes the count alone.
LEMMA CountedType ==
  ASSUME NEW doc \in ChatSession
  PROVE  /\ Counted(doc) \in ChatSession
         /\ Counted(doc).user_id = doc.user_id
         /\ Counted(doc).message_count = doc.message_count + 1
         /\ Counted(doc).fields = doc.fields
BY DEF Counted, ChatSession

\* A message is new, belongs to its session, and is counted in memory only.
LEMMA InsertEffect ==
  ASSUME TypeInv, NEW r \in Requests, InsertMessage(r)
  PROVE  /\ call[r] \in Calls /\ call[r].session_id \in Sessions
         /\ turn[r] \in {"human", "ai"} /\ call[r].op = "chat"
         /\ NewMessage(r) \in ChatMessage /\ NewMessage(r) \notin messages
         /\ messages' = messages \cup {NewMessage(r)}
         /\ clock' = clock + 1 /\ clock \in Nat
         /\ pc[r] = "insert" /\ pc'[r] = "save"
         /\ local'[r] \in ChatSession
         /\ local'[r].user_id = local[r].user_id
         /\ local'[r].message_count = local[r].message_count + 1
         /\ local'[r].fields = local[r].fields
         /\ OthersStay(r)
         /\ UNCHANGED <<stored, sessions, call, turn, reply, shown, written, purged, serial>>
<1>1. /\ RequestType /\ DbType /\ CallOK(r) /\ pc[r] = "insert"
      /\ UNCHANGED <<stored, sessions, call, turn, reply, shown, written, purged, serial>>
  BY TypeParts DEF InsertMessage
<1>2. /\ call[r] \in Calls /\ call[r].session_id \in Sessions
      /\ turn[r] \in {"human", "ai"} /\ call[r].op = "chat" /\ clock \in Nat
  BY <1>1 DEF CallOK, RequestType, DbType, Holding
<1>3. call[r].user_id \in Users
  BY <1>2, CallType
<1>4. NewMessage(r) \in ChatMessage /\ NewMessage(r).created_at = clock
  BY <1>2, <1>3 DEF NewMessage, ChatMessage
<1>5. NewMessage(r) \notin messages
  BY <1>1, <1>2, <1>4 DEF DbType
<1>6. messages' = messages \cup {NewMessage(r)} /\ clock' = clock + 1
  BY DEF InsertMessage, NewMessage
<1>7. local[r] \in ChatSession /\ local' = [local EXCEPT ![r] = Counted(local[r])]
  BY <1>1 DEF InsertMessage, RequestType
<1>8. /\ local'[r] \in ChatSession
      /\ local'[r].user_id = local[r].user_id
      /\ local'[r].message_count = local[r].message_count + 1
      /\ local'[r].fields = local[r].fields
  <2>1. local'[r] = Counted(local[r])
    BY <1>1, <1>7 DEF RequestType
  <2>2. QED
    BY <1>7, <2>1, CountedType
<1>9. pc'[r] = "save" /\ OthersStay(r)
  BY <1>1, <1>7 DEF InsertMessage, Goto, RequestType, OthersStay
<1>10. QED
  BY <1>1, <1>2, <1>4, <1>5, <1>6, <1>8, <1>9

\* It stays in its types.
LEMMA InsertMessageSound ==
  ASSUME TypeInv, NEW r \in Requests, InsertMessage(r)
  PROVE  Sound(r)
<1>1. RequestType /\ DbType /\ serial \in BOOLEAN /\ CallOK(r)
  BY TypeParts
<1>2. RequestType'
  <2>1. pc' \in [Requests -> Steps]
    BY <1>1, GotoEffect DEF InsertMessage, Steps
  <2>2. local' \in [Requests -> ChatSession]
    BY <1>1, InsertEffect DEF InsertMessage, RequestType
  <2>3. QED
    BY <1>1, <2>1, <2>2, InsertEffect DEF RequestType
<1>3. DbType'
  <2>1. IsFiniteSet(messages')
    BY <1>1, InsertEffect, FS_AddElement DEF DbType
  <2>2. messages' \subseteq ChatMessage /\ clock' \in Nat
    BY <1>1, InsertEffect DEF DbType
  <2>3. NewMessage(r).created_at = clock
    BY DEF NewMessage
  <2>4. \A m \in messages : m.created_at \in Nat /\ m.created_at < clock
    BY <1>1 DEF DbType, ChatMessage
  <2>5. \A m \in messages' : m.created_at < clock'
    BY <2>3, <2>4, InsertEffect
  <2>6. QED
    BY <1>1, <2>1, <2>2, <2>5, InsertEffect DEF DbType
<1>4. CallOK(r)'
  BY <1>1, InsertEffect DEF CallOK, Holding
<1>5. QED
  BY <1>1, <1>2, <1>3, <1>4, InsertEffect DEF Sound, OwnersStay

\* What a save does: the document is written back whole, and a turn goes on or
\* the request ends.
LEMMA SaveEffect ==
  ASSUME TypeInv, NEW r \in Requests, SaveSession(r)
  PROVE  /\ call[r] \in Calls /\ call[r].session_id \in Sessions /\ pc[r] = "save"
         /\ local[r] \in ChatSession
         /\ stored' = stored \cup {call[r].session_id}
         /\ sessions' = [sessions EXCEPT ![call[r].session_id] = local[r]]
         /\ sessions'[call[r].session_id].user_id = sessions[call[r].session_id].user_id
         /\ pc' \in [Requests -> Steps] /\ reply' \in [Requests -> Replies]
         /\ turn' \in [Requests -> {"history", "human", "ai"}]
         /\ \/ pc'[r] = "done" /\ turn' = turn
            \/ pc'[r] = "read" /\ turn[r] = "human" /\ turn'[r] = "ai" /\ call[r].op = "chat"
         /\ OthersStay(r)
         /\ UNCHANGED <<messages, clock, call, local, shown, purged, serial>>
<1>1. /\ RequestType /\ DbType /\ CallOK(r) /\ pc[r] = "save"
      /\ UNCHANGED <<messages, clock, call, local, shown, purged, serial>>
      /\ stored' = stored \cup {call[r].session_id}
      /\ sessions' = [sessions EXCEPT ![call[r].session_id] = local[r]]
  BY TypeParts DEF SaveSession
<1>2. /\ call[r] \in Calls /\ call[r].session_id \in Sessions /\ local[r] \in ChatSession
      /\ local[r].user_id = call[r].user_id
      /\ sessions[call[r].session_id].user_id = call[r].user_id
  BY <1>1 DEF CallOK, Holding, RequestType
<1>3. sessions'[call[r].session_id].user_id = sessions[call[r].session_id].user_id
  BY <1>1, <1>2 DEF DbType
<1>4. /\ pc' \in [Requests -> Steps] /\ reply' \in [Requests -> Replies]
      /\ turn' \in [Requests -> {"history", "human", "ai"}]
      /\ \/ pc'[r] = "done" /\ turn' = turn
         \/ pc'[r] = "read" /\ turn[r] = "human" /\ turn'[r] = "ai" /\ call[r].op = "chat"
      /\ \A q \in Requests \ {r} : pc'[q] = pc[q] /\ turn'[q] = turn[q]
  <2>1. AfterAdd(r)
    BY DEF SaveSession
  <2>2. "ok" \in Replies /\ "error" \in Replies /\ "read" \in Steps
    BY DEF Replies, Steps
  <2>3. CASE call[r].op = "chat" /\ turn[r] = "human"
    BY <1>1, <2>1, <2>2, <2>3, ReplyEffect, GotoEffect DEF AfterAdd, RequestType
  <2>4. CASE ~(call[r].op = "chat" /\ turn[r] = "human")
    BY <1>1, <2>1, <2>2, <2>4, ReplyEffect DEF AfterAdd, Answer, RequestType
  <2>5. QED
    BY <2>3, <2>4
<1>5. OthersStay(r)
  BY <1>1, <1>4 DEF OthersStay
<1>6. QED
  BY <1>1, <1>2, <1>3, <1>4, <1>5

\* So does a save.
LEMMA SaveSessionSound ==
  ASSUME TypeInv, NEW r \in Requests, SaveSession(r)
  PROVE  Sound(r)
<1>1. RequestType /\ DbType /\ serial \in BOOLEAN /\ CallOK(r)
  BY TypeParts
<1>2. RequestType'
  BY <1>1, SaveEffect DEF RequestType
<1>3. written' \in [Sessions -> [Fields -> Requests \cup {Original}]]
  BY <1>1, SaveEffect DEF SaveSession, DbType
<1>4. DbType'
  <2>1. sessions' \in [Sessions -> ChatSession] /\ stored' \subseteq Sessions
    BY <1>1, SaveEffect DEF DbType
  <2>2. UNCHANGED <<messages, clock, purged>>
    BY SaveEffect
  <2>3. QED
    BY <1>1, <1>3, <2>1, <2>2 DEF DbType
<1>5. OwnersStay
  BY <1>1, SaveEffect DEF OwnersStay, DbType
<1>6. CallOK(r)'
  BY <1>1, SaveEffect DEF CallOK, Holding
<1>7. QED
  BY <1>1, <1>2, <1>4, <1>5, <1>6, SaveEffect DEF Sound

\* The two halves of a deletion.
LEMMA PurgeEffect ==
  ASSUME TypeInv, NEW r \in Requests, PurgeMessages(r)
  PROVE  /\ call[r] \in Calls /\ call[r].session_id \in Sessions
         /\ call[r].op = "delete" /\ pc[r] = "purge" /\ pc'[r] = "remove"
         /\ messages' = messages \ MessagesOf(call[r].session_id)
         /\ purged' = purged \cup {call[r].session_id}
         /\ pc' \in [Requests -> Steps]
         /\ OthersStay(r)
         /\ UNCHANGED <<stored, sessions, clock, call, turn, local, reply, shown, written,
                        serial>>
<1>1. RequestType /\ CallOK(r) /\ pc[r] = "purge"
  BY TypeParts DEF PurgeMessages
<1>2. /\ pc' \in [Requests -> Steps] /\ pc'[r] = "remove"
      /\ \A q \in Requests \ {r} : pc'[q] = pc[q]
  BY <1>1, GotoEffect DEF PurgeMessages, Steps
<1>3. QED
  BY <1>1, <1>2 DEF PurgeMessages, CallOK, Holding, OthersStay

\* The first half keeps the types, ...
LEMMA PurgeMessagesSound ==
  ASSUME TypeInv, NEW r \in Requests, PurgeMessages(r)
  PROVE  Sound(r)
<1>1. RequestType /\ DbType /\ serial \in BOOLEAN /\ CallOK(r)
  BY TypeParts
<1>2. RequestType'
  BY <1>1, PurgeEffect DEF RequestType
<1>3. IsFiniteSet(messages')
  BY <1>1, PurgeEffect, FS_Subset DEF DbType
<1>4. DbType'
  BY <1>1, <1>3, PurgeEffect DEF DbType
<1>5. CallOK(r)'
  BY <1>1, PurgeEffect DEF CallOK, Holding
<1>6. QED
  BY <1>1, <1>2, <1>4, <1>5, PurgeEffect DEF Sound, OwnersStay

\* ... the second one as well, ...
LEMMA RemoveSessionSound ==
  ASSUME TypeInv, NEW r \in Requests, RemoveSession(r)
  PROVE  Sound(r)
<1>1. RequestType /\ DbType /\ serial \in BOOLEAN /\ CallOK(r) /\ pc[r] = "remove"
  BY TypeParts DEF RemoveSession
<1>2. /\ pc' \in [Requests -> Steps] /\ reply' \in [Requests -> Replies]
      /\ pc'[r] = "done" /\ \A q \in Requests \ {r} : pc'[q] = pc[q]
  BY <1>1, ReplyEffect DEF RemoveSession, Answer, Replies
<1>3. /\ UNCHANGED <<sessions, messages, clock, call, turn, local, shown, written, purged, serial>>
      /\ stored' \subseteq stored
  BY DEF RemoveSession
<1>4. RequestType' /\ OthersStay(r) /\ CallOK(r)'
  BY <1>1, <1>2, <1>3, DoneOK DEF RequestType, OthersStay
<1>5. DbType' /\ OwnersStay
  BY <1>1, <1>3 DEF DbType, OwnersStay
<1>6. QED
  BY <1>1, <1>3, <1>4, <1>5 DEF Sound

\* ... and so does a failure.
LEMMA FailSound ==
  ASSUME TypeInv, NEW r \in Requests, Fail(r)
  PROVE  Sound(r)
<1>1. RequestType /\ DbType /\ CallOK(r) /\ pc[r] # "idle"
  BY TypeParts DEF Fail, InFlight
<1>2. /\ pc' \in [Requests -> Steps] /\ reply' \in [Requests -> Replies]
      /\ pc'[r] = "done" /\ \A q \in Requests \ {r} : pc'[q] = pc[q]
  BY <1>1, ReplyEffect DEF Fail, Replies
<1>3. UNCHANGED <<call, turn, local, shown>> /\ UNCHANGED db /\ serial' = FALSE
  BY DEF Fail
<1>4. RequestType' /\ OthersStay(r) /\ CallOK(r)'
  BY <1>1, <1>2, <1>3, DoneOK DEF RequestType, OthersStay
<1>5. QED
  BY <1>1, <1>3, <1>4, DbStays DEF Sound

----------------------------------------------------------------------------
(* Type correctness *)

\* The steps of one request.
RequestStep(r) ==
  \/ Begin(r) \/ ReadSession(r) \/ Refuse(r) \/ HistoryUnavailable(r) \/ FetchHistory(r)
  \/ InsertMessage(r) \/ SaveSession(r) \/ PurgeMessages(r) \/ RemoveSession(r) \/ Fail(r)

\* A new session has nobody's messages, and nobody holds it.
LEMMA CreateSound ==
  ASSUME TypeInv, NEW s \in Sessions, NEW u \in Users, CreateSession(s, u)
  PROVE  TypeInv' /\ OwnersStay
<1>1. RequestType /\ DbType /\ serial \in BOOLEAN /\ \A r \in Requests : CallOK(r)
  BY TypeParts
<1>2. /\ UNCHANGED <<messages, clock, call, pc, turn, local, reply, shown, written, purged, serial>>
      /\ stored' = stored \cup {s} /\ sessions' = [sessions EXCEPT ![s] = NewSession(u)]
      /\ sessions[s].user_id = Nobody
  BY DEF CreateSession
<1>3. NewSession(u) \in ChatSession
  BY DEF NewSession, ChatSession
<1>4. sessions' \in [Sessions -> ChatSession] /\ stored' \subseteq Sessions
  BY <1>1, <1>2, <1>3 DEF DbType
<1>5. OwnersStay
  BY <1>1, <1>2, NobodyAssumption DEF OwnersStay, DbType
<1>6. DbType' /\ RequestType'
  BY <1>1, <1>2, <1>4 DEF DbType, RequestType
<1>7. ASSUME NEW r \in Requests
      PROVE  CallOK(r)'
  <2>1. CallOK(r) /\ (pc[r] # "idle" => call[r].user_id \in Users)
    BY <1>1, CallType DEF CallOK
  <2>2. pc[r] \in Holding => sessions'[call[r].session_id].user_id = call[r].user_id
    BY <1>5, <2>1 DEF CallOK, OwnersStay, Holding
  <2>3. QED
    BY <1>2, <2>1, <2>2 DEF CallOK
<1>8. QED
  BY <1>1, <1>2, <1>5, <1>6, <1>7 DEF TypeInv, TypeOK, RequestType, DbType

\* Every step of a request keeps what it has to.
LEMMA RequestSound ==
  ASSUME TypeInv, NEW r \in Requests, RequestStep(r)
  PROVE  Sound(r)
BY BeginSound, ReadSessionSound, RefuseSound, HistoryUnavailableSound, FetchHistorySound,
   InsertMessageSound, SaveSessionSound, PurgeMessagesSound, RemoveSessionSound, FailSound
DEF RequestStep

\* A step is that of a request, a new session, or none.
LEMMA NextIs ==
  ASSUME [Next]_vars
  PROVE  \/ \E r \in Requests : RequestStep(r)
         \/ \E s \in Sessions, u \in Users : CreateSession(s, u)
         \/ UNCHANGED vars
BY DEF Next, RequestStep

\* Where nothing changes nothing is wrong.
LEMMA StutterType ==
  ASSUME TypeInv, UNCHANGED vars
  PROVE  TypeInv' /\ OwnersStay
BY DEF vars, TypeInv, TypeOK, CallOK, OwnersStay

\* The type invariant is inductive.
LEMMA TypeInvNext ==
  ASSUME TypeInv, [Next]_vars
  PROVE  TypeInv' /\ OwnersStay
<1>1. ASSUME NEW r \in Requests, RequestStep(r)
      PROVE  TypeInv' /\ OwnersStay
  <2>1. Sound(r)
    BY <1>1, RequestSound
  <2>2. RequestType /\ \A q \in Requests : CallOK(q)
    BY TypeParts
  <2>3. \A q \in Requests : CallOK(q)'
    BY <2>1, <2>2, OthersOK DEF Sound
  <2>4. QED
    BY <2>1, <2>3, TypeParts DEF Sound, TypeInv, TypeOK, RequestType, DbType
<1>2. QED
  BY <1>1, NextIs, CreateSound, StutterType

\* It holds at first.
LEMMA TypeInvInit ==
  ASSUME Init
  PROVE  TypeInv
<1>1. NewSession(Nobody) \in ChatSession
  BY DEF NewSession, ChatSession
<1>2. IsFiniteSet({})
  BY FS_EmptySet
<1>3. TypeOK
  BY <1>1 DEF Init, TypeOK, Steps, Replies
<1>4. \A r \in Requests : CallOK(r)
  BY DEF Init, CallOK, Holding
<1>5. QED
  BY <1>2, <1>3, <1>4 DEF Init, TypeInv

\* And so at all times.
LEMMA TypeInvAlways == Spec => []TypeInv
BY TypeInvInit, TypeInvNext, PTL DEF Spec

\* The variables keep their types: TypeOK, which the requests keep by holding
\* only sessions they have read (CallOK).
THEOREM TypeCorrect == Spec => []TypeOK
<1>1. TypeInv => TypeOK
  BY DEF TypeInv
<1>2. QED
  BY <1>1, TypeInvAlways, PTL

----------------------------------------------------------------------------
(* OwnerIsolation *)

\* What a request is shown are messages of its session, and nothing else changes
\* that the properties speak of.
LEMMA FetchEffect ==
  ASSUME TypeInv, NEW r \in Requests, FetchHistory(r)
  PROVE  /\ call[r] \in Calls /\ pc[r] = "fetch"
         /\ UNCHANGED <<messages, purged, call>>
         /\ shown'[r] = Page(MessagesOf(call[r].session_id), call[r].limit)
         /\ shown'[r] \subseteq MessagesOf(call[r].session_id)
         /\ \A q \in Requests \ {r} : shown'[q] = shown[q]
<1>1. RequestType /\ CallOK(r) /\ pc[r] = "fetch" /\ UNCHANGED <<messages, purged, call>>
  BY TypeParts DEF FetchHistory, db
<1>2. shown' = [shown EXCEPT ![r] = Page(MessagesOf(call[r].session_id), call[r].limit)]
  BY DEF FetchHistory
<1>3. QED
  BY <1>1, <1>2, PageIsOfSession DEF RequestType, CallOK

\* Messages come by an insert and go by a purge; only a fetch shows them.
LEMMA MessagesNext ==
  ASSUME NEW r \in Requests, RequestStep(r)
  PROVE  \/ InsertMessage(r)
         \/ FetchHistory(r)
         \/ PurgeMessages(r) /\ shown' = shown /\ messages' \subseteq messages
         \/ UNCHANGED <<messages, shown, purged>>
BY DEF RequestStep, Begin, ReadSession, Refuse, HistoryUnavailable, SaveSession, PurgeMessages,
       RemoveSession, Fail, db

\* What is in the collection or shown stays with the owner of its session.
LEMMA OwnerNext ==
  ASSUME OwnerInv, [Next]_vars
  PROVE  OwnerInv'
<1>1. /\ TypeInv /\ TypeInv' /\ OwnersStay
      /\ \A m \in messages : m.user_id = sessions[m.session_id].user_id
      /\ \A r \in Requests : \A m \in shown[r] : m.user_id = call[r].user_id
  BY TypeInvNext DEF OwnerInv, OwnerIsolation
<1>2. \A m \in messages : m.user_id \in Users /\ m.session_id \in Sessions
  BY <1>1, TypeParts DEF DbType, ChatMessage
<1>3. \A m \in messages : m.user_id = sessions'[m.session_id].user_id
  BY <1>1, <1>2 DEF OwnersStay
<1>4. ASSUME NEW r \in Requests, RequestStep(r)
      PROVE  OwnerIsolation'
  <2>1. OthersStay(r)
    BY <1>1, <1>4, RequestSound DEF Sound
  <2>2. \A q \in Requests \ {r} : call'[q] = call[q]
    BY <2>1 DEF OthersStay
  <2>3. call'[r] = call[r] \/ shown[r] = {}
    <3>1. CASE Begin(r)
      BY <1>1, <3>1, TypeParts DEF Begin, CallOK
    <3>2. CASE ~Begin(r)
      BY <1>4, <3>2
      DEF RequestStep, ReadSession, Refuse, HistoryUnavailable, FetchHistory, InsertMessage,
          SaveSession, PurgeMessages, RemoveSession, Fail
    <3>3. QED
      BY <3>1, <3>2
  <2>4. shown' = shown => \A q \in Requests : \A m \in shown'[q] : m.user_id = call'[q].user_id
    BY <1>1, <2>2, <2>3
  <2>5. CASE InsertMessage(r)
    <3>1. NewMessage(r).user_id = call[r].user_id /\ NewMessage(r).session_id = call[r].session_id
      BY DEF NewMessage
    <3>2. sessions[call[r].session_id].user_id = call[r].user_id
      BY <1>1, <2>5, InsertEffect, TypeParts DEF CallOK, Holding
    <3>3. messages' = messages \cup {NewMessage(r)} /\ sessions' = sessions /\ shown' = shown
      BY <1>1, <2>5, InsertEffect
    <3>4. QED
      BY <1>3, <2>4, <3>1, <3>2, <3>3 DEF OwnerIsolation
  <2>6. CASE FetchHistory(r)
    <3>1. sessions[call[r].session_id].user_id = call[r].user_id
      BY <1>1, <2>6, TypeParts DEF FetchHistory, CallOK, Holding
    <3>2. \A m \in shown'[r] : m.user_id = call[r].user_id
      BY <1>1, <2>6, <3>1, FetchEffect DEF MessagesOf
    <3>3. QED
      BY <1>1, <1>3, <2>6, <3>2, FetchEffect DEF OwnerIsolation
  <2>7. CASE messages' \subseteq messages /\ shown' = shown
    BY <1>3, <2>4, <2>7 DEF OwnerIsolation
  <2>8. QED
    BY <1>3, <1>4, <2>4, <2>5, <2>6, <2>7, MessagesNext
<1>5. ASSUME NEW s \in Sessions, NEW u \in Users, CreateSession(s, u)
      PROVE  OwnerIsolation'
  BY <1>1, <1>3, <1>5 DEF CreateSession, OwnerIsolation
<1>6. CASE UNCHANGED vars
  BY <1>1, <1>6 DEF vars, OwnerInv, OwnerIsolation
<1>7. QED
  BY <1>1, <1>4, <1>5, <1>6, NextIs DEF OwnerInv

\* Nobody is given another user's messages, and a session keeps its owner, even
\* if it is written back after its deletion.
THEOREM OwnersAreApart == Spec => []OwnerIsolation
<1>1. Init => OwnerInv
  BY TypeInvInit DEF Init, OwnerInv, OwnerIsolation
<1>2. OwnerInv => OwnerIsolation
  BY DEF OwnerInv
<1>3. QED
  BY <1>1, <1>2, OwnerNext, PTL DEF Spec

----------------------------------------------------------------------------
(* AnswerHasItsQuestion *)

\* A page that has a message has every earlier one of the session.
LEMMA PageIsInitial ==
  ASSUME NEW ms, IsFiniteSet(ms), \A m \in ms : m.created_at \in Nat,
         NEW limit \in Limits \cup {NoLimit},
         NEW m \in Page(ms, limit), NEW q \in ms, q.created_at < m.created_at
  PROVE  q \in Page(ms, limit)
<1>1. CASE limit = NoLimit
  BY <1>1 DEF Page
<1>2. CASE limit # NoLimit
  <2> DEFINE Before(x) == {n \in ms : n.created_at < x.created_at}
  <2>1. limit \in Nat
    BY <1>2, LimitsAssumption
  <2>2. m \in ms /\ Cardinality(Before(m)) < limit
    BY <1>2 DEF Page
  <2>3. Before(q) \subseteq Before(m)
    BY <2>2
  <2>4. IsFiniteSet(Before(m))
    BY FS_Subset, Before(m) \subseteq ms
  <2>5. /\ Cardinality(Before(q)) <= Cardinality(Before(m))
        /\ Cardinality(Before(q)) \in Nat /\ Cardinality(Before(m)) \in Nat
    BY <2>3, <2>4, FS_Subset, FS_CardinalityType
  <2>6. Cardinality(Before(q)) < limit
    BY <2>1, <2>2, <2>5
  <2>7. QED
    BY <1>2, <2>6 DEF Page
<1>3. QED
  BY <1>1, <1>2

\* A purge alone takes messages away, and says so.
LEMMA MessagesStay ==
  ASSUME TypeInv, NEW r \in Requests, RequestStep(r)
  PROVE  /\ purged \subseteq purged'
         /\ \A m \in messages : m.session_id \notin purged' => m \in messages'
<1>1. CASE InsertMessage(r)
  BY <1>1, InsertEffect
<1>2. CASE PurgeMessages(r)
  BY <1>2, PurgeEffect DEF MessagesOf
<1>3. CASE FetchHistory(r)
  BY <1>3, FetchEffect
<1>4. CASE ~PurgeMessages(r) /\ UNCHANGED <<messages, shown, purged>>
  BY <1>4
<1>5. QED
  BY <1>1, <1>2, <1>3, <1>4, MessagesNext

\* How far a turn has come after a step of its request.
LEMMA TurnNext ==
  ASSUME TypeInv, NEW r \in Requests, RequestStep(r)
  PROVE  \/ InsertMessage(r)
         \/ SaveSession(r)
         \/ turn'[r] = turn[r] /\ call'[r] = call[r] /\ pc'[r] # "save"
         \/ turn'[r] = "human" /\ pc'[r] = "read"
         \/ turn'[r] = "history"
<1>1. RequestType /\ CallOK(r)
  BY TypeParts
<1>2. CASE Begin(r)
  BY <1>1, <1>2 DEF Begin, CallOK
<1>3. CASE ReadSession(r)
  <2>1. pc[r] = "read" /\ pc'[r] = AfterRead(r) /\ turn' = turn /\ call' = call
    BY <1>1, <1>3 DEF ReadSession, Goto, RequestType
  <2>2. AfterRead(r) = "save" => call[r].op # "chat"
    BY <1>1, <2>1, AfterReadType DEF CallOK, RequestType
  <2>3. QED
    BY <1>1, <2>1, <2>2 DEF CallOK
<1>4. CASE Pipeline(r) /\ call' = call
  BY <1>1, <1>4, PipelineEffect
<1>5. CASE turn' = turn /\ call' = call /\ pc'[r] \in {"done", "remove"}
  BY <1>5
<1>6. ASSUME \/ Refuse(r) \/ PurgeMessages(r) \/ RemoveSession(r) \/ Fail(r)
             \/ FetchHistory(r) /\ call[r].op # "chat"
      PROVE  turn' = turn /\ call' = call /\ pc'[r] \in {"done", "remove"}
  BY <1>1, <1>6
  DEF Refuse, PurgeMessages, RemoveSession, Fail, FetchHistory, Reply, Answer, Goto, RequestType
<1>7. ASSUME \/ HistoryUnavailable(r)
             \/ FetchHistory(r) /\ call[r].op = "chat"
      PROVE  Pipeline(r) /\ call' = call
  BY <1>7 DEF HistoryUnavailable, FetchHistory
<1>8. QED
  BY <1>2, <1>3, <1>4, <1>5, <1>6, <1>7 DEF RequestStep

\* A question that was asked stays, but for a purge.
LEMMA AskedStays ==
  ASSUME TypeInv, NEW r \in Requests, RequestStep(r),
         NEW q \in Requests, Asked(q), call'[q] = call[q]
  PROVE  Asked(q)'
BY MessagesStay DEF Asked

\* Answers keep their questions through a step of a request.
LEMMA AnsweredNext ==
  ASSUME AnswerInv, NEW r \in Requests, RequestStep(r)
  PROVE  Answered(messages)' /\ \A q \in Requests : Answered(shown[q])'
<1>1. TypeInv /\ Answered(messages) /\ \A q \in Requests : Answered(shown[q])
  BY DEF AnswerInv
<1>2. \A m \in messages : m.created_at \in Nat /\ m.created_at < clock
  BY <1>1, TypeParts DEF DbType, ChatMessage
<1>3. purged \subseteq purged' /\ \A m \in messages : m.session_id \notin purged' => m \in messages'
  BY <1>1, MessagesStay
<1>4. \A q \in Requests : shown'[q] = shown[q] => Answered(shown[q])'
  BY <1>1, <1>3 DEF Answered
<1>5. messages' \subseteq messages => Answered(messages)'
  BY <1>1, <1>3 DEF Answered
<1>6. CASE InsertMessage(r)
  <2>1. /\ NewMessage(r).session_id = call[r].session_id /\ NewMessage(r).content = r
        /\ NewMessage(r).role = turn[r] /\ NewMessage(r).created_at = clock
    BY DEF NewMessage
  <2>2. messages' = messages \cup {NewMessage(r)} /\ UNCHANGED <<purged, shown>>
    BY <1>1, <1>6, InsertEffect
  <2>3. turn[r] = "ai" => Asked(r)
    BY DEF AnswerInv
  <2>4. Answered(messages)'
    <3> SUFFICES ASSUME NEW m \in messages', m.role = "ai", m.session_id \notin purged
                 PROVE  \E q \in messages' : /\ q.session_id = m.session_id
                                             /\ q.content = m.content
                                             /\ q.role = "human"
                                             /\ q.created_at < m.created_at
      BY <2>2 DEF Answered
    <3>1. CASE m \in messages
      BY <1>1, <2>2, <3>1 DEF Answered
    <3>2. CASE m = NewMessage(r)
      BY <1>2, <2>1, <2>2, <2>3, <3>2 DEF Asked
    <3>3. QED
      BY <2>2, <3>1, <3>2
  <2>5. QED
    BY <1>4, <2>2, <2>4
<1>7. CASE FetchHistory(r)
  <2> DEFINE s == call[r].session_id
             page == Page(MessagesOf(s), call[r].limit)
  <2>1. /\ shown'[r] = page /\ page \subseteq MessagesOf(s) /\ UNCHANGED <<messages, purged>>
        /\ \A q \in Requests \ {r} : shown'[q] = shown[q]
        /\ call[r] \in Calls
    BY <1>1, <1>7, FetchEffect
  <2>2. IsFiniteSet(MessagesOf(s)) /\ MessagesOf(s) \subseteq messages
    BY <1>1, TypeParts, FS_Subset DEF DbType, MessagesOf
  <2>3. call[r].limit \in Limits \cup {NoLimit}
    BY <2>1, CallType
  <2>4. ASSUME NEW m \in page, m.role = "ai", m.session_id \notin purged
        PROVE  \E q \in page : /\ q.session_id = m.session_id
                               /\ q.content = m.content
                               /\ q.role = "human"
                               /\ q.created_at < m.created_at
    <3>1. m \in messages /\ m.session_id = s
      BY <2>1 DEF MessagesOf
    <3>2. PICK q \in messages : /\ q.session_id = m.session_id
                                /\ q.content = m.content
                                /\ q.role = "human"
                                /\ q.created_at < m.created_at
      BY <1>1, <2>4, <3>1 DEF Answered
    <3>3. q \in MessagesOf(s)
      BY <3>1, <3>2 DEF MessagesOf
    <3>4. \A n \in MessagesOf(s) : n.created_at \in Nat
      BY <1>2, <2>2
    <3>5. q \in page
      BY <2>2, <2>3, <3>2, <3>3, <3>4, PageIsInitial
    <3>6. QED
      BY <3>2, <3>5
  <2>5. Answered(shown[r])'
    BY <2>1, <2>4 DEF Answered
  <2>6. QED
    BY <1>4, <1>5, <2>1, <2>5
<1>8. CASE shown' = shown /\ messages' \subseteq messages
  BY <1>4, <1>5, <1>8
<1>9. QED
  BY <1>6, <1>7, <1>8, MessagesNext

\* And so does the invariant.
LEMMA AnswerNext ==
  ASSUME AnswerInv, [Next]_vars
  PROVE  AnswerInv'
<1>1. TypeInv /\ TypeInv'
  BY TypeInvNext DEF AnswerInv
<1>2. ASSUME NEW r \in Requests, RequestStep(r)
      PROVE  AnswerInv'
  <2>1. OthersStay(r)
    BY <1>1, <1>2, RequestSound DEF Sound
  <2>2. ASSUME NEW q \in Requests \ {r}
        PROVE  (turn'[q] = "ai" \/ (turn'[q] = "human" /\ pc'[q] = "save")) => Asked(q)'
    BY <1>1, <1>2, <2>1, AskedStays DEF AnswerInv, OthersStay
  <2>3. (turn'[r] = "ai" \/ (turn'[r] = "human" /\ pc'[r] = "save")) => Asked(r)'
    <3>1. CASE InsertMessage(r)
      <4>1. turn' = turn /\ call' = call /\ messages' = messages \cup {NewMessage(r)}
        BY <1>1, <3>1, InsertEffect
      <4>2. CASE turn[r] = "human"
        <5>1. /\ NewMessage(r).session_id = call[r].session_id /\ NewMessage(r).content = r
              /\ NewMessage(r).role = "human"
          BY <4>2 DEF NewMessage
        <5>2. QED
          BY <4>1, <5>1 DEF Asked
      <4>3. CASE turn[r] = "ai"
        BY <1>1, <1>2, <4>1, <4>3, AskedStays DEF AnswerInv
      <4>4. QED
        BY <4>1, <4>2, <4>3
    <3>2. CASE SaveSession(r)
      BY <1>1, <1>2, <3>2, SaveEffect, AskedStays DEF AnswerInv
    <3>3. CASE turn'[r] = turn[r] /\ call'[r] = call[r] /\ pc'[r] # "save"
      BY <1>1, <1>2, <3>3, AskedStays DEF AnswerInv
    <3>4. CASE turn'[r] = "human" /\ pc'[r] = "read"
      BY <3>4
    <3>5. CASE turn'[r] = "history"
      BY <3>5
    <3>6. QED
      BY <1>1, <1>2, <3>1, <3>2, <3>3, <3>4, <3>5, TurnNext
  <2>4. QED
    BY <1>1, <1>2, <2>2, <2>3, AnsweredNext DEF AnswerInv
<1>3. CASE UNCHANGED <<messages, purged, shown, turn, pc, call>>
  BY <1>1, <1>3 DEF AnswerInv, Answered, Asked
<1>4. (\E s \in Sessions, u \in Users : CreateSession(s, u)) \/ UNCHANGED vars
      => UNCHANGED <<messages, purged, shown, turn, pc, call>>
  BY DEF CreateSession, vars
<1>5. QED
  BY <1>2, <1>3, <1>4, NextIs

\* An answer is stored, and shown, only with its question, but for sessions that
\* were purged in between: a turn that stores its answer has stored its
\* question, and a page that shows a message shows what came before it.
THEOREM AnswersHaveQuestions == Spec => []AnswerHasItsQuestion
<1>1. Init => AnswerInv
  BY TypeInvInit DEF Init, AnswerInv, Answered
<1>2. AnswerInv => AnswerHasItsQuestion
  BY DEF AnswerInv, Answered, AnswerHasItsQuestion
<1>3. QED
  BY <1>1, <1>2, AnswerNext, PTL DEF Spec

----------------------------------------------------------------------------
(* CountNeverOverstates *)

MessageCount(s) == Cardinality(MessagesOf(s))

\* The messages of a session are finitely many.
LEMMA MessagesFinite ==
  ASSUME TypeInv, NEW s
  PROVE  IsFiniteSet(MessagesOf(s)) /\ MessageCount(s) \in Nat
BY TypeParts, FS_Subset, FS_CardinalityType DEF DbType, MessagesOf, MessageCount

\* How many there are changes by one for an insert, and by a purge.
LEMMA CountEffect ==
  ASSUME TypeInv, NEW r \in Requests, RequestStep(r), NEW s \in Sessions,
         ~(PurgeMessages(r) /\ call[r].session_id = s)
  PROVE  /\ MessageCount(s) \in Nat /\ MessageCount(s)' \in Nat
         /\ IF InsertMessage(r) /\ call[r].session_id = s
            THEN MessageCount(s)' = MessageCount(s) + 1
            ELSE MessageCount(s)' = MessageCount(s)
<1>1. IsFiniteSet(MessagesOf(s)) /\ MessageCount(s) \in Nat
  BY MessagesFinite
<1>2. CASE InsertMessage(r)
  <2>1. messages' = messages \cup {NewMessage(r)} /\ NewMessage(r) \notin messages
    BY <1>2, InsertEffect
  <2>2. NewMessage(r).session_id = call[r].session_id
    BY DEF NewMessage
  <2>3. CASE call[r].session_id = s
    <3>1. MessagesOf(s)' = MessagesOf(s) \cup {NewMessage(r)} /\ NewMessage(r) \notin MessagesOf(s)
      BY <2>1, <2>2, <2>3 DEF MessagesOf
    <3>2. Cardinality(MessagesOf(s)') = Cardinality(MessagesOf(s)) + 1
      BY <1>1, <3>1, FS_AddElement
    <3>3. QED
      BY <1>1, <1>2, <2>3, <3>2 DEF MessageCount
  <2>4. CASE call[r].session_id # s
    <3>1. MessagesOf(s)' = MessagesOf(s)
      BY <2>1, <2>2, <2>4 DEF MessagesOf
    <3>2. QED
      BY <1>1, <2>4, <3>1 DEF MessageCount
  <2>5. QED
    BY <2>3, <2>4
<1>3. CASE ~InsertMessage(r)
  <2>1. MessagesOf(s)' = MessagesOf(s)
    <3>1. CASE PurgeMessages(r)
      BY <3>1, PurgeEffect DEF MessagesOf
    <3>2. CASE ~PurgeMessages(r)
      BY <1>3, <3>2, MessagesNext, FetchEffect DEF MessagesOf
    <3>3. QED
      BY <3>1, <3>2
  <2>2. QED
    BY <1>1, <1>3, <2>1 DEF MessageCount
<1>4. QED
  BY <1>2, <1>3

\* The other steps of a request leave it without a session.
LEMMA LeaveNext ==
  ASSUME TypeInv, NEW r \in Requests,
         \/ Begin(r) \/ Refuse(r) \/ HistoryUnavailable(r) \/ FetchHistory(r)
         \/ SaveSession(r) \/ RemoveSession(r) \/ Fail(r)
  PROVE  pc'[r] \notin Holding
<1>1. RequestType
  BY TypeParts
<1>2. Pipeline(r) => pc'[r] \notin Holding
  BY <1>1, PipelineEffect DEF Holding
<1>3. \A answer : Reply(r, answer) => pc'[r] \notin Holding
  BY <1>1 DEF Reply, Goto, RequestType, Holding
<1>4. SaveSession(r) => pc'[r] \notin Holding
  BY SaveEffect DEF Holding
<1>5. Begin(r) => pc'[r] \notin Holding
  BY <1>1 DEF Begin, Goto, RequestType, Holding
<1>6. QED
  BY <1>2, <1>3, <1>4, <1>5
  DEF Refuse, HistoryUnavailable, FetchHistory, RemoveSession, Fail, Answer

\* Where a request holds a session it has read it, or inserted or purged
\* messages, in the step.
LEMMA HoldingNext ==
  ASSUME TypeInv, NEW r \in Requests, RequestStep(r)
  PROVE  \/ ReadSession(r) \/ InsertMessage(r) \/ PurgeMessages(r)
         \/ pc'[r] \notin Holding
BY LeaveNext DEF RequestStep

\* What is read is the count in the collection.
LEMMA ReadEffect ==
  ASSUME TypeInv, NEW r \in Requests, ReadSession(r)
  PROVE  /\ call[r] \in Calls /\ call[r].session_id \in stored
         /\ stored \subseteq Sessions
         /\ sessions[call[r].session_id] \in ChatSession
         /\ local'[r] = Edited(r, sessions[call[r].session_id])
         /\ local'[r].message_count = sessions[call[r].session_id].message_count
         /\ pc[r] = "read" /\ pc'[r] = AfterRead(r)
         /\ OthersStay(r)
         /\ UNCHANGED <<call, turn, reply, shown, serial>> /\ UNCHANGED db
<1>1. RequestType /\ DbType /\ CallOK(r) /\ pc[r] = "read" /\ call[r].session_id \in stored
  BY TypeParts DEF ReadSession, Owned
<1>2. local'[r] = Edited(r, sessions[call[r].session_id]) /\ pc'[r] = AfterRead(r)
  BY <1>1 DEF ReadSession, Goto, RequestType
<1>3. sessions[call[r].session_id] \in ChatSession
  BY <1>1 DEF DbType
<1>4. OthersStay(r)
  BY ReadSessionSound DEF Sound
<1>5. QED
  BY <1>1, <1>2, <1>3, <1>4, EditedType DEF ReadSession, CallOK, DbType

\* No count is too high after a step of a request either.
LEMMA CountRequestNext ==
  ASSUME CountInv, NEW r \in Requests, RequestStep(r)
  PROVE  CountInv'
<1>1. TypeInv /\ TypeInv' /\ Sound(r) /\ OthersStay(r) /\ RequestType /\ DbType
  BY TypeInvNext, RequestSound, TypeParts DEF CountInv, Sound, Next, RequestStep
<1>2. \A q \in Requests : pc'[q] = "remove" => call'[q].session_id \in purged'
  <2>1. \A q \in Requests \ {r} : pc'[q] = "remove" => call'[q].session_id \in purged'
    BY <1>1, MessagesStay DEF CountInv, OthersStay
  <2>2. CASE PurgeMessages(r)
    BY <1>1, <2>1, <2>2, PurgeEffect
  <2>3. CASE ~PurgeMessages(r)
    <3>1. pc'[r] # "remove"
      BY <1>1, <2>3, HoldingNext, ReadEffect, InsertEffect, AfterReadType
      DEF Holding, RequestType, CallOK, TypeInv
    <3>2. QED
      BY <2>1, <3>1
  <2>4. QED
    BY <2>2, <2>3
<1>3. ASSUME NEW s \in Sessions \ purged'
      PROVE  /\ sessions'[s].message_count <= MessageCount(s)'
             /\ \A q \in Requests :
                  pc'[q] \in Holding /\ call'[q].session_id = s =>
                    local'[q].message_count <= MessageCount(s)'
  <2>1. s \in Sessions \ purged /\ ~(PurgeMessages(r) /\ call[r].session_id = s)
    BY <1>1, MessagesStay, PurgeEffect
  <2>2. /\ MessageCount(s) \in Nat /\ MessageCount(s)' \in Nat
        /\ IF InsertMessage(r) /\ call[r].session_id = s
           THEN MessageCount(s)' = MessageCount(s) + 1
           ELSE MessageCount(s)' = MessageCount(s)
    BY <1>1, <2>1, CountEffect
  <2>3. /\ sessions[s].message_count <= MessageCount(s)
        /\ \A q \in Requests :
             pc[q] \in Holding /\ call[q].session_id = s =>
               local[q].message_count <= MessageCount(s)
    BY <2>1 DEF CountInv, MessageCount
  <2>4. sessions[s].message_count \in Nat /\ \A q \in Requests : local[q].message_count \in Nat
    BY <1>1, <2>1 DEF DbType, RequestType, ChatSession
  <2>5. sessions'[s].message_count <= MessageCount(s)'
    <3>1. CASE SaveSession(r) /\ call[r].session_id = s
      <4>1. sessions'[s] = local[r] /\ pc[r] = "save"
        BY <1>1, <2>1, <3>1, SaveEffect DEF DbType
      <4>2. QED
        BY <2>2, <2>3, <2>4, <3>1, <4>1 DEF Holding
    <3>2. CASE ~(SaveSession(r) /\ call[r].session_id = s)
      <4>1. sessions'[s] = sessions[s]
        BY <1>1, <3>2, SaveEffect
        DEF DbType, RequestStep, Begin, ReadSession, Refuse, HistoryUnavailable, FetchHistory,
            InsertMessage, SaveSession, PurgeMessages, RemoveSession, Fail, db
      <4>2. QED
        BY <2>2, <2>3, <2>4, <4>1
    <3>3. QED
      BY <3>1, <3>2
  <2>6. ASSUME NEW q \in Requests \ {r}, pc'[q] \in Holding, call'[q].session_id = s
        PROVE  local'[q].message_count <= MessageCount(s)'
    BY <1>1, <2>2, <2>3, <2>4, <2>6 DEF OthersStay
  <2>7. ASSUME pc'[r] \in Holding, call'[r].session_id = s
        PROVE  local'[r].message_count <= MessageCount(s)'
    <3>1. CASE ReadSession(r)
      BY <1>1, <2>2, <2>3, <2>4, <2>7, <3>1, ReadEffect
    <3>2. CASE InsertMessage(r)
      <4>1. /\ call' = call /\ pc[r] = "insert"
            /\ local'[r].message_count = local[r].message_count + 1
        BY <1>1, <3>2, InsertEffect
      <4>2. local[r].message_count <= MessageCount(s)
        BY <2>3, <2>7, <4>1 DEF Holding
      <4>3. QED
        BY <2>2, <2>4, <2>7, <3>2, <4>1, <4>2
    <3>3. CASE PurgeMessages(r)
      BY <1>1, <2>1, <2>7, <3>3, PurgeEffect
    <3>4. QED
      BY <1>1, <2>7, <3>1, <3>2, <3>3, HoldingNext
  <2>8. QED
    BY <2>5, <2>6, <2>7
<1>4. QED
  BY <1>1, <1>2, <1>3 DEF CountInv, MessageCount

\* A new session counts nothing.
LEMMA CountNext ==
  ASSUME CountInv, [Next]_vars
  PROVE  CountInv'
<1>1. TypeInv /\ TypeInv' /\ DbType
  BY TypeInvNext, TypeParts DEF CountInv
<1>2. ASSUME NEW s \in Sessions, NEW u \in Users, CreateSession(s, u)
      PROVE  CountInv'
  <2>1. /\ UNCHANGED <<messages, purged, pc, call, local>>
        /\ sessions' = [sessions EXCEPT ![s] = NewSession(u)]
    BY <1>2 DEF CreateSession
  <2>2. NewSession(u).message_count = 0
    BY DEF NewSession
  <2>3. \A x \in Sessions : MessagesOf(x)' = MessagesOf(x) /\ Cardinality(MessagesOf(x)) \in Nat
    BY <1>1, <2>1, MessagesFinite DEF MessagesOf, MessageCount
  <2>4. \A x \in Sessions \ purged : sessions'[x].message_count <= Cardinality(MessagesOf(x)')
    BY <1>1, <2>1, <2>2, <2>3 DEF CountInv, DbType
  <2>5. QED
    BY <1>1, <2>1, <2>3, <2>4 DEF CountInv
<1>3. CASE UNCHANGED vars
  BY <1>1, <1>3 DEF CountInv, vars, MessagesOf
<1>4. QED
  BY <1>2, <1>3, CountRequestNext, NextIs

\* A message is counted in memory after it was inserted and written back later,
\* so that no interleaving and no failure makes the count too high.
THEOREM CountsAreLowerBounds == Spec => []CountNeverOverstates
<1>1. Init => CountInv
  <2> SUFFICES ASSUME Init PROVE CountInv
    OBVIOUS
  <2>1. TypeInv
    BY TypeInvInit
  <2>2. \A s \in Sessions : sessions[s].message_count = 0 /\ Cardinality(MessagesOf(s)) \in Nat
    BY <2>1, MessagesFinite DEF Init, NewSession, MessageCount
  <2>3. \A r \in Requests : pc[r] = "idle"
    BY DEF Init
  <2>4. QED
    BY <2>1, <2>2, <2>3 DEF CountInv, Holding
<1>2. CountInv => CountNeverOverstates
  BY TypeParts DEF CountInv, CountNeverOverstates, DbType
<1>3. QED
  BY <1>1, <1>2, CountNext, PTL DEF Spec

----------------------------------------------------------------------------
(* CountIsExact and LastWriteStands: what sequential use keeps *)

\* The fields that a request writes, on top of what was written before.
Rewritten(r) ==
  [f \in Fields |-> IF f \in call[r].fields THEN r ELSE written[call[r].session_id][f]]

\* Requests come one after the other.
OneAtATime == \A r, q \in InFlight : r = q

\* Nothing was written to a session that was not created.
NotWritten ==
  \A s \in Sessions :
    sessions[s].user_id = Nobody => written[s] = [f \in Fields |-> Original]

\* Messages belong to stored sessions, whose fields are what was written last.
StoredStands ==
  /\ \A m \in messages : m.session_id \in stored
  /\ \A s \in stored : sessions[s].fields = written[s]

\* The count of a session is exact but between the two writes of a request.
ExactBetween ==
  \A s \in stored :
    (\A r \in Requests : pc[r] \in {"save", "remove"} => call[r].session_id # s)
      => sessions[s].message_count = MessageCount(s)

\* What the one request holds is stored and up to date.
HeldIsLatest ==
  \A r \in Requests :
    LET s == call[r].session_id IN
    /\ pc[r] \in Holding => s \in stored
    /\ pc[r] \in {"insert", "save"} =>
         local[r].message_count = MessageCount(s) /\ local[r].fields = Rewritten(r)
    /\ pc[r] = "remove" => MessagesOf(s) = {}

SerialParts == OneAtATime /\ NotWritten /\ StoredStands /\ ExactBetween /\ HeldIsLatest

SerialInv == OwnerInv /\ (serial => SerialParts)

\* A request that takes a step is the only one, and was before.
LEMMA Alone ==
  ASSUME TypeInv, serial => OneAtATime, NEW r \in Requests, RequestStep(r), serial'
  PROVE  /\ serial /\ OneAtATime'
         /\ \A q \in Requests \ {r} :
              pc'[q] = pc[q] /\ call'[q] = call[q] /\ pc[q] \in {"idle", "done"}
<1>1. OthersStay(r) /\ RequestType
  BY RequestSound, TypeParts DEF Sound
<1>2. CASE Begin(r)
  <2>1. serial /\ InFlight = {}
    BY <1>2 DEF Begin
  <2>2. \A q \in Requests : pc[q] \in {"idle", "done"}
    BY <2>1 DEF InFlight
  <2>3. QED
    BY <1>1, <2>1, <2>2 DEF OneAtATime, InFlight, OthersStay
<1>3. CASE ~Begin(r)
  <2>1. serial /\ r \in InFlight
    BY <1>3 DEF RequestStep, ReadSession, Refuse, HistoryUnavailable, FetchHistory,
      InsertMessage, SaveSession, PurgeMessages, RemoveSession, Fail, InFlight
  <2>2. \A q \in Requests \ {r} : pc[q] \in {"idle", "done"}
    BY <2>1 DEF OneAtATime, InFlight
  <2>3. QED
    BY <1>1, <2>1, <2>2 DEF OneAtATime, InFlight, OthersStay
<1>4. QED
  BY <1>2, <1>3

\* A step that neither touches the database nor leaves a session held.
LEMMA FreeSerial ==
  ASSUME TypeInv, SerialParts, NEW r \in Requests, OneAtATime',
         \A q \in Requests \ {r} : pc'[q] = pc[q] /\ pc[q] \in {"idle", "done"},
         UNCHANGED db, pc[r] \notin {"save", "remove"}, pc'[r] \notin Holding
  PROVE  SerialParts'
<1>1. \A s : MessagesOf(s)' = MessagesOf(s) /\ MessageCount(s)' = MessageCount(s)
  BY DEF db, MessagesOf, MessageCount
<1>2. \A q \in Requests : pc[q] \notin {"save", "remove"} /\ pc'[q] \notin Holding
  BY DEF Holding
<1>3. NotWritten' /\ StoredStands'
  BY DEF db, SerialParts, NotWritten, StoredStands
<1>4. ExactBetween'
  BY <1>1, <1>2 DEF db, SerialParts, ExactBetween
<1>5. HeldIsLatest'
  BY <1>2 DEF HeldIsLatest, Holding
<1>6. QED
  BY <1>3, <1>4, <1>5 DEF SerialParts

\* A session that is read is the latest.
LEMMA ReadSerial ==
  ASSUME TypeInv, SerialParts, NEW r \in Requests, ReadSession(r), OneAtATime',
         \A q \in Requests \ {r} : pc'[q] = pc[q] /\ pc[q] \in {"idle", "done"}
  PROVE  SerialParts'
<1> DEFINE s == call[r].session_id
<1>1. /\ s \in stored /\ s \in Sessions /\ sessions[s] \in ChatSession
      /\ local'[r] = Edited(r, sessions[s])
      /\ local'[r].message_count = sessions[s].message_count
      /\ pc[r] = "read" /\ pc'[r] = AfterRead(r)
      /\ UNCHANGED call /\ UNCHANGED db
  BY ReadEffect
<1>2. \A x : MessagesOf(x)' = MessagesOf(x) /\ MessageCount(x)' = MessageCount(x)
  BY <1>1 DEF db, MessagesOf, MessageCount
<1>3. \A q \in Requests : pc[q] \notin {"save", "remove"}
  BY <1>1
<1>4. NotWritten' /\ StoredStands'
  BY <1>1 DEF db, SerialParts, NotWritten, StoredStands
<1>5. \A x \in stored : sessions[x].message_count = MessageCount(x)
  BY <1>3 DEF SerialParts, ExactBetween
<1>6. ExactBetween'
  BY <1>1, <1>2, <1>5 DEF db, ExactBetween
<1>7. local'[r].fields = Rewritten(r)'
  <2>1. sessions[s].fields = written[s]
    BY <1>1 DEF SerialParts, StoredStands
  <2>2. Edited(r, sessions[s]).fields =
          [f \in Fields |-> IF f \in call[r].fields THEN r ELSE sessions[s].fields[f]]
    BY <1>1 DEF Edited, ChatSession
  <2>3. call' = call /\ written' = written
    BY <1>1 DEF db
  <2>4. QED
    BY <1>1, <2>1, <2>2, <2>3 DEF Rewritten
<1>8. pc'[r] # "remove"
  BY <1>1, TypeParts, AfterReadType DEF CallOK, RequestType
<1>9. HeldIsLatest'
  BY <1>1, <1>2, <1>5, <1>7, <1>8 DEF HeldIsLatest, Holding, db
<1>10. QED
  BY <1>4, <1>6, <1>9 DEF SerialParts

\* A message that is inserted goes to a stored session and is counted in memory.
LEMMA InsertSerial ==
  ASSUME TypeInv, SerialParts, NEW r \in Requests, InsertMessage(r), OneAtATime',
         \A q \in Requests \ {r} : pc'[q] = pc[q] /\ pc[q] \in {"idle", "done"}
  PROVE  SerialParts'
<1> DEFINE s == call[r].session_id
<1>1. /\ s \in Sessions /\ pc[r] = "insert" /\ pc'[r] = "save"
      /\ messages' = messages \cup {NewMessage(r)}
      /\ local'[r].message_count = local[r].message_count + 1
      /\ local'[r].fields = local[r].fields
      /\ UNCHANGED <<stored, sessions, call, written>>
  BY InsertEffect
<1>2. s \in stored /\ local[r].message_count = MessageCount(s) /\ local[r].fields = Rewritten(r)
  BY <1>1 DEF SerialParts, HeldIsLatest, Holding
<1>3. NewMessage(r).session_id = s
  BY DEF NewMessage
<1>4. NotWritten' /\ StoredStands'
  BY <1>1, <1>2, <1>3 DEF SerialParts, NotWritten, StoredStands
<1>5. \A x \in Sessions :
        MessageCount(x)' = IF s = x THEN MessageCount(x) + 1 ELSE MessageCount(x)
  BY <1>1, CountEffect DEF RequestStep, PurgeMessages
<1>6. \A q \in Requests : pc[q] \notin {"save", "remove"}
  BY <1>1
<1>7. ExactBetween'
  BY <1>1, <1>5, <1>6, TypeParts DEF SerialParts, ExactBetween, DbType
<1>8. HeldIsLatest'
  BY <1>1, <1>2, <1>5 DEF HeldIsLatest, Holding, Rewritten
<1>9. QED
  BY <1>4, <1>7, <1>8 DEF SerialParts

\* A session that is saved has what was written last, and counts what there is.
LEMMA SaveSerial ==
  ASSUME TypeInv, SerialParts, NEW r \in Requests, SaveSession(r), OneAtATime',
         \A q \in Requests \ {r} : pc'[q] = pc[q] /\ pc[q] \in {"idle", "done"}
  PROVE  SerialParts'
<1> DEFINE s == call[r].session_id
<1>1. /\ s \in Sessions /\ pc[r] = "save" /\ pc'[r] \in {"done", "read"}
      /\ stored' = stored \cup {s}
      /\ sessions' = [sessions EXCEPT ![s] = local[r]]
      /\ sessions'[s].user_id = sessions[s].user_id
      /\ UNCHANGED <<messages, call, local>>
  BY SaveEffect
<1>2. DbType
  BY TypeParts
<1>3. s \in stored /\ local[r].message_count = MessageCount(s) /\ local[r].fields = Rewritten(r)
  BY <1>1 DEF SerialParts, HeldIsLatest, Holding
<1>4. \A x : MessagesOf(x)' = MessagesOf(x) /\ MessageCount(x)' = MessageCount(x)
  BY <1>1 DEF MessagesOf, MessageCount
<1>5. written' = [written EXCEPT ![s] = Rewritten(r)]
  BY DEF SaveSession, Rewritten
<1>6. written'[s] = Rewritten(r) /\ \A x \in Sessions \ {s} : written'[x] = written[x]
  BY <1>1, <1>2, <1>5 DEF DbType
<1>7. sessions'[s] = local[r] /\ \A x \in Sessions \ {s} : sessions'[x] = sessions[x]
  BY <1>1, <1>2 DEF DbType
<1>8. sessions[s].user_id # Nobody
  <2>1. CallOK(r) /\ call[r] \in Calls
    BY <1>1, TypeParts DEF CallOK
  <2>2. QED
    BY <1>1, <2>1, CallType, NobodyAssumption DEF CallOK, Holding
<1>9. NotWritten'
  BY <1>1, <1>6, <1>7, <1>8 DEF SerialParts, NotWritten
<1>10. StoredStands'
  BY <1>1, <1>2, <1>3, <1>6, <1>7 DEF SerialParts, StoredStands, DbType
<1>11. \A q \in Requests : pc'[q] \notin Holding
  BY <1>1 DEF Holding
<1>12. ASSUME NEW x \in stored'
       PROVE  sessions'[x].message_count = MessageCount(x)'
  <2>1. CASE x = s
    BY <1>3, <1>4, <1>7, <2>1
  <2>2. CASE x # s
    <3>1. x \in stored /\ x \in Sessions
      BY <1>1, <1>2, <2>2 DEF DbType
    <3>2. \A q \in Requests : pc[q] \in {"save", "remove"} => call[q].session_id # x
      BY <2>2
    <3>3. sessions[x].message_count = MessageCount(x)
      BY <3>1, <3>2 DEF SerialParts, ExactBetween
    <3>4. QED
      BY <1>4, <1>7, <2>2, <3>1, <3>3
  <2>3. QED
    BY <2>1, <2>2
<1>13. ExactBetween' /\ HeldIsLatest'
  BY <1>11, <1>12 DEF ExactBetween, HeldIsLatest, Holding
<1>14. QED
  BY <1>9, <1>10, <1>13 DEF SerialParts

\* A deletion takes the messages ...
LEMMA PurgeSerial ==
  ASSUME TypeInv, SerialParts, NEW r \in Requests, PurgeMessages(r), OneAtATime',
         \A q \in Requests \ {r} : pc'[q] = pc[q] /\ pc[q] \in {"idle", "done"}
  PROVE  SerialParts'
<1> DEFINE s == call[r].session_id
<1>1. /\ s \in Sessions /\ pc[r] = "purge" /\ pc'[r] = "remove"
      /\ messages' = messages \ MessagesOf(s)
      /\ UNCHANGED <<stored, sessions, call, written>>
  BY PurgeEffect
<1>2. s \in stored
  BY <1>1 DEF SerialParts, HeldIsLatest, Holding
<1>3. MessagesOf(s)' = {} /\ \A x : x # s => MessageCount(x)' = MessageCount(x)
  <2>1. \A x : x # s => MessagesOf(x)' = MessagesOf(x)
    BY <1>1 DEF MessagesOf
  <2>2. QED
    BY <1>1, <2>1 DEF MessagesOf, MessageCount
<1>4. NotWritten' /\ StoredStands'
  BY <1>1 DEF SerialParts, NotWritten, StoredStands
<1>5. \A q \in Requests : pc[q] \notin {"save", "remove"}
  BY <1>1
<1>6. ExactBetween'
  BY <1>1, <1>3, <1>5 DEF SerialParts, ExactBetween
<1>7. HeldIsLatest'
  BY <1>1, <1>2, <1>3 DEF HeldIsLatest, Holding
<1>8. QED
  BY <1>4, <1>6, <1>7 DEF SerialParts

\* ... and the session.
LEMMA RemoveSerial ==
  ASSUME TypeInv, SerialParts, NEW r \in Requests, RemoveSession(r), OneAtATime',
         \A q \in Requests \ {r} : pc'[q] = pc[q] /\ pc[q] \in {"idle", "done"}
  PROVE  SerialParts'
<1> DEFINE s == call[r].session_id
<1>1. /\ pc[r] = "remove" /\ stored' = stored \ {s}
      /\ UNCHANGED <<sessions, messages, call, written>>
  BY DEF RemoveSession
<1>2. pc'[r] = "done"
  BY TypeParts DEF RemoveSession, Answer, Reply, Goto, RequestType
<1>3. MessagesOf(s) = {}
  BY <1>1 DEF SerialParts, HeldIsLatest
<1>4. \A x : MessageCount(x)' = MessageCount(x)
  BY <1>1 DEF MessagesOf, MessageCount
<1>5. NotWritten' /\ StoredStands'
  BY <1>1, <1>3 DEF SerialParts, NotWritten, StoredStands, MessagesOf
<1>6. \A q \in Requests : pc'[q] \notin Holding
  BY <1>2 DEF Holding
<1>7. ExactBetween'
  BY <1>1, <1>4 DEF SerialParts, ExactBetween
<1>8. HeldIsLatest'
  BY <1>6 DEF HeldIsLatest, Holding
<1>9. QED
  BY <1>5, <1>7, <1>8 DEF SerialParts

\* A new session has no messages, for those have an owner.
LEMMA CreateSerial ==
  ASSUME OwnerInv, SerialParts, NEW s \in Sessions, NEW u \in Users, CreateSession(s, u)
  PROVE  SerialParts'
<1>1. /\ UNCHANGED <<messages, pc, call, local, written>>
      /\ stored' = stored \cup {s} /\ sessions' = [sessions EXCEPT ![s] = NewSession(u)]
      /\ sessions[s].user_id = Nobody
  BY DEF CreateSession
<1>2. TypeInv /\ DbType
  BY TypeParts DEF OwnerInv
<1>3. /\ sessions'[s] = NewSession(u) /\ NewSession(u).message_count = 0
      /\ NewSession(u).fields = [f \in Fields |-> Original] /\ NewSession(u).user_id = u
      /\ \A x \in Sessions \ {s} : sessions'[x] = sessions[x]
  BY <1>1, <1>2 DEF DbType, NewSession
<1>4. MessagesOf(s) = {}
  BY <1>1, <1>2, NobodyAssumption
  DEF OwnerInv, OwnerIsolation, MessagesOf, DbType, ChatMessage
<1>5. MessageCount(s) = 0 /\ \A x : MessagesOf(x)' = MessagesOf(x) /\ MessageCount(x)' = MessageCount(x)
  BY <1>1, <1>4, FS_EmptySet DEF MessageCount, MessagesOf
<1>6. OneAtATime' /\ NotWritten'
  BY <1>1, <1>3, NobodyAssumption DEF SerialParts, OneAtATime, InFlight, NotWritten
<1>7. StoredStands'
  BY <1>1, <1>2, <1>3 DEF SerialParts, NotWritten, StoredStands, DbType
<1>8. ExactBetween'
  BY <1>1, <1>2, <1>3, <1>5 DEF SerialParts, ExactBetween, DbType
<1>9. HeldIsLatest'
  BY <1>1, <1>5 DEF SerialParts, HeldIsLatest, Rewritten
<1>10. QED
  BY <1>6, <1>7, <1>8, <1>9 DEF SerialParts

\* What sequential use keeps is inductive.
LEMMA SerialNext ==
  ASSUME SerialInv, [Next]_vars
  PROVE  SerialInv'
<1>1. OwnerInv' /\ TypeInv /\ OwnerInv
  BY OwnerNext DEF SerialInv, OwnerInv
<1>2. ASSUME NEW r \in Requests, RequestStep(r), serial'
      PROVE  SerialParts'
  <2>1. /\ serial /\ OneAtATime'
        /\ \A q \in Requests \ {r} :
             pc'[q] = pc[q] /\ call'[q] = call[q] /\ pc[q] \in {"idle", "done"}
    BY <1>1, <1>2, Alone DEF SerialInv, SerialParts
  <2>2. SerialParts
    BY <2>1 DEF SerialInv
  <2>3. CASE Begin(r) \/ Refuse(r) \/ HistoryUnavailable(r) \/ FetchHistory(r)
    <3>1. UNCHANGED db /\ pc[r] \in {"idle", "read", "fetch"}
      BY <2>3 DEF Begin, Refuse, HistoryUnavailable, FetchHistory
    <3>2. pc'[r] \notin Holding
      BY <1>1, <2>3, LeaveNext
    <3>3. QED
      BY <1>1, <2>1, <2>2, <3>1, <3>2, FreeSerial
  <2>4. ~Fail(r)
    BY <1>2 DEF Fail
  <2>5. QED
    BY <1>1, <1>2, <2>1, <2>2, <2>3, <2>4, ReadSerial, InsertSerial, SaveSerial, PurgeSerial,
       RemoveSerial DEF RequestStep
<1>3. ASSUME NEW s \in Sessions, NEW u \in Users, CreateSession(s, u), serial'
      PROVE  SerialParts'
  BY <1>1, <1>3, CreateSerial DEF SerialInv, CreateSession
<1>4. ASSUME UNCHANGED vars, serial'
      PROVE  SerialParts'
  <2>1. SerialParts /\ UNCHANGED <<stored, sessions, messages, call, pc, local, written>>
    BY <1>4 DEF vars, SerialInv
  <2>2. \A s : MessagesOf(s)' = MessagesOf(s) /\ MessageCount(s)' = MessageCount(s)
    BY <2>1 DEF MessagesOf, MessageCount
  <2>3. OneAtATime' /\ NotWritten' /\ StoredStands'
    BY <2>1 DEF SerialParts, OneAtATime, InFlight, NotWritten, StoredStands
  <2>4. ExactBetween' /\ HeldIsLatest'
    BY <2>1, <2>2 DEF SerialParts, ExactBetween, HeldIsLatest, Rewritten
  <2>5. QED
    BY <2>3, <2>4 DEF SerialParts
<1>5. QED
  BY <1>1, <1>2, <1>3, <1>4, NextIs DEF SerialInv

\* It holds at first, and so at all times.
LEMMA SerialAlways == Spec => []SerialInv
<1>1. Init => SerialInv
  <2> SUFFICES ASSUME Init PROVE SerialInv
    OBVIOUS
  <2>1. TypeInv
    BY TypeInvInit
  <2>2. OwnerInv
    BY <2>1 DEF OwnerInv, OwnerIsolation, Init
  <2>3. InFlight = {} /\ \A r \in Requests : pc[r] = "idle"
    BY DEF Init, InFlight
  <2>4. SerialParts
    BY <2>3 DEF Init, SerialParts, OneAtATime, NotWritten, StoredStands, ExactBetween,
                HeldIsLatest, Holding
  <2>5. QED
    BY <2>2, <2>4 DEF SerialInv
<1>2. QED
  BY <1>1, SerialNext, PTL DEF Spec

\* As long as requests come one after the other and none is cut off, the count
\* of a session is exact between them: it is behind only from the insert of a
\* message to the save, and from the purge to the removal.
THEOREM CountsAreExact == Spec => []CountIsExact
<1>1. SerialInv => CountIsExact
  <2> SUFFICES ASSUME SerialInv, Quiet, NEW s \in stored
               PROVE  sessions[s].message_count = Cardinality(MessagesOf(s))
    BY DEF CountIsExact
  <2>1. SerialParts /\ \A r \in Requests : pc[r] \in {"idle", "done"}
    BY DEF SerialInv, Quiet, InFlight
  <2>2. QED
    BY <2>1 DEF SerialParts, ExactBetween, MessageCount
<1>2. QED
  BY <1>1, SerialAlways, PTL

\* Then no write is undone either, and nothing is left of a deleted session.
THEOREM WritesStand == Spec => []LastWriteStands
<1>1. SerialInv => LastWriteStands
  BY DEF SerialInv, SerialParts, StoredStands, LastWriteStands, Quiet
<1>2. QED
  BY <1>1, SerialAlways, PTL
=============================================================================
