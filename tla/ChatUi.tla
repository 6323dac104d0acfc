------------------------------- MODULE ChatUi -------------------------------
(***************************************************************************)
(* The conversation that the web client shows (app/src/App.tsx): the        *)
(* active session, the messages on display, the list of sessions and        *)
(* whether an answer is waited for, as handlers that the user may start at   *)
(* any time interleave with the answers to their requests (app/src/api.ts). *)
(*                                                                         *)
(* A call is one run of a handler: its request, the answer, and then the    *)
(* list of sessions where the handler loads it.  The server is external: it  *)
(* carries out a request at some time or never, also after the client gave  *)
(* it up.                                                                  *)
(***************************************************************************)
EXTENDS Integers, FiniteSets, Sequences

CONSTANTS
  Calls,          \* runs of handlers, each made once
  Conversations,  \* ids of sessions
  None,           \* no session is active
  Asked           \* the question of a conversation that is there at first

ASSUME NoneAssumption  == None \notin Conversations
ASSUME AskedAssumption == Asked \notin Calls

VARIABLES
  active,     \* activeSessionId
  messages,   \* what is on display
  isLoading,
  sessions,   \* the list in the sidebar
  call,       \* what each call does
  pc,         \* how far each call is
  reply,      \* the answer that is on its way to each call
  known,      \* the server's sessions
  stored,     \* the questions the server has answered, for each session
  overlapped, \* history: calls were in flight together since there was none
  crossed,    \* history: one of those changed the active session
  doubled     \* history: two of those asked

view    == <<active, messages, isLoading, sessions>>
server  == <<known, stored>>
history == <<overlapped, crossed, doubled>>
vars    == <<view, call, pc, reply, server, history>>

----------------------------------------------------------------------------
\* A question is known by the call that first asked it, and a message by the
\* session it was said in, the question, and who says it.
Question == Calls \cup {Asked}
Human(c, q) == [in |-> c, asked |-> q, type |-> "human"]
Ai(c, q)    == [in |-> c, asked |-> q, type |-> "ai"]

\* getHistory: the server's messages come in pairs.
History(c, questions) ==
  [i \in 1 .. 2 * Len(questions) |->
     IF i % 2 = 1 THEN Human(c, questions[(i + 1) \div 2]) ELSE Ai(c, questions[i \div 2])]

NoCall == [op |-> "none"]

Changing == {"new", "select", "delete"}
Asking   == {"send", "regenerate"}

\* Calls whose handler waits for something.  One that it gave up may still be
\* carried out by the server, but changes nothing on display.
InFlight == {h \in Calls : pc[h] \in {"sent", "served", "listing", "listed"}}

\* Selections whose history is not there yet.
Selecting == {h \in Calls : call[h].op = "select" /\ pc[h] \in {"sent", "served"}}

Init ==
  /\ known \in SUBSET Conversations
  /\ stored = [c \in Conversations |-> IF c \in known THEN <<Asked>> ELSE <<>>]
  /\ sessions \in {known, {}}
  /\ active = None
  /\ messages = <<>>
  /\ isLoading = FALSE
  /\ call = [h \in Calls |-> NoCall]
  /\ pc = [h \in Calls |-> "idle"]
  /\ reply = [h \in Calls |-> <<>>]
  /\ overlapped = FALSE /\ crossed = FALSE /\ doubled = FALSE

Goto(h, step) == pc' = [pc EXCEPT ![h] = step]

\* What a call that starts makes of the history.
Begin(h, c) ==
  /\ pc[h] = "idle"
  /\ Goto(h, "sent")
  /\ call' = [call EXCEPT ![h] = c]
  /\ overlapped' = (InFlight # {})
  /\ crossed' = (crossed \/ \E g \in InFlight : c.op \in Changing \/ call[g].op \in Changing)
  /\ doubled' = (doubled \/ (c.op \in Asking /\ \E g \in InFlight : call[g].op \in Asking))
  /\ UNCHANGED <<reply, server>>

----------------------------------------------------------------------------
(* Handlers up to their request *)

\* handleNewChat.
NewChat(h) ==
  /\ Begin(h, [op |-> "new"])
  /\ UNCHANGED view

\* handleSelectSession: the session is active before its history is there.
SelectSession(h) ==
  /\ \E c \in sessions :
       /\ Begin(h, [op |-> "select", session |-> c])
       /\ active' = c
  /\ UNCHANGED <<messages, isLoading, sessions>>

\* handleDeleteSession, with the active session that its closure holds.
DeleteSession(h) ==
  /\ \E c \in sessions :
       Begin(h, [op |-> "delete", session |-> c, showing |-> (active = c)])
  /\ UNCHANGED view

\* The input is disabled while an answer is waited for ...
InputEnabled == ~isLoading

\* ... the suggestions, which are there when there are no messages, are not.
SuggestionsShown == messages = <<>>

\* handleSendMessage.
SendMessage(h) ==
  /\ active # None
  /\ InputEnabled \/ SuggestionsShown
  /\ Begin(h, [op |-> "send", session |-> active, question |-> h])
  /\ messages' = Append(messages, Human(active, h))
  /\ isLoading' = TRUE
  /\ UNCHANGED <<active, sessions>>

\* Mutant: what is kept ends before the question.
Kept_Before(i) == SubSeq(messages, 1, i - 1)

\* What stays on display when the question at a position is asked again.
Kept(i) == SubSeq(messages, 1, i)

\* Every answer on display can be clicked, also while one is waited for.
Answers == {j \in DOMAIN messages : messages[j].type = "ai"}

\* handleRegenerate: the last question before the answer that was clicked.
Regenerate(h) ==
  /\ active # None
  /\ \E j \in Answers, i \in DOMAIN messages \ Answers :
       /\ i < j
       /\ i + 1 .. j - 1 \subseteq Answers
       /\ Begin(h, [op |-> "regenerate", session |-> active, question |-> messages[i].asked])
       /\ messages' = Kept(i)
  /\ isLoading' = TRUE
  /\ UNCHANGED <<active, sessions>>

----------------------------------------------------------------------------
(* The server *)

\* The answer to a request that is carried out.
Answer(h, result) == reply' = [reply EXCEPT ![h] = result]

Start(h) ==
  /\ call[h].op = "new"
  /\ \E c \in Conversations \ known :
       /\ stored[c] = <<>>
       /\ known' = known \cup {c}
       /\ Answer(h, <<c>>)
  /\ UNCHANGED stored

Read(h) ==
  /\ call[h].op = "select"
  /\ call[h].session \in known
  /\ Answer(h, History(call[h].session, stored[call[h].session]))
  /\ UNCHANGED server

Remove(h) ==
  /\ call[h].op = "delete"
  /\ known' = known \ {call[h].session}
  /\ Answer(h, <<>>)
  /\ UNCHANGED stored

Reply(h) ==
  /\ call[h].op \in Asking
  /\ call[h].session \in known
  /\ stored' = [stored EXCEPT ![call[h].session] = Append(@, call[h].question)]
  /\ Answer(h, <<>>)
  /\ UNCHANGED known

Serve(h) ==
  /\ pc[h] = "sent"
  /\ Start(h) \/ Read(h) \/ Remove(h) \/ Reply(h)
  /\ Goto(h, "served")
  /\ UNCHANGED <<view, call, history>>

\* The client has given the request up, and no longer hears of it.
ServeLate(h) ==
  /\ pc[h] = "given up"
  /\ \/ Start(h) \/ Read(h) \/ Remove(h) \/ Reply(h)
     \/ UNCHANGED <<server, reply>>
  /\ Goto(h, "done")
  /\ UNCHANGED <<view, call, history>>

ServeList(h) ==
  /\ pc[h] = "listing"
  /\ Answer(h, <<known>>)
  /\ Goto(h, "listed")
  /\ UNCHANGED <<view, call, server, history>>

----------------------------------------------------------------------------
(* Handlers from the answer on *)

\* A selection or a new chat that ran alone has put the display right.
Settle(h) ==
  /\ crossed' = (crossed /\ ~(call[h].op \in {"new", "select"} /\ ~overlapped))
  /\ doubled' = (doubled /\ ~(call[h].op \in {"new", "select"} /\ ~overlapped))
  /\ UNCHANGED overlapped

\* Mutant: the messages of the conversation before stay until the first one.
Show_KeepMessages(h) ==
  CASE call[h].op = "new"      -> active' = reply[h][1] /\ UNCHANGED messages
    [] call[h].op = "select"   -> messages' = reply[h] /\ UNCHANGED active
    [] call[h].op = "delete"   -> IF call[h].showing THEN active' = None /\ messages' = <<>>
                                  ELSE UNCHANGED <<active, messages>>
    [] call[h].op \in Asking   -> messages' = Append(messages, Ai(call[h].session, call[h].question))
                                  /\ UNCHANGED active

\* What an answer changes on display.
Show(h) ==
  CASE call[h].op = "new"      -> active' = reply[h][1] /\ messages' = <<>>
    [] call[h].op = "select"   -> messages' = reply[h] /\ UNCHANGED active
    [] call[h].op = "delete"   -> IF call[h].showing THEN active' = None /\ messages' = <<>>
                                  ELSE UNCHANGED <<active, messages>>
    [] call[h].op \in Asking   -> messages' = Append(messages, Ai(call[h].session, call[h].question))
                                  /\ UNCHANGED active

Arrive(h) ==
  /\ pc[h] = "served"
  /\ Show(h)
  /\ Goto(h, IF call[h].op = "select" THEN "done" ELSE "listing")
  /\ Settle(h)
  /\ UNCHANGED <<isLoading, sessions, call, reply, server>>

\* Mutant: the flag is reset only by an answer.
LoadingAfter_NoFinally(h) == IF pc[h] \in {"listing", "listed"} THEN FALSE ELSE isLoading

\* finally: setIsLoading(false), in the handlers that ask.
LoadingAfter(h) == IF call[h].op \in Asking THEN FALSE ELSE isLoading

\* loadSessions: a list that does not come is no failure of the handler.
List(h) ==
  /\ \/ pc[h] = "listed" /\ sessions' = reply[h][1]
     \/ pc[h] \in {"listing", "listed"} /\ UNCHANGED sessions
  /\ isLoading' = LoadingAfter(h)
  /\ Goto(h, "done")
  /\ UNCHANGED <<active, messages, call, reply, server, history>>

\* What an error changes on display.
ShowError(h) ==
  CASE call[h].op = "new"        -> active' = None /\ messages' = <<>>
    [] call[h].op = "select"     -> messages' = <<>> /\ UNCHANGED active
    [] call[h].op = "send"       -> messages' = Append(messages, Ai(call[h].session, call[h].question))
                                    /\ UNCHANGED active
    [] OTHER                     -> UNCHANGED <<active, messages>>

\* An error, or the timeout of fetchWithTimeout, before or after the server
\* carried out the request.
Fail(h) ==
  /\ pc[h] \in {"sent", "served"}
  /\ ShowError(h)
  /\ isLoading' = LoadingAfter(h)
  /\ Goto(h, IF pc[h] = "sent" THEN "given up" ELSE "done")
  /\ Settle(h)
  /\ UNCHANGED <<sessions, call, reply, server>>

Next ==
  \E h \in Calls :
    \/ NewChat(h) \/ SelectSession(h) \/ DeleteSession(h) \/ SendMessage(h) \/ Regenerate(h)
    \/ Serve(h) \/ ServeLate(h) \/ ServeList(h)
    \/ Arrive(h) \/ List(h) \/ Fail(h)

\* A request is answered or times out, and so is the list.
Fairness == \A h \in Calls : WF_vars(Arrive(h) \/ List(h) \/ Fail(h))

Spec == Init /\ [][Next]_vars /\ Fairness

----------------------------------------------------------------------------
(* Properties *)

\* Once a selection is over, all messages on display are of the active session,
\* unless the session was changed while another call was in flight; and then
\* again after a selection or a new chat that ran alone, whatever failed.
ShowsOneConversation ==
  ~crossed /\ Selecting = {} => \A i \in DOMAIN messages : messages[i].in = active

\* An answer on display stands right after its question, and is that of the
\* question, also after a failure and after it was asked again; unless calls
\* that ask were in flight together, or the session was changed meanwhile.
AnswerFollowsItsQuestion ==
  ~crossed /\ ~doubled =>
    \A i \in DOMAIN messages :
      messages[i].type = "ai" =>
        i > 1 /\ messages[i - 1] = [messages[i] EXCEPT !.type = "human"]

\* The typing indicator is there exactly as long as a call that asks, up to the
\* list it loads, unless two of these were in flight together.
LoadingIsWaiting ==
  ~doubled => (isLoading <=> \E h \in InFlight : call[h].op \in Asking)

\* Every wait for an answer ends.
LoadingEnds == isLoading ~> ~isLoading
=============================================================================
