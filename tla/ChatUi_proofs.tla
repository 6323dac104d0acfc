--------------------------- MODULE ChatUi_proofs ---------------------------
(***************************************************************************)
(* Proofs about ChatUi: what is on display is of the active session, every  *)
(* answer stands after its question, and the typing indicator is there as    *)
(* long as an answer is waited for, for any number of calls and sessions.    *)
(*                                                                         *)
(* The invariant is built in four layers, each proved with the ones before   *)
(* it: the types; which calls can be in flight together under each history   *)
(* variable; the indicator; and what is on display and on its way there.     *)
(***************************************************************************)
EXTENDS ChatUi, TLAPS

Message == [in : Conversations, asked : Question, type : {"human", "ai"}]

Steps == {"idle", "sent", "served", "listing", "listed", "given up", "done"}

\* All messages of a sequence are of one session.
OfSession(s, c) == \A i \in DOMAIN s : s[i].in = c

\* Every answer of a sequence stands right after its question.
Paired(s) ==
  \A i \in DOMAIN s :
    s[i].type = "ai" => i > 1 /\ s[i - 1] = [s[i] EXCEPT !.type = "human"]

----------------------------------------------------------------------------
(* The layers *)

CallType(h) ==
  /\ pc[h] # "idle" => call[h].op \in Changing \cup Asking
  /\ call[h].op \in {"select", "delete"} \cup Asking => call[h].session \in Conversations
  /\ call[h].op \in Asking => call[h].question \in Question

ReplyType(h) ==
  /\ pc[h] = "served" /\ call[h].op = "new"    => \E c \in Conversations : reply[h] = <<c>>
  /\ pc[h] = "served" /\ call[h].op = "select" => reply[h] \in Seq(Message)
  /\ pc[h] = "listed"                          => reply[h][1] \subseteq Conversations

UiType ==
  /\ active \in Conversations \cup {None}
  /\ messages \in Seq(Message)
  /\ isLoading \in BOOLEAN
  /\ sessions \subseteq Conversations
  /\ pc \in [Calls -> Steps]
  /\ DOMAIN call = Calls
  /\ DOMAIN reply = Calls
  /\ \A h \in Calls : CallType(h) /\ ReplyType(h)
  /\ known \subseteq Conversations
  /\ stored \in [Conversations -> Seq(Question)]
  /\ overlapped \in BOOLEAN /\ crossed \in BOOLEAN /\ doubled \in BOOLEAN

\* What each history variable says of the calls in flight.
Apart ==
  \A g, h \in InFlight :
    g # h => /\ overlapped
             /\ call[g].op \in Changing => crossed
             /\ call[g].op \in Asking /\ call[h].op \in Asking => doubled

Waiting == \E h \in InFlight : call[h].op \in Asking

Loading ==
  /\ isLoading => Waiting
  /\ Waiting /\ ~doubled => isLoading

\* The history that a selection brings.
HistoryArrives ==
  \A h \in Calls :
    pc[h] = "served" /\ call[h].op = "select" =>
      OfSession(reply[h], call[h].session) /\ Paired(reply[h])

\* Until its history is there, a selection that nothing interferes with keeps
\* its session active ...
SelectionStands ==
  \A h \in Selecting : ~crossed \/ ~overlapped => call[h].session = active

\* ... and so does a question, up to the end of its handler ...
AskedHere ==
  \A h \in InFlight : ~crossed /\ call[h].op \in Asking => call[h].session = active

\* ... which leaves the question the last one on display until the answer comes.
QuestionIsLast ==
  \A h \in Calls :
    /\ ~crossed /\ ~doubled
    /\ pc[h] \in {"sent", "served"} /\ call[h].op \in Asking
    => /\ messages # <<>>
       /\ messages[Len(messages)] = Human(call[h].session, call[h].question)

Display ==
  /\ HistoryArrives
  /\ SelectionStands
  /\ AskedHere
  /\ QuestionIsLast
  /\ ShowsOneConversation
  /\ AnswerFollowsItsQuestion

----------------------------------------------------------------------------
(* Sequences of messages *)

\* The question before an answer is the answer with the other type.
LEMMA PairOfMessages ==
  ASSUME NEW c, NEW q
  PROVE  /\ [Ai(c, q) EXCEPT !.type = "human"] = Human(c, q)
         /\ Ai(c, q).in = c /\ Ai(c, q).type = "ai"
         /\ Human(c, q).in = c /\ Human(c, q).type = "human"
  BY DEF Ai, Human

LEMMA MessageType ==
  ASSUME NEW c \in Conversations, NEW q \in Question
  PROVE  Ai(c, q) \in Message /\ Human(c, q) \in Message
  BY DEF Ai, Human, Message

\* The history that the server keeps of a session is of the session, in pairs.
LEMMA HistoryWell ==
  ASSUME NEW c \in Conversations, NEW qs \in Seq(Question)
  PROVE  /\ History(c, qs) \in Seq(Message)
         /\ OfSession(History(c, qs), c)
         /\ Paired(History(c, qs))
<1> DEFINE H == History(c, qs)
           n == Len(qs)
<1>1. n \in Nat /\ DOMAIN H = 1 .. 2 * n /\ DOMAIN qs = 1 .. n
  BY DEF History
<1>2. ASSUME NEW i \in 1 .. 2 * n, i % 2 = 1
      PROVE  /\ (i + 1) \div 2 \in 1 .. n
             /\ H[i] = Human(c, qs[(i + 1) \div 2])
  <2>1. (i + 1) \div 2 \in 1 .. n
    BY <1>1, <1>2
  <2>2. QED
    BY <1>2, <2>1 DEF History
<1>3. ASSUME NEW i \in 1 .. 2 * n, i % 2 # 1
      PROVE  /\ i \div 2 \in 1 .. n
             /\ H[i] = Ai(c, qs[i \div 2])
             /\ i - 1 \in 1 .. 2 * n /\ (i - 1) % 2 = 1
             /\ ((i - 1) + 1) \div 2 = i \div 2
  <2>1. i \div 2 \in 1 .. n /\ i - 1 \in 1 .. 2 * n /\ (i - 1) % 2 = 1
    BY <1>1, <1>3
  <2>2. QED
    BY <1>3, <2>1 DEF History
<1>4. \A i \in 1 .. 2 * n : H[i] \in Message /\ H[i].in = c
  <2> TAKE i \in 1 .. 2 * n
  <2>1. CASE i % 2 = 1
    <3>1. qs[(i + 1) \div 2] \in Question
      BY <1>1, <1>2, <2>1
    <3>2. QED
      BY <1>2, <2>1, <3>1, MessageType, PairOfMessages
  <2>2. CASE i % 2 # 1
    <3>1. qs[i \div 2] \in Question
      BY <1>1, <1>3, <2>2
    <3>2. H[i] = Ai(c, qs[i \div 2])
      BY <1>3, <2>2
    <3>3. QED
      BY <3>1, <3>2, MessageType, PairOfMessages
  <2>3. QED
    BY <2>1, <2>2
<1>5. H \in Seq(Message)
  <2>1. H = [i \in 1 .. 2 * n |-> H[i]]
    BY DEF History
  <2>2. 2 * n \in Nat
    BY <1>1
  <2> HIDE DEF H
  <2>3. H \in [1 .. 2 * n -> Message]
    BY <1>4, <2>1
  <2>4. QED
    BY <2>2, <2>3
<1>6. Paired(H)
  <2> SUFFICES ASSUME NEW i \in 1 .. 2 * n, H[i].type = "ai"
               PROVE  i > 1 /\ H[i - 1] = [H[i] EXCEPT !.type = "human"]
    BY <1>1 DEF Paired
  <2>1. i % 2 # 1
    BY <1>2, PairOfMessages
  <2>2. H[i - 1] = Human(c, qs[i \div 2]) /\ H[i] = Ai(c, qs[i \div 2])
    BY <1>2, <1>3, <2>1
  <2>3. i > 1
    BY <1>1, <1>3, <2>1
  <2>4. QED
    BY <2>2, <2>3, PairOfMessages
<1>7. QED
  BY <1>1, <1>4, <1>5, <1>6 DEF OfSession

\* A question at the end of a display leaves its pairs as they are ...
LEMMA AppendHuman ==
  ASSUME NEW s \in Seq(Message), NEW c, NEW q, Paired(s)
  PROVE  Paired(Append(s, Human(c, q)))
<1> DEFINE t == Append(s, Human(c, q))
<1>1. DOMAIN t = 1 .. Len(s) + 1 /\ Len(s) \in Nat /\ DOMAIN s = 1 .. Len(s)
  OBVIOUS
<1>2. \A i \in 1 .. Len(s) : t[i] = s[i]
  OBVIOUS
<1>3. t[Len(s) + 1].type = "human"
  BY PairOfMessages
<1>4. ASSUME NEW i \in 1 .. Len(s) + 1, t[i].type = "ai"
      PROVE  i > 1 /\ t[i - 1] = [t[i] EXCEPT !.type = "human"]
  <2>1. i \in 1 .. Len(s)
    BY <1>1, <1>3, <1>4
  <2>2. i > 1 /\ s[i - 1] = [s[i] EXCEPT !.type = "human"]
    BY <1>1, <1>2, <1>4, <2>1 DEF Paired
  <2>3. i - 1 \in 1 .. Len(s)
    BY <1>1, <2>1, <2>2
  <2>4. QED
    BY <1>2, <2>1, <2>2, <2>3
<1>5. QED
  BY <1>1, <1>4 DEF Paired

\* ... and so does the answer to the question that stands there.
LEMMA AppendAi ==
  ASSUME NEW s \in Seq(Message), NEW c, NEW q, Paired(s),
         s # <<>>, s[Len(s)] = Human(c, q)
  PROVE  Paired(Append(s, Ai(c, q)))
<1> DEFINE t == Append(s, Ai(c, q))
<1>1. DOMAIN t = 1 .. Len(s) + 1 /\ Len(s) \in Nat /\ DOMAIN s = 1 .. Len(s) /\ Len(s) > 0
  OBVIOUS
<1>2. \A i \in 1 .. Len(s) : t[i] = s[i]
  OBVIOUS
<1>3. t[Len(s) + 1] = Ai(c, q)
  OBVIOUS
<1>4. ASSUME NEW i \in 1 .. Len(s) + 1, t[i].type = "ai"
      PROVE  i > 1 /\ t[i - 1] = [t[i] EXCEPT !.type = "human"]
  <2>1. CASE i = Len(s) + 1
    <3>1. t[i] = Ai(c, q) /\ i - 1 = Len(s) /\ i > 1
      BY <1>1, <1>3, <2>1
    <3>2. t[i - 1] = Human(c, q)
      BY <1>1, <1>2, <3>1
    <3>3. QED
      BY <3>1, <3>2, PairOfMessages
  <2>2. CASE i # Len(s) + 1
    <3>1. i \in 1 .. Len(s)
      BY <1>1, <2>2
    <3>2. i > 1 /\ s[i - 1] = [s[i] EXCEPT !.type = "human"]
      BY <1>1, <1>2, <1>4, <3>1 DEF Paired
    <3>3. i - 1 \in 1 .. Len(s)
      BY <1>1, <3>1, <3>2
    <3>4. QED
      BY <1>2, <3>1, <3>2, <3>3
  <2>3. QED
    BY <2>1, <2>2
<1>5. QED
  BY <1>1, <1>4 DEF Paired

\* What is kept of a display keeps its messages and pairs, and ends where it is cut.
LEMMA KeptWell ==
  ASSUME NEW i \in DOMAIN messages, messages \in Seq(Message)
  PROVE  /\ Kept(i) \in Seq(Message)
         /\ Len(Kept(i)) = i /\ Kept(i) # <<>> /\ Kept(i)[i] = messages[i]
         /\ \A j \in DOMAIN Kept(i) : j \in DOMAIN messages /\ Kept(i)[j] = messages[j]
         /\ Paired(messages) => Paired(Kept(i))
<1>1. i \in 1 .. Len(messages) /\ Len(messages) \in Nat
  OBVIOUS
<1>2. /\ Kept(i) \in Seq(Message) /\ Len(Kept(i)) = i
      /\ \A j \in 1 .. i : Kept(i)[j] = messages[j]
  <2>1. \A j \in 1 .. i : messages[j] \in Message
    BY <1>1
  <2>2. Kept(i) = [j \in 1 .. i |-> messages[j]]
    BY <1>1 DEF Kept
  <2>3. QED
    BY <1>1, <2>1, <2>2 DEF Kept
<1>3. DOMAIN Kept(i) = 1 .. i /\ 1 .. i \subseteq DOMAIN messages
  BY <1>1, <1>2
<1>4. ASSUME Paired(messages)
      PROVE  Paired(Kept(i))
  <2> SUFFICES ASSUME NEW j \in 1 .. i, Kept(i)[j].type = "ai"
               PROVE  j > 1 /\ Kept(i)[j - 1] = [Kept(i)[j] EXCEPT !.type = "human"]
    BY <1>3 DEF Paired
  <2>1. j \in DOMAIN messages /\ Kept(i)[j] = messages[j]
    BY <1>2, <1>3
  <2>2. j > 1 /\ messages[j - 1] = [messages[j] EXCEPT !.type = "human"]
    BY <1>4, <2>1 DEF Paired
  <2>3. j - 1 \in 1 .. i
    BY <1>1, <2>2
  <2>4. QED
    BY <1>2, <2>1, <2>2, <2>3
<1>5. QED
  BY <1>1, <1>2, <1>3, <1>4

----------------------------------------------------------------------------
(* The types *)

\* The parts of UiType that are not on display.
CallsTyped ==
  /\ pc \in [Calls -> Steps]
  /\ DOMAIN call = Calls
  /\ DOMAIN reply = Calls
  /\ \A h \in Calls : CallType(h) /\ ReplyType(h)
  /\ overlapped \in BOOLEAN /\ crossed \in BOOLEAN /\ doubled \in BOOLEAN

ServerTyped ==
  /\ known \subseteq Conversations
  /\ stored \in [Conversations -> Seq(Question)]

\* What a handler starts has its type when its session and question have.
LEMMA BeginTyped ==
  ASSUME UiType, NEW h \in Calls, NEW c, Begin(h, c),
         c.op \in Changing \cup Asking,
         c.op \in {"select", "delete"} \cup Asking => c.session \in Conversations,
         c.op \in Asking => c.question \in Question
  PROVE  CallsTyped' /\ ServerTyped'
<1>1. /\ pc' \in [Calls -> Steps] /\ DOMAIN call' = Calls /\ DOMAIN reply' = Calls
      /\ pc'[h] = "sent" /\ call'[h] = c /\ reply' = reply
      /\ \A g \in Calls \ {h} : pc'[g] = pc[g] /\ call'[g] = call[g]
  BY DEF UiType, Begin, Goto, Steps
<1>2. ASSUME NEW g \in Calls
      PROVE  CallType(g)' /\ ReplyType(g)'
  <2>1. CASE g = h
    BY <1>1, <2>1 DEF CallType, ReplyType
  <2>2. CASE g # h
    <3>1. CallType(g) /\ ReplyType(g)
      BY DEF UiType
    <3>2. QED
      BY <1>1, <2>2, <3>1 DEF CallType, ReplyType
  <2>3. QED
    BY <2>1, <2>2
<1>3. overlapped' \in BOOLEAN /\ crossed' \in BOOLEAN /\ doubled' \in BOOLEAN
  BY DEF Begin
<1>4. ServerTyped'
  BY DEF UiType, ServerTyped, Begin, server
<1>5. QED
  BY <1>1, <1>2, <1>3, <1>4 DEF CallsTyped

\* A request that is carried out brings an answer of its type.
LEMMA ServedTyped ==
  ASSUME UiType, NEW h \in Calls, Start(h) \/ Read(h) \/ Remove(h) \/ Reply(h)
  PROVE  /\ ServerTyped'
         /\ DOMAIN reply' = Calls
         /\ \A g \in Calls \ {h} : reply'[g] = reply[g]
         /\ call[h].op = "new"    => \E c \in Conversations : reply'[h] = <<c>>
         /\ call[h].op = "select" => /\ reply'[h] \in Seq(Message)
                                     /\ OfSession(reply'[h], call[h].session)
                                     /\ Paired(reply'[h])
<1> USE DEF UiType
<1>0. CallType(h)
  OBVIOUS
<1>1. CASE Start(h)
  <2>1. PICK c \in Conversations : known' = known \cup {c} /\ Answer(h, <<c>>)
    BY <1>1 DEF Start
  <2>2. QED
    BY <1>1, <2>1 DEF Start, Answer, ServerTyped
<1>2. CASE Read(h)
  <2>1. /\ call[h].session \in Conversations
        /\ stored[call[h].session] \in Seq(Question)
    BY <1>0, <1>2 DEF Read, CallType
  <2>2. reply'[h] = History(call[h].session, stored[call[h].session])
    BY <1>2 DEF Read, Answer
  <2>3. QED
    BY <1>2, <2>1, <2>2, HistoryWell DEF Read, Answer, ServerTyped, server
<1>3. CASE Remove(h)
  BY <1>3 DEF Remove, Answer, ServerTyped
<1>4. CASE Reply(h)
  <2>1. call[h].session \in Conversations /\ call[h].question \in Question
    BY <1>0, <1>4 DEF Reply, CallType
  <2>2. Append(stored[call[h].session], call[h].question) \in Seq(Question)
    BY <2>1
  <2>3. stored' \in [Conversations -> Seq(Question)]
    BY <1>4, <2>1, <2>2 DEF Reply
  <2>4. QED
    BY <1>4, <2>3 DEF Reply, Answer, ServerTyped, Asking
<1>5. QED
  BY <1>1, <1>2, <1>3, <1>4

\* A call that goes on keeps the types of all calls, when its answer has its type.
LEMMA GotoTyped ==
  ASSUME UiType, NEW h \in Calls, NEW step \in Steps, Goto(h, step),
         pc[h] # "idle", call' = call, DOMAIN reply' = Calls,
         \A g \in Calls \ {h} : reply'[g] = reply[g],
         ReplyType(h)'
  PROVE  /\ pc' \in [Calls -> Steps] /\ DOMAIN call' = Calls /\ DOMAIN reply' = Calls
         /\ \A g \in Calls : CallType(g)' /\ ReplyType(g)'
<1>1. /\ pc' \in [Calls -> Steps] /\ pc'[h] = step
      /\ \A g \in Calls \ {h} : pc'[g] = pc[g]
  BY DEF UiType, Goto
<1>2. ASSUME NEW g \in Calls
      PROVE  CallType(g)' /\ ReplyType(g)'
  <2>0. CallType(g) /\ ReplyType(g)
    BY DEF UiType
  <2>1. CASE g = h
    BY <1>1, <2>0, <2>1 DEF CallType
  <2>2. CASE g # h
    BY <1>1, <2>0, <2>2 DEF CallType, ReplyType
  <2>3. QED
    BY <2>1, <2>2
<1>3. QED
  BY <1>1, <1>2 DEF UiType

LEMMA UiTypeInit ==
  ASSUME Init
  PROVE  UiType
<1>1. \A c \in Conversations : stored[c] \in Seq(Question)
  <2>1. <<Asked>> \in Seq(Question) /\ <<>> \in Seq(Question)
    BY DEF Question
  <2>2. QED
    BY <2>1 DEF Init
<1>2. stored \in [Conversations -> Seq(Question)]
  BY <1>1 DEF Init
<1>3. ASSUME NEW h \in Calls
      PROVE  CallType(h) /\ ReplyType(h)
  BY DEF Init, NoCall, Changing, Asking, CallType, ReplyType
<1>4. messages \in Seq(Message)
  BY DEF Init
<1>5. QED
  BY <1>2, <1>3, <1>4 DEF Init, UiType, Steps

LEMMA UiTypeStep ==
  ASSUME UiType, [Next]_vars
  PROVE  UiType'
<1>1. CASE UNCHANGED vars
  BY <1>1 DEF UiType, CallType, ReplyType, vars, view, server, history
<1> SUFFICES ASSUME NEW h \in Calls,
                    \/ NewChat(h) \/ SelectSession(h) \/ DeleteSession(h) \/ SendMessage(h)
                    \/ Regenerate(h) \/ Serve(h) \/ ServeLate(h) \/ ServeList(h)
                    \/ Arrive(h) \/ List(h) \/ Fail(h)
             PROVE  UiType'
  BY <1>1 DEF Next
<1> DEFINE ViewTyped == /\ active \in Conversations \cup {None}
                        /\ messages \in Seq(Message)
                        /\ isLoading \in BOOLEAN
                        /\ sessions \subseteq Conversations
<1>0. /\ ViewTyped /\ CallType(h) /\ ReplyType(h)
      /\ CallsTyped /\ ServerTyped
  BY DEF UiType, CallsTyped, ServerTyped
<1>s. SUFFICES ViewTyped' /\ CallsTyped' /\ ServerTyped'
  BY DEF UiType, CallsTyped, ServerTyped
<1>2. CASE NewChat(h)
  <2>1. CallsTyped' /\ ServerTyped'
    BY <1>2, BeginTyped DEF NewChat, Changing, Asking
  <2>2. QED
    BY <1>0, <1>2, <2>1 DEF NewChat, view
<1>3. CASE SelectSession(h)
  <2>1. PICK c \in sessions : Begin(h, [op |-> "select", session |-> c]) /\ active' = c
    BY <1>3 DEF SelectSession
  <2>2. CallsTyped' /\ ServerTyped'
    BY <1>0, <2>1, BeginTyped DEF Changing, Asking
  <2>3. QED
    BY <1>0, <1>3, <2>1, <2>2 DEF SelectSession
<1>4. CASE DeleteSession(h)
  <2>1. PICK c \in sessions : Begin(h, [op |-> "delete", session |-> c, showing |-> (active = c)])
    BY <1>4 DEF DeleteSession
  <2>2. CallsTyped' /\ ServerTyped'
    BY <1>0, <2>1, BeginTyped DEF Changing, Asking
  <2>3. QED
    BY <1>0, <1>4, <2>2 DEF DeleteSession, view
<1>5. CASE SendMessage(h)
  <2>1. active \in Conversations /\ h \in Question
    BY <1>0, <1>5 DEF SendMessage, Question
  <2>2. CallsTyped' /\ ServerTyped'
    BY <1>5, <2>1, BeginTyped DEF SendMessage, Changing, Asking
  <2>3. messages' \in Seq(Message)
    <3>1. Human(active, h) \in Message
      BY <2>1, MessageType
    <3>2. QED
      BY <1>0, <1>5, <3>1 DEF SendMessage
  <2>4. QED
    BY <1>0, <1>5, <2>2, <2>3 DEF SendMessage
<1>6. CASE Regenerate(h)
  <2>1. PICK i \in DOMAIN messages :
          /\ Begin(h, [op |-> "regenerate", session |-> active, question |-> messages[i].asked])
          /\ messages' = Kept(i)
    BY <1>6 DEF Regenerate
  <2>2. active \in Conversations /\ messages[i].asked \in Question
    <3>1. active # None
      BY <1>6 DEF Regenerate
    <3>2. messages[i] \in Message
      BY <1>0
    <3>3. messages[i].asked \in Question
      BY <3>2 DEF Message
    <3>4. QED
      BY <1>0, <3>1, <3>3
  <2>3. CallsTyped' /\ ServerTyped'
    <3> DEFINE c == [op |-> "regenerate", session |-> active, question |-> messages[i].asked]
    <3>1. /\ c.op \in Asking /\ c.op \notin {"select", "delete"}
          /\ c.session \in Conversations /\ c.question \in Question
      BY <2>2 DEF Asking
    <3>2. Begin(h, c)
      BY <2>1
    <3> HIDE DEF c
    <3>3. QED
      BY <3>1, <3>2, BeginTyped
  <2>4. messages' \in Seq(Message)
    BY <1>0, <2>1, KeptWell
  <2>5. QED
    BY <1>0, <1>6, <2>3, <2>4 DEF Regenerate
<1>7. CASE Serve(h)
  <2>1. pc'[h] = "served" /\ call' = call
    BY <1>7 DEF Serve, Goto, UiType
  <2>2. ReplyType(h)'
    BY <1>7, <2>1, ServedTyped DEF Serve, ReplyType
  <2>3. CallsTyped'
    BY <1>0, <1>7, <2>2, ServedTyped, GotoTyped DEF Serve, CallsTyped, Steps, history
  <2>4. ServerTyped'
    BY <1>7, ServedTyped DEF Serve
  <2>5. QED
    BY <1>0, <1>7, <2>3, <2>4 DEF Serve, view
<1>8. CASE ServeLate(h)
  <2>1. pc'[h] = "done" /\ call' = call
    BY <1>8 DEF ServeLate, Goto, UiType
  <2>2. ReplyType(h)'
    BY <2>1 DEF ReplyType
  <2>3. /\ ServerTyped' /\ DOMAIN reply' = Calls
        /\ \A g \in Calls \ {h} : reply'[g] = reply[g]
    <3>1. CASE UNCHANGED <<server, reply>>
      BY <1>0, <3>1 DEF server, ServerTyped, CallsTyped
    <3>2. CASE Start(h) \/ Read(h) \/ Remove(h) \/ Reply(h)
      BY <3>2, ServedTyped
    <3>3. QED
      BY <1>8, <3>1, <3>2 DEF ServeLate
  <2>4. CallsTyped'
    BY <1>0, <1>8, <2>2, <2>3, GotoTyped DEF ServeLate, CallsTyped, Steps, history
  <2>5. QED
    BY <1>0, <1>8, <2>3, <2>4 DEF ServeLate, view
<1>9. CASE ServeList(h)
  <2>1. pc'[h] = "listed" /\ call' = call /\ reply' = [reply EXCEPT ![h] = <<known>>]
    BY <1>9 DEF ServeList, Goto, Answer, UiType
  <2>2. reply'[h] = <<known>> /\ DOMAIN reply' = Calls
        /\ \A g \in Calls \ {h} : reply'[g] = reply[g]
    BY <1>0, <2>1 DEF CallsTyped
  <2>3. ReplyType(h)'
    BY <1>0, <2>1, <2>2 DEF ReplyType, ServerTyped
  <2>4. CallsTyped'
    BY <1>0, <1>9, <2>2, <2>3, GotoTyped DEF ServeList, CallsTyped, Steps, history
  <2>5. QED
    BY <1>0, <1>9, <2>4 DEF ServeList, view, server, ServerTyped
<1>10. CASE Arrive(h)
  <2>1. ReplyType(h)' /\ pc'[h] \in {"done", "listing"}
    BY <1>10 DEF Arrive, Goto, UiType, ReplyType
  <2>2. crossed' \in BOOLEAN /\ doubled' \in BOOLEAN /\ overlapped' \in BOOLEAN
    BY <1>0, <1>10 DEF Arrive, Settle, CallsTyped
  <2>3. CallsTyped' /\ ServerTyped'
    <3> DEFINE step == IF call[h].op = "select" THEN "done" ELSE "listing"
    <3>1. Goto(h, step) /\ step \in Steps /\ reply' = reply /\ call' = call
      BY <1>10 DEF Arrive, Steps
    <3>2. pc[h] # "idle"
      BY <1>10 DEF Arrive
    <3> HIDE DEF step
    <3>3. /\ pc' \in [Calls -> Steps] /\ DOMAIN call' = Calls /\ DOMAIN reply' = Calls
          /\ \A g \in Calls : CallType(g)' /\ ReplyType(g)'
      BY <1>0, <2>1, <3>1, <3>2, GotoTyped DEF CallsTyped
    <3>4. QED
      BY <1>0, <1>10, <2>2, <3>3 DEF Arrive, CallsTyped, ServerTyped, server
  <2>4. active' \in Conversations \cup {None} /\ messages' \in Seq(Message)
    <3>0. call[h].op \in Changing \cup Asking
      BY <1>0, <1>10 DEF Arrive, CallType
    <3>1. CASE call[h].op = "new"
      <4>1. active' = reply[h][1] /\ messages' = <<>>
        BY <1>10, <3>1 DEF Arrive, Show, Asking
      <4>2. QED
        BY <1>0, <1>10, <3>1, <4>1 DEF Arrive, ReplyType
    <3>2. CASE call[h].op = "select"
      BY <1>0, <1>10, <3>2 DEF Arrive, Show, Asking, ReplyType
    <3>3. CASE call[h].op = "delete"
      <4>1. \/ active' = None /\ messages' = <<>>
            \/ active' = active /\ messages' = messages
        BY <1>10, <3>3 DEF Arrive, Show, Asking
      <4>2. CASE active' = None /\ messages' = <<>>
        BY <4>2
      <4>3. CASE active' = active /\ messages' = messages
        BY <1>0, <4>3
      <4>4. QED
        BY <4>1, <4>2, <4>3
    <3>4. CASE call[h].op \in Asking
      <4>1. /\ active' = active
            /\ messages' = Append(messages, Ai(call[h].session, call[h].question))
        BY <1>10, <3>4 DEF Arrive, Show, Asking
      <4>2. Ai(call[h].session, call[h].question) \in Message
        BY <1>0, <3>4, MessageType DEF CallType
      <4>3. QED
        BY <1>0, <4>1, <4>2
    <3>5. QED
      BY <3>0, <3>1, <3>2, <3>3, <3>4 DEF Changing
  <2>5. QED
    BY <1>0, <1>10, <2>3, <2>4 DEF Arrive
<1>11. CASE List(h)
  <2>1. pc'[h] = "done" /\ ReplyType(h)'
    BY <1>11 DEF List, Goto, UiType, ReplyType
  <2>2. CallsTyped' /\ ServerTyped'
    BY <1>0, <1>11, <2>1, GotoTyped DEF List, CallsTyped, ServerTyped, Steps, history, server
  <2>3. sessions' \subseteq Conversations
    BY <1>0, <1>11 DEF List, ReplyType
  <2>4. isLoading' \in BOOLEAN
    BY <1>0, <1>11 DEF List, LoadingAfter
  <2>5. QED
    BY <1>0, <1>11, <2>2, <2>3, <2>4 DEF List
<1>12. CASE Fail(h)
  <2>1. ReplyType(h)' /\ pc'[h] \in {"done", "given up"}
    BY <1>12 DEF Fail, Goto, UiType, ReplyType
  <2>2. crossed' \in BOOLEAN /\ doubled' \in BOOLEAN /\ overlapped' \in BOOLEAN
    BY <1>0, <1>12 DEF Fail, Settle, CallsTyped
  <2>3. CallsTyped' /\ ServerTyped'
    <3> DEFINE step == IF pc[h] = "sent" THEN "given up" ELSE "done"
    <3>1. Goto(h, step) /\ step \in Steps /\ reply' = reply /\ call' = call
      BY <1>12 DEF Fail, Steps
    <3>2. pc[h] # "idle"
      BY <1>12 DEF Fail
    <3> HIDE DEF step
    <3>3. /\ pc' \in [Calls -> Steps] /\ DOMAIN call' = Calls /\ DOMAIN reply' = Calls
          /\ \A g \in Calls : CallType(g)' /\ ReplyType(g)'
      BY <1>0, <2>1, <3>1, <3>2, GotoTyped DEF CallsTyped
    <3>4. QED
      BY <1>0, <1>12, <2>2, <3>3 DEF Fail, CallsTyped, ServerTyped, server
  <2>4. active' \in Conversations \cup {None} /\ messages' \in Seq(Message)
    <3>1. CASE call[h].op = "send"
      <4>1. Ai(call[h].session, call[h].question) \in Message
        BY <1>0, <3>1, MessageType DEF CallType, Asking
      <4>2. /\ active' = active
            /\ messages' = Append(messages, Ai(call[h].session, call[h].question))
        BY <1>12, <3>1 DEF Fail, ShowError
      <4>3. QED
        BY <1>0, <4>1, <4>2
    <3>2. CASE call[h].op # "send"
      <4>1. \/ active' = None /\ messages' = <<>>
            \/ active' = active /\ messages' = <<>>
            \/ active' = active /\ messages' = messages
        BY <1>12, <3>2 DEF Fail, ShowError
      <4>2. CASE active' = None /\ messages' = <<>>
        BY <4>2
      <4>3. CASE active' = active /\ messages' = <<>>
        BY <1>0, <4>3
      <4>4. CASE active' = active /\ messages' = messages
        BY <1>0, <4>4
      <4>5. QED
        BY <4>1, <4>2, <4>3, <4>4
    <3>3. QED
      BY <3>1, <3>2
  <2>5. isLoading' \in BOOLEAN
    BY <1>0, <1>12 DEF Fail, LoadingAfter
  <2>6. QED
    BY <1>0, <1>12, <2>3, <2>4, <2>5 DEF Fail
<1>13. QED
  BY <1>2, <1>3, <1>4, <1>5, <1>6, <1>7, <1>8, <1>9, <1>10, <1>11, <1>12

\* All that the client holds has its type, through any calls and failures.
THEOREM TypeCorrect == Spec => []UiType
<1>1. Init => UiType
  BY UiTypeInit
<1>2. UiType /\ [Next]_vars => UiType'
  BY UiTypeStep
<1>3. QED
  BY <1>1, <1>2, PTL DEF Spec

----------------------------------------------------------------------------
(* Calls in flight *)

Moving == {"sent", "served", "listing", "listed"}

\* A call that starts is in flight with those before it.
LEMMA BeginInFlight ==
  ASSUME UiType, NEW h \in Calls, NEW c, Begin(h, c)
  PROVE  /\ h \notin InFlight /\ InFlight' = InFlight \cup {h}
         /\ pc'[h] = "sent" /\ call'[h] = c /\ reply' = reply
         /\ \A g \in Calls \ {h} : pc'[g] = pc[g] /\ call'[g] = call[g]
<1>1. pc[h] = "idle" /\ pc'[h] = "sent" /\ call'[h] = c /\ reply' = reply
  BY DEF UiType, Begin, Goto
<1>2. \A g \in Calls \ {h} : pc'[g] = pc[g] /\ call'[g] = call[g]
  BY DEF UiType, Begin, Goto
<1>3. QED
  BY <1>1, <1>2 DEF InFlight

\* A call that goes on leaves the others where they are.
LEMMA GotoInFlight ==
  ASSUME UiType, NEW h \in Calls, NEW step \in Steps, Goto(h, step)
  PROVE  /\ pc'[h] = step
         /\ \A g \in Calls \ {h} : pc'[g] = pc[g]
         /\ InFlight' = IF step \in Moving THEN InFlight \cup {h} ELSE InFlight \ {h}
<1>1. pc'[h] = step /\ \A g \in Calls \ {h} : pc'[g] = pc[g]
  BY DEF UiType, Goto
<1>2. QED
  BY <1>1 DEF InFlight, Moving

\* The answer to a call, or its failure, may only end it.
LEMMA SettledInFlight ==
  ASSUME UiType, NEW h \in Calls, Arrive(h) \/ Fail(h)
  PROVE  /\ h \in InFlight /\ call[h].op \in Changing \cup Asking
         /\ call' = call /\ reply' = reply /\ Settle(h)
         /\ pc[h] \in {"sent", "served"}
         /\ pc'[h] \in {"listing", "given up", "done"}
         /\ \A g \in Calls \ {h} : pc'[g] = pc[g]
         /\ InFlight' \in {InFlight, InFlight \ {h}}
         /\ Arrive(h) /\ call[h].op # "select" => InFlight' = InFlight
         /\ Fail(h) => InFlight' = InFlight \ {h}
<1>1. h \in InFlight /\ pc[h] \in {"sent", "served"}
  BY DEF Arrive, Fail, InFlight
<1>2. call[h].op \in Changing \cup Asking
  BY <1>1 DEF UiType, CallType
<1>3. CASE Arrive(h)
  <2>1. PICK step \in {"listing", "done"} :
          Goto(h, step) /\ (call[h].op # "select" => step = "listing")
    BY <1>3 DEF Arrive
  <2>2. step \in Steps
    BY DEF Steps
  <2>3. pc'[h] = step /\ \A g \in Calls \ {h} : pc'[g] = pc[g]
    BY <2>1, <2>2, GotoInFlight
  <2>4. InFlight' = IF step = "listing" THEN InFlight \cup {h} ELSE InFlight \ {h}
    BY <2>1, <2>2, GotoInFlight DEF Moving
  <2>5. Fail(h) => step = "done"
    BY <2>1, <2>3 DEF Fail, Goto, UiType
  <2>6. InFlight' \in {InFlight, InFlight \ {h}} /\ (step = "done" => InFlight' = InFlight \ {h})
        /\ (step = "listing" => InFlight' = InFlight)
    BY <1>1, <2>4
  <2>7. QED
    BY <1>1, <1>2, <1>3, <2>1, <2>3, <2>5, <2>6 DEF Arrive
<1>4. CASE Fail(h)
  <2>1. PICK step \in {"given up", "done"} : Goto(h, step)
    BY <1>4 DEF Fail
  <2>2. step \in Steps
    BY DEF Steps
  <2>3. /\ pc'[h] = step /\ \A g \in Calls \ {h} : pc'[g] = pc[g]
        /\ InFlight' = InFlight \ {h}
    BY <2>1, <2>2, GotoInFlight DEF Moving
  <2>4. Arrive(h) => call[h].op = "select"
    BY <2>3 DEF Arrive, Goto, UiType
  <2>5. QED
    BY <1>1, <1>2, <1>4, <2>3, <2>4 DEF Fail
<1>5. QED
  BY <1>3, <1>4

\* The steps of the server, and of the list, that leave the history as it is.
LEMMA ServedInFlight ==
  ASSUME UiType, NEW h \in Calls, Serve(h) \/ ServeLate(h) \/ ServeList(h) \/ List(h)
  PROVE  /\ call' = call /\ UNCHANGED history
         /\ \A g \in Calls \ {h} : pc'[g] = pc[g]
         /\ ~List(h) => InFlight' = InFlight
         /\ List(h) => h \in InFlight /\ InFlight' = InFlight \ {h}
<1>1. CASE Serve(h)
  <2>1. pc[h] = "sent" /\ Goto(h, "served") /\ "served" \in Steps \cap Moving
    BY <1>1 DEF Serve, Steps, Moving
  <2>2. QED
    BY <1>1, <2>1, GotoInFlight DEF Serve, InFlight, List, Goto, UiType
<1>2. CASE ServeLate(h)
  <2>1. pc[h] = "given up" /\ Goto(h, "done") /\ "done" \in Steps \ Moving
    BY <1>2 DEF ServeLate, Steps, Moving
  <2>2. QED
    BY <1>2, <2>1, GotoInFlight DEF ServeLate, InFlight, List
<1>3. CASE ServeList(h)
  <2>1. pc[h] = "listing" /\ Goto(h, "listed") /\ "listed" \in Steps \cap Moving
    BY <1>3 DEF ServeList, Steps, Moving
  <2>2. QED
    BY <1>3, <2>1, GotoInFlight DEF ServeList, InFlight, List, Goto, UiType
<1>4. CASE List(h)
  <2>1. pc[h] \in {"listing", "listed"} /\ Goto(h, "done") /\ "done" \in Steps \ Moving
    BY <1>4 DEF List, Steps, Moving
  <2>2. QED
    BY <1>4, <2>1, GotoInFlight DEF List, InFlight
<1>5. QED
  BY <1>1, <1>2, <1>3, <1>4

\* A handler that starts, and what it starts.
LEMMA StartedCall ==
  ASSUME NEW h \in Calls,
         \/ NewChat(h) \/ SelectSession(h) \/ DeleteSession(h)
         \/ SendMessage(h) \/ Regenerate(h)
  PROVE  \E c : /\ Begin(h, c)
                /\ c.op \in Changing \/ c.op \in Asking
                /\ c.op \in Asking => isLoading' = TRUE
                /\ c.op \in Changing => isLoading' = isLoading
<1>1. CASE NewChat(h)
  BY <1>1 DEF NewChat, view, Changing, Asking
<1>2. CASE SelectSession(h)
  BY <1>2 DEF SelectSession, Changing, Asking
<1>3. CASE DeleteSession(h)
  BY <1>3 DEF DeleteSession, view, Changing, Asking
<1>4. CASE SendMessage(h)
  <2> DEFINE c == [op |-> "send", session |-> active, question |-> h]
  <2>1. Begin(h, c) /\ c.op = "send" /\ isLoading' = TRUE
    BY <1>4 DEF SendMessage
  <2> HIDE DEF c
  <2>2. QED
    BY <2>1 DEF Changing, Asking
<1>5. CASE Regenerate(h)
  <2>1. PICK i : Begin(h, [op |-> "regenerate", session |-> active, question |-> messages[i].asked])
    BY <1>5 DEF Regenerate
  <2> DEFINE c == [op |-> "regenerate", session |-> active, question |-> messages[i].asked]
  <2>2. Begin(h, c) /\ c.op = "regenerate" /\ isLoading' = TRUE
    BY <1>5, <2>1 DEF Regenerate
  <2> HIDE DEF c
  <2>3. QED
    BY <2>2 DEF Changing, Asking
<1>6. QED
  BY <1>1, <1>2, <1>3, <1>4, <1>5

\* A new chat or a selection that clears the history is alone in flight.
LEMMA ClearedAlone ==
  ASSUME UiType, Apart, NEW h \in Calls, h \in InFlight, Settle(h)
  PROVE  \/ crossed' = crossed /\ doubled' = doubled /\ overlapped' = overlapped
         \/ ~overlapped /\ InFlight = {h} /\ call[h].op \in {"new", "select"}
<1>1. CASE call[h].op \in {"new", "select"} /\ ~overlapped
  BY <1>1 DEF Apart, InFlight
<1>2. CASE ~(call[h].op \in {"new", "select"} /\ ~overlapped)
  BY <1>2 DEF Settle, UiType
<1>3. QED
  BY <1>1, <1>2

LEMMA ApartStep ==
  ASSUME UiType, Apart, [Next]_vars
  PROVE  Apart'
<1>1. CASE UNCHANGED vars
  BY <1>1 DEF Apart, InFlight, vars, history
<1> SUFFICES ASSUME NEW h \in Calls,
                    \/ NewChat(h) \/ SelectSession(h) \/ DeleteSession(h) \/ SendMessage(h)
                    \/ Regenerate(h) \/ Serve(h) \/ ServeLate(h) \/ ServeList(h)
                    \/ Arrive(h) \/ List(h) \/ Fail(h)
             PROVE  Apart'
  BY <1>1 DEF Next
<1> SUFFICES ASSUME NEW g \in InFlight', NEW k \in InFlight', g # k
             PROVE  /\ overlapped'
                    /\ call'[g].op \in Changing => crossed'
                    /\ call'[g].op \in Asking /\ call'[k].op \in Asking => doubled'
  BY DEF Apart
<1>2. CASE NewChat(h) \/ SelectSession(h) \/ DeleteSession(h) \/ SendMessage(h) \/ Regenerate(h)
  <2>1. PICK c : Begin(h, c)
    BY <1>2, StartedCall
  <2>2. /\ g \in InFlight \cup {h} /\ k \in InFlight \cup {h}
        /\ call'[h] = c /\ \A x \in InFlight : call'[x] = call[x]
    BY <2>1, BeginInFlight DEF InFlight
  <2>3. /\ overlapped' = (InFlight # {})
        /\ crossed' = (crossed \/ \E x \in InFlight : c.op \in Changing \/ call[x].op \in Changing)
        /\ doubled' = (doubled \/ (c.op \in Asking /\ \E x \in InFlight : call[x].op \in Asking))
    BY <2>1 DEF Begin
  <2>4. CASE g \in InFlight /\ k \in InFlight
    BY <2>2, <2>3, <2>4 DEF Apart
  <2>5. CASE g = h
    BY <2>2, <2>3, <2>5
  <2>6. CASE k = h
    BY <2>2, <2>3, <2>6
  <2>7. QED
    BY <2>2, <2>4, <2>5, <2>6
<1>3. CASE Serve(h) \/ ServeLate(h) \/ ServeList(h) \/ List(h)
  <2>1. g \in InFlight /\ k \in InFlight /\ call' = call /\ UNCHANGED history
    BY <1>3, ServedInFlight
  <2>2. QED
    BY <2>1 DEF Apart, history
<1>4. CASE Arrive(h) \/ Fail(h)
  <2>1. g \in InFlight /\ k \in InFlight /\ h \in InFlight /\ call' = call /\ Settle(h)
    BY <1>4, SettledInFlight
  <2>2. crossed' = crossed /\ doubled' = doubled /\ overlapped' = overlapped
    BY <2>1, ClearedAlone
  <2>3. QED
    BY <2>1, <2>2 DEF Apart
<1>5. QED
  BY <1>2, <1>3, <1>4

----------------------------------------------------------------------------
(* The typing indicator *)

\* A call that does not ask may come or go without a change to the wait.
LEMMA WaitingSame ==
  ASSUME NEW h \in Calls, call[h].op \notin Asking, call' = call,
         InFlight' \in {InFlight, InFlight \ {h}}
  PROVE  Waiting' <=> Waiting
  BY DEF Waiting

LEMMA LoadingStep ==
  ASSUME UiType, Apart, Loading, [Next]_vars
  PROVE  Loading'
<1> USE DEF Loading
<1>1. CASE UNCHANGED vars
  BY <1>1 DEF Waiting, InFlight, vars, view, history
<1> SUFFICES ASSUME NEW h \in Calls,
                    \/ NewChat(h) \/ SelectSession(h) \/ DeleteSession(h) \/ SendMessage(h)
                    \/ Regenerate(h) \/ Serve(h) \/ ServeLate(h) \/ ServeList(h)
                    \/ Arrive(h) \/ List(h) \/ Fail(h)
             PROVE  Loading'
  BY <1>1 DEF Next
<1>2. CASE NewChat(h) \/ SelectSession(h) \/ DeleteSession(h) \/ SendMessage(h) \/ Regenerate(h)
  <2>1. PICK c : /\ Begin(h, c)
                 /\ c.op \in Changing \/ c.op \in Asking
                 /\ c.op \in Asking => isLoading' = TRUE
                 /\ c.op \in Changing => isLoading' = isLoading
    BY <1>2, StartedCall
  <2>2. /\ InFlight' = InFlight \cup {h} /\ h \notin InFlight
        /\ call'[h] = c /\ \A x \in InFlight : call'[x] = call[x]
    BY <2>1, BeginInFlight DEF InFlight
  <2>3. CASE c.op \in Asking
    BY <2>1, <2>2, <2>3 DEF Waiting
  <2>4. CASE c.op \in Changing
    <3>1. c.op \notin Asking
      BY <2>4 DEF Changing, Asking
    <3>2. (Waiting' <=> Waiting) /\ doubled' = doubled
      BY <2>1, <2>2, <3>1 DEF Waiting, Begin, UiType
    <3>3. QED
      BY <2>1, <2>4, <3>2
  <2>5. QED
    BY <2>1, <2>3, <2>4
<1>3. CASE Serve(h) \/ ServeLate(h) \/ ServeList(h)
  <2>1. ~List(h)
    BY <1>3 DEF Serve, ServeLate, ServeList, List, Goto, UiType
  <2>2. InFlight' = InFlight /\ call' = call /\ doubled' = doubled
    BY <1>3, <2>1, ServedInFlight DEF history
  <2>3. isLoading' = isLoading
    BY <1>3 DEF Serve, ServeLate, ServeList, view
  <2>4. QED
    BY <2>2, <2>3 DEF Waiting
<1>4. CASE List(h)
  <2>1. h \in InFlight /\ InFlight' = InFlight \ {h} /\ call' = call /\ doubled' = doubled
    BY <1>4, ServedInFlight DEF history
  <2>2. CASE call[h].op \in Asking
    <3>1. isLoading' = FALSE
      BY <1>4, <2>2 DEF List, LoadingAfter
    <3>2. Waiting' => doubled
      BY <2>1, <2>2 DEF Waiting, Apart
    <3>3. QED
      BY <2>1, <3>1, <3>2
  <2>3. CASE call[h].op \notin Asking
    <3>1. isLoading' = isLoading
      BY <1>4, <2>3 DEF List, LoadingAfter
    <3>2. QED
      BY <2>1, <2>3, <3>1, WaitingSame
  <2>4. QED
    BY <2>2, <2>3
<1>5. CASE Arrive(h) \/ Fail(h)
  <2>1. /\ h \in InFlight /\ call' = call /\ InFlight' \in {InFlight, InFlight \ {h}}
        /\ call[h].op \in Changing \cup Asking
        /\ \/ doubled' = doubled
           \/ InFlight = {h} /\ call[h].op \in {"new", "select"}
    BY <1>5, SettledInFlight, ClearedAlone
  <2>2. CASE call[h].op \notin Asking
    <3>1. isLoading' = isLoading
      BY <1>5, <2>2 DEF Arrive, Fail, LoadingAfter
    <3>2. Waiting' <=> Waiting
      BY <2>1, <2>2, WaitingSame
    <3>3. CASE doubled' = doubled
      BY <3>1, <3>2, <3>3
    <3>4. CASE InFlight = {h}
      <4>1. ~Waiting
        BY <2>2, <3>4 DEF Waiting
      <4>2. QED
        BY <3>1, <3>2, <4>1
    <3>5. QED
      BY <2>1, <3>3, <3>4
  <2>3. CASE call[h].op \in Asking
    <3>1. doubled' = doubled
      BY <2>1, <2>3 DEF Asking
    <3>2. CASE Arrive(h)
      <4>1. InFlight' = InFlight /\ isLoading' = isLoading
        BY <2>3, <3>2, SettledInFlight DEF Asking, Arrive
      <4>2. QED
        BY <2>1, <3>1, <4>1 DEF Waiting
    <3>3. CASE Fail(h)
      <4>1. InFlight' = InFlight \ {h} /\ isLoading' = FALSE
        BY <2>3, <3>3, SettledInFlight DEF Fail, LoadingAfter
      <4>2. Waiting' => doubled
        BY <2>1, <2>3, <4>1 DEF Waiting, Apart
      <4>3. QED
        BY <3>1, <4>1, <4>2
    <3>4. QED
      BY <1>5, <3>2, <3>3
  <2>4. QED
    BY <2>2, <2>3
<1>6. QED
  BY <1>2, <1>3, <1>4, <1>5

\* The typing indicator shows exactly while a call that asks is in flight, unless
\* two of these were in flight together since the display was last put right.
THEOREM IndicatorIsRight == Spec => []LoadingIsWaiting
<1>1. Init => UiType /\ Apart /\ Loading
  BY UiTypeInit DEF Init, Apart, Loading, Waiting, InFlight
<1>2. UiType /\ Apart /\ Loading /\ [Next]_vars => (UiType /\ Apart /\ Loading)'
  BY UiTypeStep, ApartStep, LoadingStep
<1>3. UiType /\ Apart /\ Loading => LoadingIsWaiting
  BY DEF Loading, Waiting, LoadingIsWaiting, UiType
<1>4. QED
  BY <1>1, <1>2, <1>3, PTL DEF Spec

----------------------------------------------------------------------------
(* How long a wait is *)

\* The steps a call still takes, with what the server does for it.
StepsLeft ==
  [step \in Steps |->
     CASE step = "idle"                    -> 5
       [] step = "sent"                    -> 4
       [] step = "served"                  -> 3
       [] step = "listing"                 -> 2
       [] step \in {"listed", "given up"} -> 1
       [] step = "done"                    -> 0]

\* Every step is one of a call that gets nearer to its end; the others stay.
CallsRunOut ==
  [][\E h \in Calls : /\ StepsLeft[pc'[h]] < StepsLeft[pc[h]]
                      /\ \A g \in Calls \ {h} : pc'[g] = pc[g]]_vars

\* No call goes back to a step it has taken.
LEMMA FewerSteps ==
  ASSUME UiType, Next
  PROVE  \E h \in Calls : /\ StepsLeft[pc'[h]] < StepsLeft[pc[h]]
                          /\ \A g \in Calls \ {h} : pc'[g] = pc[g]
<1>0. /\ \A to \in {"listing", "listed", "given up", "done"} :
           StepsLeft[to] < StepsLeft["served"] /\ StepsLeft["served"] < StepsLeft["sent"]
      /\ StepsLeft["sent"] < StepsLeft["idle"] /\ StepsLeft["given up"] < StepsLeft["sent"]
      /\ StepsLeft["listed"] < StepsLeft["listing"] /\ StepsLeft["done"] < StepsLeft["listing"]
      /\ StepsLeft["done"] < StepsLeft["listed"] /\ StepsLeft["done"] < StepsLeft["given up"]
  BY DEF StepsLeft, Steps
<1> SUFFICES ASSUME NEW h \in Calls,
                    \/ NewChat(h) \/ SelectSession(h) \/ DeleteSession(h) \/ SendMessage(h)
                    \/ Regenerate(h) \/ Serve(h) \/ ServeLate(h) \/ ServeList(h)
                    \/ Arrive(h) \/ List(h) \/ Fail(h)
             PROVE  /\ StepsLeft[pc'[h]] < StepsLeft[pc[h]]
                    /\ \A g \in Calls \ {h} : pc'[g] = pc[g]
  BY DEF Next
<1>1. CASE NewChat(h) \/ SelectSession(h) \/ DeleteSession(h) \/ SendMessage(h) \/ Regenerate(h)
  <2>1. PICK c : Begin(h, c)
    BY <1>1, StartedCall
  <2>2. /\ pc[h] = "idle" /\ pc'[h] = "sent"
        /\ \A g \in Calls \ {h} : pc'[g] = pc[g]
    BY <2>1, BeginInFlight DEF Begin
  <2>3. QED
    BY <1>0, <2>2
<1>2. CASE Serve(h) \/ ServeLate(h) \/ ServeList(h) \/ List(h)
  <2>1. \/ pc[h] = "sent" /\ pc'[h] = "served"
        \/ pc[h] = "given up" /\ pc'[h] = "done"
        \/ pc[h] = "listed" /\ pc'[h] = "done"
        \/ pc[h] = "listing" /\ pc'[h] = "listed"
        \/ pc[h] = "listing" /\ pc'[h] = "done"
    BY <1>2 DEF UiType, Serve, ServeLate, ServeList, List, Goto
  <2>2. \A g \in Calls \ {h} : pc'[g] = pc[g]
    BY <1>2, ServedInFlight
  <2>3. StepsLeft[pc'[h]] < StepsLeft[pc[h]]
    BY <1>0, <2>1
  <2>4. QED
    BY <2>2, <2>3
<1>3. CASE Arrive(h) \/ Fail(h)
  <2>1. \/ pc[h] = "served" /\ pc'[h] = "listing"
        \/ pc[h] = "served" /\ pc'[h] = "done"
        \/ pc[h] = "sent" /\ pc'[h] = "given up"
    BY <1>3 DEF UiType, Arrive, Fail, Goto
  <2>2. \A g \in Calls \ {h} : pc'[g] = pc[g]
    BY <1>3, SettledInFlight
  <2>3. StepsLeft[pc'[h]] < StepsLeft[pc[h]]
    BY <1>0, <2>1
  <2>4. QED
    BY <2>2, <2>3
<1>4. QED
  BY <1>1, <1>2, <1>3

\* The typing indicator never outlasts the calls that ask, not even when two of
\* them were in flight together, and no call is in flight for ever: each takes at
\* most five steps.
THEOREM WaitRunsOut == Spec => [](isLoading => Waiting) /\ CallsRunOut
<1>1. Init => UiType /\ Apart /\ Loading
  BY UiTypeInit DEF Init, Apart, Loading, Waiting, InFlight
<1>2. UiType /\ Apart /\ Loading /\ [Next]_vars => (UiType /\ Apart /\ Loading)'
  BY UiTypeStep, ApartStep, LoadingStep
<1>3. Loading => (isLoading => Waiting)
  BY DEF Loading
<1>4. UiType /\ [Next]_vars =>
        [\E h \in Calls : /\ StepsLeft[pc'[h]] < StepsLeft[pc[h]]
                          /\ \A g \in Calls \ {h} : pc'[g] = pc[g]]_vars
  BY FewerSteps
<1>5. QED
  BY <1>1, <1>2, <1>3, <1>4, PTL DEF Spec, CallsRunOut

----------------------------------------------------------------------------
(* What is on display *)

\* The two properties of the display, in terms of sequences.
LEMMA DisplayProperties ==
  /\ ShowsOneConversation <=> (~crossed /\ Selecting = {} => OfSession(messages, active))
  /\ AnswerFollowsItsQuestion <=> (~crossed /\ ~doubled => Paired(messages))
  /\ ShowsOneConversation' <=> (~crossed' /\ Selecting' = {} => OfSession(messages', active'))
  /\ AnswerFollowsItsQuestion' <=> (~crossed' /\ ~doubled' => Paired(messages'))
  BY DEF ShowsOneConversation, AnswerFollowsItsQuestion, OfSession, Paired

\* A handler that starts keeps the display in order, when it adds or cuts so.
LEMMA BeginDisplay ==
  ASSUME UiType, Display, NEW h \in Calls, NEW c, Begin(h, c),
         c.op \in Changing \cup Asking,
         active' = IF c.op = "select" THEN c.session ELSE active,
         ~crossed' /\ c.op \in Asking =>
           /\ c.session = active /\ messages' # <<>>
           /\ messages'[Len(messages')] = Human(c.session, c.question),
         Paired(messages) => Paired(messages'),
         c.op # "select" /\ OfSession(messages, active) => OfSession(messages', active')
  PROVE  Display'
<1>0. Changing \cap Asking = {} /\ "select" \in Changing
  BY DEF Changing, Asking
<1>1. /\ h \notin InFlight /\ InFlight' = InFlight \cup {h} /\ InFlight \subseteq Calls
      /\ pc'[h] = "sent" /\ call'[h] = c /\ reply' = reply
      /\ \A g \in Calls \ {h} : pc'[g] = pc[g] /\ call'[g] = call[g]
  BY BeginInFlight DEF InFlight
<1>2. /\ crossed => crossed'
      /\ doubled => doubled'
      /\ \A g \in InFlight : /\ overlapped'
                             /\ c.op \in Changing \/ call[g].op \in Changing => crossed'
                             /\ c.op \in Asking /\ call[g].op \in Asking => doubled'
  BY DEF Begin
<1>3. \A g \in Calls : pc'[g] \in {"sent", "served"} => g = h \/ g \in InFlight
  BY <1>1 DEF InFlight
<1>4. HistoryArrives'
  BY <1>1 DEF Display, HistoryArrives
<1>5. SelectionStands'
  <2> SUFFICES ASSUME NEW g \in Selecting', ~crossed' \/ ~overlapped'
               PROVE  call'[g].session = active'
    BY DEF SelectionStands
  <2>1. g \in Calls /\ call'[g].op = "select" /\ pc'[g] \in {"sent", "served"}
    BY DEF Selecting
  <2>2. g = h
    BY <1>0, <1>1, <1>2, <1>3, <2>1
  <2>3. QED
    BY <1>1, <2>1, <2>2
<1>6. AskedHere'
  <2> SUFFICES ASSUME NEW g \in InFlight', ~crossed', call'[g].op \in Asking
               PROVE  call'[g].session = active'
    BY DEF AskedHere
  <2>1. CASE g = h
    BY <1>0, <1>1, <2>1
  <2>2. CASE g # h
    <3>1. g \in InFlight /\ call'[g] = call[g] /\ ~crossed /\ c.op # "select"
      BY <1>0, <1>1, <1>2, <2>2
    <3>2. QED
      BY <3>1 DEF Display, AskedHere
  <2>3. QED
    BY <2>1, <2>2
<1>7. QuestionIsLast'
  <2> SUFFICES ASSUME NEW g \in Calls, ~crossed', ~doubled',
                      pc'[g] \in {"sent", "served"}, call'[g].op \in Asking
               PROVE  /\ messages' # <<>>
                      /\ messages'[Len(messages')] = Human(call'[g].session, call'[g].question)
    BY DEF QuestionIsLast
  <2>1. g = h
    BY <1>1, <1>2, <1>3
  <2>2. QED
    BY <1>1, <2>1
<1>8. ShowsOneConversation'
  <2>1. CASE c.op = "select"
    BY <1>1, <2>1, DisplayProperties DEF Selecting
  <2>2. CASE c.op # "select"
    <3>1. Selecting' = {} => Selecting = {}
      BY <1>1, <1>3 DEF Selecting, InFlight
    <3>2. QED
      BY <1>2, <2>2, <3>1, DisplayProperties DEF Display
  <2>3. QED
    BY <2>1, <2>2
<1>9. AnswerFollowsItsQuestion'
  BY <1>2, DisplayProperties DEF Display
<1>10. QED
  BY <1>4, <1>5, <1>6, <1>7, <1>8, <1>9 DEF Display

\* The handlers that start.
LEMMA StartDisplay ==
  ASSUME UiType, Display, NEW h \in Calls,
         \/ NewChat(h) \/ SelectSession(h) \/ DeleteSession(h)
         \/ SendMessage(h) \/ Regenerate(h)
  PROVE  Display'
<1>0. messages \in Seq(Message)
  BY DEF UiType
<1>1. CASE NewChat(h)
  <2> DEFINE c == [op |-> "new"]
  <2>1. Begin(h, c) /\ c.op = "new" /\ active' = active /\ messages' = messages
    BY <1>1 DEF NewChat, view
  <2> HIDE DEF c
  <2>2. QED
    BY <2>1, BeginDisplay DEF Changing, Asking
<1>2. CASE SelectSession(h)
  <2>1. PICK x \in sessions : Begin(h, [op |-> "select", session |-> x]) /\ active' = x
    BY <1>2 DEF SelectSession
  <2> DEFINE c == [op |-> "select", session |-> x]
  <2>2. /\ Begin(h, c) /\ c.op = "select" /\ c.session = x
        /\ active' = x /\ messages' = messages
    BY <1>2, <2>1 DEF SelectSession
  <2> HIDE DEF c
  <2>3. QED
    BY <2>2, BeginDisplay DEF Changing, Asking
<1>3. CASE DeleteSession(h)
  <2>1. PICK x \in sessions :
          Begin(h, [op |-> "delete", session |-> x, showing |-> (active = x)])
    BY <1>3 DEF DeleteSession
  <2> DEFINE c == [op |-> "delete", session |-> x, showing |-> (active = x)]
  <2>2. Begin(h, c) /\ c.op = "delete" /\ active' = active /\ messages' = messages
    BY <1>3, <2>1 DEF DeleteSession, view
  <2> HIDE DEF c
  <2>3. QED
    BY <2>2, BeginDisplay DEF Changing, Asking
<1>4. CASE SendMessage(h)
  <2> DEFINE c == [op |-> "send", session |-> active, question |-> h]
  <2>1. /\ Begin(h, c) /\ c.op = "send" /\ c.session = active /\ c.question = h
        /\ active' = active /\ messages' = Append(messages, Human(active, h))
    BY <1>4 DEF SendMessage
  <2> HIDE DEF c
  <2>2. Human(active, h) \in Message
    BY <1>4, MessageType DEF SendMessage, UiType, Question
  <2>3. /\ messages' \in Seq(Message) /\ messages' # <<>>
        /\ messages'[Len(messages')] = Human(active, h)
        /\ DOMAIN messages' = 1 .. Len(messages) + 1
        /\ \A i \in 1 .. Len(messages) : messages'[i] = messages[i]
        /\ Len(messages') = Len(messages) + 1
    BY <1>0, <2>1, <2>2
  <2>4. OfSession(messages, active) => OfSession(messages', active')
    BY <1>0, <2>1, <2>3, PairOfMessages DEF OfSession
  <2>5. Paired(messages) => Paired(messages')
    BY <1>0, <2>1, AppendHuman
  <2>6. QED
    BY <2>1, <2>3, <2>4, <2>5, BeginDisplay DEF Changing, Asking
<1>5. CASE Regenerate(h)
  <2>1. PICK i \in DOMAIN messages \ Answers :
          /\ Begin(h, [op |-> "regenerate", session |-> active, question |-> messages[i].asked])
          /\ messages' = Kept(i)
    BY <1>5 DEF Regenerate
  <2> DEFINE c == [op |-> "regenerate", session |-> active, question |-> messages[i].asked]
  <2>2. /\ Begin(h, c) /\ c.op = "regenerate" /\ c.session = active
        /\ c.question = messages[i].asked
        /\ active' = active /\ messages' = Kept(i)
    BY <1>5, <2>1 DEF Regenerate
  <2> HIDE DEF c
  <2>3. /\ messages' # <<>> /\ messages'[Len(messages')] = messages[i]
        /\ \A j \in DOMAIN messages' : j \in DOMAIN messages /\ messages'[j] = messages[j]
        /\ Paired(messages) => Paired(messages')
    BY <1>0, <2>2, KeptWell
  <2>4. OfSession(messages, active) => OfSession(messages', active')
    BY <2>2, <2>3 DEF OfSession
  <2>5. ASSUME ~crossed'
        PROVE  messages[i] = Human(active, messages[i].asked)
    <3>1. ~crossed /\ Selecting = {}
      <4>1. ~crossed /\ \A g \in InFlight : call[g].op \notin Changing
        BY <2>2, <2>5 DEF Begin
      <4>2. QED
        BY <4>1 DEF Selecting, InFlight, Changing
    <3>2. messages[i].in = active
      BY <2>1, <3>1, DisplayProperties DEF Display, OfSession
    <3>3. messages[i].type = "human" /\ messages[i] \in Message
      <4>1. messages[i] \in Message
        BY <1>0, <2>1
      <4>2. messages[i].type # "ai"
        BY <2>1 DEF Answers
      <4>3. messages[i].type \in {"human", "ai"}
        BY <4>1 DEF Message
      <4>4. QED
        BY <4>1, <4>2, <4>3
    <3>4. QED
      BY <3>2, <3>3 DEF Human, Message
  <2>6. QED
    BY <2>2, <2>3, <2>4, <2>5, BeginDisplay DEF Changing, Asking
<1>6. QED
  BY <1>1, <1>2, <1>3, <1>4, <1>5

\* The steps of the server, and of the list, that leave the display as it is.
LEMMA ServedDisplay ==
  ASSUME UiType, Display, NEW h \in Calls,
         Serve(h) \/ ServeLate(h) \/ ServeList(h) \/ List(h)
  PROVE  Display'
<1>1. /\ call' = call /\ UNCHANGED history
      /\ \A g \in Calls \ {h} : pc'[g] = pc[g]
      /\ InFlight' \subseteq InFlight
  BY ServedInFlight
<1>2. active' = active /\ messages' = messages
  BY DEF Serve, ServeLate, ServeList, List, view
<1>3. /\ pc'[h] = "served" => Serve(h)
      /\ pc'[h] \in {"sent", "served"} <=> pc[h] \in {"sent", "served"}
      /\ \A g \in Calls \ {h} : reply'[g] = reply[g]
  <2>1. CASE Serve(h)
    BY <2>1, ServedTyped DEF Serve, Goto, UiType
  <2>2. CASE ServeLate(h)
    <3>1. \A g \in Calls \ {h} : reply'[g] = reply[g]
      <4>1. CASE UNCHANGED <<server, reply>>
        BY <4>1
      <4>2. CASE Start(h) \/ Read(h) \/ Remove(h) \/ Reply(h)
        BY <4>2, ServedTyped
      <4>3. QED
        BY <2>2, <4>1, <4>2 DEF ServeLate
    <3>2. QED
      BY <2>2, <3>1 DEF ServeLate, Goto, UiType
  <2>3. CASE ServeList(h)
    BY <2>3 DEF ServeList, Goto, Answer, UiType
  <2>4. CASE List(h)
    BY <2>4 DEF List, Goto, UiType
  <2>5. QED
    BY <2>1, <2>2, <2>3, <2>4
<1>4. Selecting' = Selecting
  BY <1>1, <1>3 DEF Selecting
<1>5. HistoryArrives'
  <2> SUFFICES ASSUME NEW g \in Calls, pc'[g] = "served", call'[g].op = "select"
               PROVE  OfSession(reply'[g], call'[g].session) /\ Paired(reply'[g])
    BY DEF HistoryArrives
  <2>1. CASE g = h
    BY <1>1, <1>3, <2>1, ServedTyped DEF Serve
  <2>2. CASE g # h
    BY <1>1, <1>3, <2>2 DEF Display, HistoryArrives
  <2>3. QED
    BY <2>1, <2>2
<1>6. SelectionStands' /\ AskedHere'
  BY <1>1, <1>2, <1>4 DEF Display, SelectionStands, AskedHere, history
<1>7. QuestionIsLast'
  BY <1>1, <1>2, <1>3 DEF Display, QuestionIsLast, history
<1>8. ShowsOneConversation' /\ AnswerFollowsItsQuestion'
  BY <1>1, <1>2, <1>4, DisplayProperties DEF Display, history
<1>9. QED
  BY <1>5, <1>6, <1>7, <1>8 DEF Display

LEMMA EmptyDisplay ==
  ASSUME NEW c
  PROVE  OfSession(<<>>, c) /\ Paired(<<>>)
<1>1. DOMAIN <<>> = {}
  OBVIOUS
<1>2. QED
  BY <1>1 DEF OfSession, Paired

\* The end of a call that changes the session: any other call that is in flight
\* was crossed by it, so only what is on display counts.
LEMMA ChangedDisplay ==
  ASSUME UiType, Apart, Display, NEW h \in Calls, Arrive(h) \/ Fail(h),
         call[h].op \in Changing,
         ~crossed' /\ Selecting' = {} => OfSession(messages', active'),
         ~crossed' /\ ~doubled' => Paired(messages')
  PROVE  Display'
<1>0. call[h].op \notin Asking
  BY DEF Changing, Asking
<1>1. /\ h \in InFlight /\ call' = call /\ reply' = reply /\ Settle(h)
      /\ pc'[h] \notin {"sent", "served"}
      /\ \A g \in Calls \ {h} : pc'[g] = pc[g]
      /\ InFlight' \subseteq InFlight
  BY SettledInFlight
<1>2. \A g \in InFlight \ {h} : overlapped' /\ crossed'
  BY <1>1, ClearedAlone DEF Apart
<1>3. \A g \in Calls : pc'[g] \in {"sent", "served"} => g \in InFlight \ {h}
  BY <1>1 DEF InFlight
<1>4. HistoryArrives'
  BY <1>1 DEF Display, HistoryArrives
<1>5. SelectionStands'
  BY <1>2, <1>3 DEF SelectionStands, Selecting
<1>6. AskedHere'
  BY <1>0, <1>1, <1>2 DEF AskedHere
<1>7. QuestionIsLast'
  BY <1>2, <1>3 DEF QuestionIsLast
<1>8. QED
  BY <1>4, <1>5, <1>6, <1>7, DisplayProperties DEF Display

\* The end of a call that asks, with an answer or without.
LEMMA AskedDisplay ==
  ASSUME UiType, Apart, Display, NEW h \in Calls, Arrive(h) \/ Fail(h),
         call[h].op \in Asking, active' = active,
         \/ messages' = messages
         \/ messages' = Append(messages, Ai(call[h].session, call[h].question))
  PROVE  Display'
<1> DEFINE a == Ai(call[h].session, call[h].question)
<1>1. /\ h \in InFlight /\ call' = call /\ reply' = reply /\ Settle(h)
      /\ pc[h] \in {"sent", "served"} /\ pc'[h] \notin {"sent", "served"}
      /\ \A g \in Calls \ {h} : pc'[g] = pc[g]
      /\ InFlight' \subseteq InFlight
  BY SettledInFlight
<1>2. crossed' = crossed /\ doubled' = doubled /\ overlapped' = overlapped
  BY <1>1, ClearedAlone DEF Asking
<1>3. Selecting' = Selecting
  BY <1>1 DEF Selecting, Asking
<1>4. HistoryArrives'
  BY <1>1 DEF Display, HistoryArrives
<1>5. SelectionStands' /\ AskedHere'
  BY <1>1, <1>2, <1>3 DEF Display, SelectionStands, AskedHere
<1>6. QuestionIsLast'
  <2> SUFFICES ASSUME NEW g \in Calls, pc'[g] \in {"sent", "served"}, call'[g].op \in Asking
               PROVE  doubled'
    BY DEF QuestionIsLast
  <2>1. g \in InFlight /\ g # h /\ call[g].op \in Asking
    BY <1>1 DEF InFlight
  <2>2. QED
    BY <1>1, <1>2, <2>1 DEF Apart
<1>7. CASE messages' = messages
  BY <1>2, <1>3, <1>4, <1>5, <1>6, <1>7, DisplayProperties DEF Display
<1>8. CASE messages' = Append(messages, a)
  <2>1. messages \in Seq(Message) /\ a \in Message
    BY MessageType DEF UiType, CallType
  <2>2. /\ DOMAIN messages' = 1 .. Len(messages) + 1 /\ DOMAIN messages = 1 .. Len(messages)
        /\ messages'[Len(messages) + 1] = a
        /\ \A i \in 1 .. Len(messages) : messages'[i] = messages[i]
        /\ Len(messages) \in Nat
    BY <1>8, <2>1
  <2>3. ASSUME ~crossed, Selecting = {}
        PROVE  OfSession(messages', active')
    <3>1. OfSession(messages, active)
      BY <2>3, DisplayProperties DEF Display
    <3>2. a.in = active
      BY <1>1, <2>3, PairOfMessages DEF Display, AskedHere
    <3>3. QED
      BY <2>2, <3>1, <3>2 DEF OfSession
  <2>4. ASSUME ~crossed, ~doubled
        PROVE  Paired(messages')
    <3>1. /\ messages # <<>>
          /\ messages[Len(messages)] = Human(call[h].session, call[h].question)
      BY <1>1, <2>4 DEF Display, QuestionIsLast
    <3>2. Paired(messages)
      BY <2>4, DisplayProperties DEF Display
    <3>3. QED
      BY <1>8, <2>1, <3>1, <3>2, AppendAi
  <2>5. QED
    BY <1>2, <1>3, <1>4, <1>5, <1>6, <2>3, <2>4, DisplayProperties DEF Display
<1>9. QED
  BY <1>7, <1>8

\* An answer that arrives.
LEMMA ArriveDisplay ==
  ASSUME UiType, Apart, Display, NEW h \in Calls, Arrive(h)
  PROVE  Display'
<1>0. /\ OfSession(<<>>, active') /\ Paired(<<>>)
      /\ h \in InFlight /\ Settle(h) /\ call[h].op \in Changing \cup Asking
  BY SettledInFlight, EmptyDisplay
<1>1. CASE call[h].op = "new"
  <2>1. messages' = <<>>
    BY <1>1 DEF Arrive, Show, Asking
  <2>2. QED
    BY <1>0, <1>1, <2>1, ChangedDisplay DEF Changing
<1>2. CASE call[h].op = "select"
  <2>1. messages' = reply[h] /\ active' = active /\ h \in Selecting /\ pc[h] = "served"
    BY <1>2 DEF Arrive, Show, Asking, Selecting
  <2>2. OfSession(reply[h], call[h].session) /\ Paired(reply[h])
    BY <1>2, <2>1 DEF Display, HistoryArrives
  <2>3. ~crossed' => call[h].session = active
    BY <1>0, <2>1, ClearedAlone DEF Display, SelectionStands
  <2>4. QED
    BY <1>2, <2>1, <2>2, <2>3, ChangedDisplay DEF Changing
<1>3. CASE call[h].op = "delete"
  <2>1. \/ messages' = <<>>
        \/ active' = active /\ messages' = messages
    BY <1>3 DEF Arrive, Show, Asking
  <2>2. crossed' = crossed /\ doubled' = doubled
    BY <1>0, <1>3, ClearedAlone
  <2>3. Selecting' = Selecting
    BY <1>3, SettledInFlight DEF Selecting
  <2>4. /\ ~crossed' /\ Selecting' = {} => OfSession(messages', active')
        /\ ~crossed' /\ ~doubled' => Paired(messages')
    BY <1>0, <2>1, <2>2, <2>3, DisplayProperties DEF Display
  <2>5. QED
    BY <1>3, <2>4, ChangedDisplay DEF Changing
<1>4. CASE call[h].op \in Asking
  <2>1. /\ active' = active
        /\ messages' = Append(messages, Ai(call[h].session, call[h].question))
    BY <1>4 DEF Arrive, Show, Asking
  <2>2. QED
    BY <1>4, <2>1, AskedDisplay
<1>5. QED
  BY <1>0, <1>1, <1>2, <1>3, <1>4 DEF Changing

\* A failure.
LEMMA FailDisplay ==
  ASSUME UiType, Apart, Display, NEW h \in Calls, Fail(h)
  PROVE  Display'
<1>0. /\ OfSession(<<>>, active') /\ Paired(<<>>)
      /\ h \in InFlight /\ Settle(h) /\ call[h].op \in Changing \cup Asking
  BY SettledInFlight, EmptyDisplay
<1>1. CASE call[h].op \in {"new", "select"}
  <2>1. messages' = <<>>
    BY <1>1 DEF Fail, ShowError
  <2>2. QED
    BY <1>0, <1>1, <2>1, ChangedDisplay DEF Changing
<1>2. CASE call[h].op = "delete"
  <2>1. active' = active /\ messages' = messages
    BY <1>2 DEF Fail, ShowError
  <2>2. crossed' = crossed /\ doubled' = doubled
    BY <1>0, <1>2, ClearedAlone
  <2>3. Selecting' = Selecting
    BY <1>2, SettledInFlight DEF Selecting
  <2>4. /\ ~crossed' /\ Selecting' = {} => OfSession(messages', active')
        /\ ~crossed' /\ ~doubled' => Paired(messages')
    BY <2>1, <2>2, <2>3, DisplayProperties DEF Display
  <2>5. QED
    BY <1>2, <2>4, ChangedDisplay DEF Changing
<1>3. CASE call[h].op \in Asking
  <2>1. /\ active' = active
        /\ \/ messages' = messages
           \/ messages' = Append(messages, Ai(call[h].session, call[h].question))
    BY <1>3 DEF Fail, ShowError, Asking
  <2>2. QED
    BY <1>3, <2>1, AskedDisplay
<1>4. QED
  BY <1>0, <1>1, <1>2, <1>3 DEF Changing

LEMMA DisplayStep ==
  ASSUME UiType, Apart, Display, [Next]_vars
  PROVE  Display'
<1>1. CASE UNCHANGED vars
  BY <1>1 DEF Display, HistoryArrives, SelectionStands, AskedHere, QuestionIsLast,
              ShowsOneConversation, AnswerFollowsItsQuestion, Selecting, InFlight,
              vars, view, history
<1>2. ASSUME NEW h \in Calls,
             \/ NewChat(h) \/ SelectSession(h) \/ DeleteSession(h)
             \/ SendMessage(h) \/ Regenerate(h)
      PROVE  Display'
  BY <1>2, StartDisplay
<1>3. ASSUME NEW h \in Calls, Serve(h) \/ ServeLate(h) \/ ServeList(h) \/ List(h)
      PROVE  Display'
  BY <1>3, ServedDisplay
<1>4. ASSUME NEW h \in Calls, Arrive(h) \/ Fail(h)
      PROVE  Display'
  BY <1>4, ArriveDisplay, FailDisplay
<1>5. QED
  BY <1>1, <1>2, <1>3, <1>4 DEF Next

LEMMA DisplayInit ==
  ASSUME Init
  PROVE  Display
<1>1. messages = <<>> /\ pc = [h \in Calls |-> "idle"] /\ Selecting = {} /\ InFlight = {}
  BY DEF Init, Selecting, InFlight
<1>2. ShowsOneConversation /\ AnswerFollowsItsQuestion
  BY <1>1 DEF ShowsOneConversation, AnswerFollowsItsQuestion
<1>3. QED
  BY <1>1, <1>2 DEF Display, HistoryArrives, SelectionStands, AskedHere, QuestionIsLast

THEOREM DisplayCorrect == Spec => [](UiType /\ Apart /\ Display)
<1>1. Init => UiType /\ Apart /\ Display
  BY UiTypeInit, DisplayInit DEF Init, Apart, InFlight
<1>2. UiType /\ Apart /\ Display /\ [Next]_vars => (UiType /\ Apart /\ Display)'
  BY UiTypeStep, ApartStep, DisplayStep
<1>3. QED
  BY <1>1, <1>2, PTL DEF Spec

\* Once no selection waits for its history, every message on display is of the
\* active session, unless the session was changed while another call was in flight.
THEOREM OneConversationShown == Spec => []ShowsOneConversation
<1>1. Display => ShowsOneConversation
  BY DEF Display
<1>2. QED
  BY <1>1, DisplayCorrect, PTL

\* Every answer on display stands right after the question it answers, whatever
\* failed and was asked again, as long as calls do not cross.
THEOREM AnswersFollowQuestions == Spec => []AnswerFollowsItsQuestion
<1>1. Display => AnswerFollowsItsQuestion
  BY DEF Display
<1>2. QED
  BY <1>1, DisplayCorrect, PTL
=============================================================================
