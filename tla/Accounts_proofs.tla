--------------------------- MODULE Accounts_proofs ---------------------------
(***************************************************************************)
(* Proofs about Accounts, for any number of requests, accounts and         *)
(* addresses and any number of requests in flight, with and without        *)
(* failures.                                                               *)
(*                                                                         *)
(* First the types, together with what a request at each step has and      *)
(* that requests in flight together are remembered as overlapping.  The     *)
(* properties name the overlaps they do not survive; their invariants say   *)
(* what a request holds as long as there was no such overlap.              *)
(***************************************************************************)
EXTENDS Accounts, TLAPS

RegisterSteps == {"insert_settings", "insert_user"}
ChatSteps     == {"insert_session", "read_session", "insert_message"}
DeleteSteps   == {"delete_messages", "delete_sessions", "delete_settings", "delete_user"}

\* The steps of a request that found an account.
HeldSteps == {"save", "save_settings"} \cup ChatSteps \cup DeleteSteps

\* What a request has at each step: one that registers a new account, any other
\* one an account that is or was there.
CallOK(r) ==
  /\ pc[r] \notin {"idle", "done"} => call[r] \in Calls
  /\ pc[r] \in {"idle", "read", "done"} => id[r] = None
  /\ pc[r] \in RegisterSteps =>
       /\ call[r].op = "register"
       /\ id[r] \in Accounts /\ document[id[r]] = None
       /\ local[r] \in User /\ local[r].password = r
  /\ pc[r] \in HeldSteps => id[r] \in Accounts /\ document[id[r]] # None
  /\ pc[r] = "save" =>
       /\ call[r].op \in SaveDocument
       /\ local[r] \in User
       /\ call[r].op # "login" => local[r].password = r
  /\ pc[r] = "save_settings" => call[r].op = "update"
  /\ pc[r] \in ChatSteps => call[r].op \in {"create_chat", "message"}
  /\ pc[r] \in DeleteSteps => call[r].op = "delete"

\* Two registrations never have the same account.
NewApart ==
  \A r, q \in Requests :
    /\ pc[r] \in RegisterSteps /\ pc[q] \in RegisterSteps
    /\ id[r] = id[q]
    => r = q

\* What was in flight together is remembered.
Remembered ==
  \A r, q \in InFlight : r # q => {call[r].op, call[q].op} \in overlapped

TypeInv ==
  /\ TypeOK
  /\ \A r \in Requests : CallOK(r)
  /\ NewApart
  /\ Remembered
  /\ \A a \in deleted : document[a] # None

----------------------------------------------------------------------------
(* The invariants of the properties *)

\* PasswordIsLatest: a login that will write the document back holds the latest
\* password.
PasswordInv ==
  ~Overlapped(SetPassword, SaveDocument) =>
    /\ \A a \in users : document[a].password = latest[a]
    /\ \A r \in Requests :
         pc[r] = "save" /\ call[r].op = "login" => local[r].password = latest[id[r]]

\* EmailsStayUnique: an address stays free while it is being registered, and an
\* account keeps its own while its document is in hand.
EmailInv ==
  ~Overlapped({"register"}, {"register"}) /\ ~Overlapped({"delete"}, SaveDocument) =>
    /\ UniqueEmails
    /\ \A r \in Requests :
         /\ pc[r] \in RegisterSteps => \A a \in users : document[a].email # local[r].email
         /\ pc[r] = "save" => id[r] \in users /\ local[r].email = document[id[r]].email

\* NoOrphans: an account that is written to stays there, and one that is being
\* deleted loses what was deleted for good.
OrphanInv ==
  ~Overlapped({"delete"}, WriteBack) =>
    /\ deleted \cap (users \cup settings) = {}
    /\ messages \subseteq sessions
    /\ sessions \subseteq users
    /\ \A r \in Requests :
         /\ pc[r] \in HeldSteps \ DeleteSteps => id[r] \in users
         /\ pc[r] = "insert_message" => id[r] \in sessions
         /\ pc[r] \in DeleteSteps \ {"delete_messages"} => id[r] \notin messages
         /\ pc[r] \in {"delete_settings", "delete_user"} => id[r] \notin sessions
         /\ pc[r] = "delete_user" => id[r] \notin settings

----------------------------------------------------------------------------
(* What actions have in common *)

RequestType ==
  /\ call \in [Requests -> Calls \cup {NoCall}]
  /\ pc \in [Requests -> Steps]
  /\ id \in [Requests -> Accounts \cup {None}]
  /\ local \in [Requests -> User \cup {None}]

DbType ==
  /\ users \subseteq {a \in Accounts : document[a] # None}
  /\ document \in [Accounts -> User \cup {None}]
  /\ settings \subseteq Accounts
  /\ sessions \subseteq Accounts
  /\ messages \subseteq Accounts

HistoryType ==
  /\ latest \in [Accounts -> Requests \cup {Original}]
  /\ deleted \subseteq {a \in Accounts : document[a] # None}
  /\ overlapped \subseteq {{o, p} : o, p \in ByEmail \cup ById}

\* The type invariant in these parts.
LEMMA TypeParts ==
  TypeInv <=> /\ RequestType /\ DbType /\ HistoryType
              /\ \A r \in Requests : CallOK(r)
              /\ NewApart /\ Remembered
BY DEF TypeInv, TypeOK, RequestType, DbType, HistoryType

\* A step of one request leaves what the others have alone.
OthersStay(r) ==
  \A q \in Requests \ {r} :
    pc'[q] = pc[q] /\ call'[q] = call[q] /\ id'[q] = id[q] /\ local'[q] = local[q]

\* Documents are written by the request that has the account, and never go.
DocumentsStay(r) ==
  \A a \in Accounts : document'[a] = document[a] \/ (a = id[r] /\ document'[a] # None)

\* The parts of a call.
LEMMA CallType ==
  ASSUME NEW c \in Calls
  PROVE  /\ c.op \in ByEmail \cup ById
         /\ c.op \in ByEmail => c.email \in Emails
         /\ c.op \in ById => c.id \in Accounts
BY DEF Calls, ByEmail, ById

\* A request that goes on takes another step and keeps the rest.
LEMMA GotoEffect ==
  ASSUME RequestType, NEW r \in Requests, NEW step \in Steps, Goto(r, step)
  PROVE  /\ pc' \in [Requests -> Steps]
         /\ pc'[r] = step
         /\ \A q \in Requests \ {r} : pc'[q] = pc[q]
BY DEF RequestType, Goto

\* A request that is done has nothing more.
LEMMA DoneEffect ==
  ASSUME RequestType, NEW r \in Requests, Done(r)
  PROVE  /\ RequestType' /\ OthersStay(r)
         /\ pc'[r] = "done" /\ id'[r] = None
BY DEF RequestType, OthersStay, Done, Goto, Steps

\* What the other requests have stays right.
LEMMA OthersOK ==
  ASSUME TypeInv, NEW r \in Requests, OthersStay(r), DocumentsStay(r),
         pc[r] \in {"save", "insert_user"} \/ document' = document,
         CallOK(r)'
  PROVE  \A q \in Requests : CallOK(q)'
<1> SUFFICES ASSUME NEW q \in Requests \ {r}
             PROVE  CallOK(q)'
  OBVIOUS
<1>1. CallOK(q) /\ CallOK(r) /\ NewApart
  BY TypeParts
<1>2. pc'[q] = pc[q] /\ call'[q] = call[q] /\ id'[q] = id[q] /\ local'[q] = local[q]
  BY DEF OthersStay
<1>3. pc[q] \in HeldSteps => document'[id[q]] # None
  BY <1>1 DEF CallOK, DocumentsStay
<1>4. pc[q] \in RegisterSteps => document'[id[q]] = None
  <2>1. pc[r] = "save" => document[id[r]] # None
    BY <1>1 DEF CallOK, HeldSteps
  <2>2. pc[r] = "insert_user" /\ pc[q] \in RegisterSteps => id[r] # id[q]
    BY <1>1 DEF NewApart, RegisterSteps
  <2>3. QED
    BY <1>1, <2>1, <2>2 DEF CallOK, DocumentsStay
<1>5. QED
  BY <1>1, <1>2, <1>3, <1>4 DEF CallOK

\* Registrations stay apart as long as no other one begins.
LEMMA ApartStays ==
  ASSUME NewApart, NEW r \in Requests, OthersStay(r),
         \/ pc'[r] \notin RegisterSteps
         \/ pc[r] \in RegisterSteps /\ id'[r] = id[r]
  PROVE  NewApart'
BY DEF NewApart, OthersStay

\* What is in flight together was so before.
LEMMA RememberedStays ==
  ASSUME Remembered, NEW r \in Requests, OthersStay(r),
         overlapped \subseteq overlapped',
         pc'[r] = "done" \/ (pc[r] \notin {"idle", "done"} /\ call'[r] = call[r])
  PROVE  Remembered'
BY DEF Remembered, OthersStay, InFlight

\* What a step of a request has to keep.
Sound(r) ==
  /\ RequestType' /\ DbType' /\ HistoryType'
  /\ CallOK(r)' /\ OthersStay(r) /\ DocumentsStay(r)
  /\ pc[r] \in {"save", "insert_user"} \/ document' = document
  /\ NewApart' /\ Remembered'

\* A request that is done is right, and leaves the others right.
LEMMA DoneSound ==
  ASSUME TypeInv, NEW r \in Requests, Done(r), DbType', HistoryType',
         overlapped \subseteq overlapped', DocumentsStay(r),
         pc[r] \in {"save", "insert_user"} \/ document' = document
  PROVE  Sound(r)
<1>1. RequestType /\ NewApart /\ Remembered
  BY TypeParts
<1>2. RequestType' /\ OthersStay(r) /\ pc'[r] = "done" /\ id'[r] = None
  BY <1>1, DoneEffect
<1>3. CallOK(r)'
  BY <1>2 DEF CallOK, RegisterSteps, HeldSteps, ChatSteps, DeleteSteps
<1>4. NewApart' /\ Remembered'
  BY <1>1, <1>2, ApartStays, RememberedStays DEF RegisterSteps
<1>5. QED
  BY <1>2, <1>3, <1>4 DEF Sound

\* One that goes on with what it has stays right if it is at its next step.
LEMMA GoesOnSound ==
  ASSUME TypeInv, NEW r \in Requests, NEW step \in Steps, Goto(r, step),
         UNCHANGED <<call, id, local, document>>, DbType', UNCHANGED history,
         \/ pc[r] \in RegisterSteps /\ step \in RegisterSteps
         \/ pc[r] \in ChatSteps /\ step \in ChatSteps
         \/ pc[r] \in DeleteSteps /\ step \in DeleteSteps
  PROVE  Sound(r)
<1>1. RequestType /\ HistoryType /\ CallOK(r) /\ NewApart /\ Remembered
  BY TypeParts
<1>2. /\ pc' \in [Requests -> Steps] /\ pc'[r] = step
      /\ \A q \in Requests \ {r} : pc'[q] = pc[q]
  BY <1>1, GotoEffect
<1>3. RequestType' /\ OthersStay(r) /\ DocumentsStay(r) /\ HistoryType'
  BY <1>1, <1>2 DEF RequestType, OthersStay, DocumentsStay, HistoryType, history
<1>4. CallOK(r)'
  BY <1>1, <1>2 DEF CallOK, RegisterSteps, HeldSteps, ChatSteps, DeleteSteps
<1>5. NewApart' /\ Remembered'
  BY <1>1, <1>2, <1>3, ApartStays, RememberedStays
  DEF history, RegisterSteps, ChatSteps, DeleteSteps
<1>6. QED
  BY <1>3, <1>4, <1>5 DEF Sound

----------------------------------------------------------------------------
(* Type correctness: each action *)

\* A request that begins overlaps all that are in flight.
LEMMA BeginSound ==
  ASSUME TypeInv, NEW r \in Requests, Begin(r)
  PROVE  Sound(r) /\ overlapped \subseteq overlapped'
<1>1. RequestType /\ DbType /\ HistoryType /\ CallOK(r) /\ NewApart /\ Remembered /\ pc[r] = "idle"
  BY TypeParts DEF Begin
<1>2. /\ UNCHANGED <<users, document, settings, id, local, latest, deleted>>
      /\ UNCHANGED <<sessions, messages>>
  BY DEF Begin, chats
<1>3. /\ pc' \in [Requests -> Steps] /\ pc'[r] = "read"
      /\ \A q \in Requests \ {r} : pc'[q] = pc[q]
  BY <1>1, GotoEffect DEF Begin, Steps
<1>4. PICK c \in Calls :
        /\ call' = [call EXCEPT ![r] = c]
        /\ overlapped' = overlapped \cup {{c.op, call[q].op} : q \in InFlight}
  BY DEF Begin
<1>5. RequestType' /\ OthersStay(r) /\ call'[r] = c
  BY <1>1, <1>2, <1>3, <1>4 DEF RequestType, OthersStay
<1>6. \A q \in InFlight : call[q] \in Calls
  BY TypeParts DEF CallOK, InFlight
<1>7. overlapped' \subseteq {{o, p} : o, p \in ByEmail \cup ById}
  <2>1. \A q \in InFlight : c.op \in ByEmail \cup ById /\ call[q].op \in ByEmail \cup ById
    BY <1>6, CallType
  <2> DEFINE Pairs == {{o, p} : o, p \in ByEmail \cup ById}
  <2>2. \A q \in InFlight : {c.op, call[q].op} \in Pairs
    BY <2>1
  <2>3. overlapped \subseteq Pairs
    BY <1>1 DEF HistoryType
  <2> HIDE DEF Pairs
  <2>4. overlapped' \subseteq Pairs
    BY <1>4, <2>2, <2>3
  <2>5. QED
    BY <2>4 DEF Pairs
<1>8. DbType' /\ HistoryType'
  BY <1>1, <1>2, <1>7 DEF DbType, HistoryType
<1>9. CallOK(r)'
  BY <1>1, <1>2, <1>3, <1>5 DEF CallOK, RegisterSteps, HeldSteps, ChatSteps, DeleteSteps
<1>10. NewApart'
  BY <1>1, <1>3, <1>5, ApartStays DEF RegisterSteps
<1>11. Remembered'
  <2> SUFFICES ASSUME NEW x \in InFlight', NEW y \in InFlight', x # y
               PROVE  {call'[x].op, call'[y].op} \in overlapped'
    BY DEF Remembered
  <2>1. CASE x # r /\ y # r
    BY <1>1, <1>4, <1>5, <2>1 DEF Remembered, InFlight, OthersStay
  <2>2. CASE x = r
    <3>1. y \in InFlight /\ call'[y] = call[y]
      BY <1>5, <2>2 DEF InFlight, OthersStay
    <3>2. QED
      BY <1>4, <1>5, <2>2, <3>1
  <2>3. CASE y = r
    <3>1. x \in InFlight /\ call'[x] = call[x]
      BY <1>5, <2>3 DEF InFlight, OthersStay
    <3>2. {call'[x].op, call'[y].op} = {c.op, call[x].op}
      BY <1>5, <2>3, <3>1
    <3>3. QED
      BY <1>4, <3>1, <3>2
  <2>4. QED
    BY <2>1, <2>2, <2>3
<1>12. QED
  BY <1>1, <1>2, <1>4, <1>5, <1>8, <1>9, <1>10, <1>11 DEF Sound, DocumentsStay

\* The document in memory is the one that was read but for the password.
LEMMA EditedType ==
  ASSUME NEW r \in Requests, NEW doc \in User
  PROVE  /\ Edited(r, doc) \in User
         /\ Edited(r, doc).email = doc.email
         /\ Edited(r, doc).password =
              IF call[r].op \in {"change", "reset"} THEN r ELSE doc.password
BY DEF Edited, User

\* The step after the read suits the call.
LEMMA AfterReadType ==
  ASSUME NEW r \in Requests, call[r] \in Calls, call[r].op # "register"
  PROVE  /\ AfterRead(r) \in {"save", "save_settings", "delete_messages", "insert_session",
                              "read_session"}
         /\ AfterRead(r) = "save" => call[r].op \in SaveDocument
         /\ AfterRead(r) = "save_settings" => call[r].op = "update"
         /\ AfterRead(r) = "delete_messages" => call[r].op = "delete"
         /\ AfterRead(r) \in ChatSteps => call[r].op \in {"create_chat", "message"}
<1>1. call[r].op \in {"login", "change", "reset", "update", "delete", "create_chat", "message"}
  BY CallType DEF ByEmail, ById
<1>2. QED
  BY <1>1 DEF AfterRead, SaveDocument, SetPassword, ChatSteps

\* What a request has after it found its account.
LEMMA ReadUserEffect ==
  ASSUME TypeInv, NEW r \in Requests, ReadUser(r)
  PROVE  /\ call[r] \in Calls /\ call[r].op # "register" /\ pc[r] = "read"
         /\ id'[r] \in users /\ id'[r] \in Accounts /\ document[id'[r]] \in User
         /\ local'[r] = Edited(r, document[id'[r]])
         /\ pc'[r] = AfterRead(r)
         /\ RequestType' /\ OthersStay(r)
         /\ UNCHANGED <<users, document, settings, sessions, messages, call, latest, deleted,
                        overlapped>>
<1>1. /\ RequestType /\ DbType /\ CallOK(r) /\ pc[r] = "read" /\ call[r].op # "register"
      /\ UNCHANGED <<users, document, settings, sessions, messages, call, latest, deleted,
                     overlapped>>
  BY TypeParts DEF ReadUser, chats, history
<1>2. call[r] \in Calls
  BY <1>1 DEF CallOK
<1>3. /\ pc' \in [Requests -> Steps] /\ pc'[r] = AfterRead(r)
      /\ \A q \in Requests \ {r} : pc'[q] = pc[q]
  BY <1>1, <1>2, AfterReadType, GotoEffect DEF ReadUser, Steps
<1>4. PICK a \in Found(r) :
        /\ id' = [id EXCEPT ![r] = a]
        /\ local' = [local EXCEPT ![r] = Edited(r, document[a])]
  BY DEF ReadUser
<1>5. a \in users /\ a \in Accounts /\ document[a] \in User
  BY <1>1, <1>4 DEF Found, DbType
<1>6. id'[r] = a /\ local'[r] = Edited(r, document[a])
  BY <1>1, <1>4 DEF RequestType
<1>7. RequestType' /\ OthersStay(r)
  BY <1>1, <1>3, <1>4, <1>5, EditedType DEF RequestType, OthersStay
<1>8. QED
  BY <1>1, <1>2, <1>3, <1>5, <1>6, <1>7

\* It is right.
LEMMA ReadUserSound ==
  ASSUME TypeInv, NEW r \in Requests, ReadUser(r)
  PROVE  Sound(r)
<1>1. RequestType /\ DbType /\ HistoryType /\ CallOK(r) /\ NewApart /\ Remembered
  BY TypeParts
<1>2. /\ call[r] \in Calls /\ call[r].op # "register" /\ pc[r] = "read"
      /\ id'[r] \in Accounts /\ document[id'[r]] \in User /\ document[id'[r]] # None
      /\ local'[r] = Edited(r, document[id'[r]])
      /\ pc'[r] = AfterRead(r)
      /\ RequestType' /\ OthersStay(r)
      /\ UNCHANGED <<users, document, settings, sessions, messages, call, latest, deleted,
                     overlapped>>
  BY ReadUserEffect, NoneAssumption
<1>3. DbType' /\ HistoryType' /\ DocumentsStay(r)
  BY <1>1, <1>2 DEF DbType, HistoryType, DocumentsStay
<1>4. local'[r] \in User /\ (call[r].op \in {"change", "reset"} => local'[r].password = r)
  BY <1>2, EditedType
<1>5. CallOK(r)'
  BY <1>2, <1>4, AfterReadType
  DEF CallOK, RegisterSteps, HeldSteps, ChatSteps, DeleteSteps, SaveDocument, SetPassword
<1>6. NewApart' /\ Remembered'
  BY <1>1, <1>2, ApartStays, RememberedStays, AfterReadType DEF RegisterSteps
<1>7. QED
  BY <1>2, <1>3, <1>5, <1>6 DEF Sound

\* What a registration has after it found the address free.
LEMMA PrepareUserEffect ==
  ASSUME TypeInv, NEW r \in Requests, PrepareUser(r)
  PROVE  /\ call[r] \in Calls /\ call[r].op = "register" /\ pc[r] = "read"
         /\ pc'[r] = "insert_settings"
         /\ id'[r] \in Accounts /\ Fresh(id'[r])
         /\ local'[r] \in User /\ local'[r].password = r
         /\ \A a \in users : document[a].email # local'[r].email
         /\ RequestType' /\ OthersStay(r)
         /\ UNCHANGED <<users, document, settings, sessions, messages, call, latest, deleted,
                        overlapped>>
<1>1. /\ RequestType /\ CallOK(r) /\ pc[r] = "read" /\ call[r].op = "register"
      /\ UNCHANGED <<users, document, settings, sessions, messages, call, latest, deleted,
                     overlapped>>
  BY TypeParts DEF PrepareUser, chats, history
<1>2. call[r] \in Calls /\ call[r].email \in Emails
  BY <1>1, CallType DEF CallOK, ByEmail
<1>3. /\ pc' \in [Requests -> Steps] /\ pc'[r] = "insert_settings"
      /\ \A q \in Requests \ {r} : pc'[q] = pc[q]
  BY <1>1, GotoEffect DEF PrepareUser, Steps
<1> DEFINE doc == [email |-> call[r].email, password |-> r]
<1>4. PICK a \in Accounts : Fresh(a) /\ id' = [id EXCEPT ![r] = a]
  BY DEF PrepareUser
<1>5. local' = [local EXCEPT ![r] = doc]
  BY DEF PrepareUser
<1>6. doc \in User /\ doc.password = r /\ doc.email = call[r].email
  BY <1>2 DEF User
<1>7. id'[r] = a /\ local'[r] = doc
  BY <1>1, <1>4, <1>5 DEF RequestType
<1>8. \A x \in users : document[x].email # call[r].email
  BY <1>1 DEF PrepareUser, Found, ByEmail
<1>9. RequestType' /\ OthersStay(r)
  BY <1>1, <1>3, <1>4, <1>5, <1>6 DEF RequestType, OthersStay
<1>10. QED
  BY <1>1, <1>2, <1>3, <1>4, <1>6, <1>7, <1>8, <1>9

\* It is right, and apart from the others.
LEMMA PrepareUserSound ==
  ASSUME TypeInv, NEW r \in Requests, PrepareUser(r)
  PROVE  Sound(r)
<1>1. RequestType /\ DbType /\ HistoryType /\ NewApart /\ Remembered
  BY TypeParts
<1>2. /\ call[r] \in Calls /\ call[r].op = "register" /\ pc[r] = "read"
      /\ pc'[r] = "insert_settings"
      /\ id'[r] \in Accounts /\ document[id'[r]] = None
      /\ \A q \in Requests : id[q] # id'[r]
      /\ local'[r] \in User /\ local'[r].password = r
      /\ RequestType' /\ OthersStay(r)
      /\ UNCHANGED <<users, document, settings, sessions, messages, call, latest, deleted,
                     overlapped>>
  BY PrepareUserEffect DEF Fresh
<1>3. DbType' /\ HistoryType' /\ DocumentsStay(r)
  BY <1>1, <1>2 DEF DbType, HistoryType, DocumentsStay
<1>4. CallOK(r)'
  BY <1>2 DEF CallOK, RegisterSteps, HeldSteps, ChatSteps, DeleteSteps
<1>5. NewApart'
  BY <1>1, <1>2 DEF NewApart, OthersStay
<1>6. Remembered'
  BY <1>1, <1>2, RememberedStays
<1>7. QED
  BY <1>2, <1>3, <1>4, <1>5, <1>6 DEF Sound

\* A document that is written back is a user's.
LEMMA WrittenEffect ==
  ASSUME TypeInv, NEW r \in Requests, pc[r] \in {"save", "insert_user"}, Written(r)
  PROVE  /\ id[r] \in Accounts /\ local[r] \in User /\ local[r] # None
         /\ users' = users \cup {id[r]}
         /\ document' \in [Accounts -> User \cup {None}]
         /\ document'[id[r]] = local[r]
         /\ \A a \in Accounts \ {id[r]} : document'[a] = document[a]
         /\ DocumentsStay(r)
<1>1. DbType /\ CallOK(r)
  BY TypeParts
<1>2. id[r] \in Accounts /\ local[r] \in User /\ local[r] # None
  BY <1>1, NoneAssumption DEF CallOK, RegisterSteps, HeldSteps
<1>3. QED
  BY <1>1, <1>2 DEF Written, DbType, DocumentsStay

\* Both ways of writing it are right.
LEMMA WriteSound ==
  ASSUME TypeInv, NEW r \in Requests, InsertUser(r) \/ SaveUser(r)
  PROVE  Sound(r)
<1>1. DbType /\ HistoryType
  BY TypeParts
<1>2. /\ pc[r] \in {"save", "insert_user"} /\ Written(r) /\ Done(r)
      /\ UNCHANGED <<settings, sessions, messages, deleted, overlapped>>
      /\ latest' = latest \/ latest' = [latest EXCEPT ![id[r]] = r]
  BY DEF InsertUser, SaveUser, chats
<1>3. DocumentsStay(r) /\ document' \in [Accounts -> User \cup {None}]
  BY <1>2, WrittenEffect
<1>4. DbType'
  <2>1. \A a \in users' : a \in Accounts /\ document'[a] # None
    BY <1>1, <1>2, WrittenEffect DEF DbType
  <2>2. QED
    BY <1>1, <1>2, <1>3, <2>1 DEF DbType
<1>5. HistoryType'
  BY <1>1, <1>2, <1>3 DEF HistoryType, DocumentsStay
<1>6. QED
  BY <1>2, <1>3, <1>4, <1>5, DoneSound

\* A request that ends without writing a document is right.
LEMMA EndSound ==
  ASSUME TypeInv, NEW r \in Requests,
         \/ Refuse(r) \/ SaveSettings(r) \/ InsertSession(r) \/ DeleteUser(r) \/ Fail(r)
         \/ ReadSession(r) /\ id[r] \notin sessions
  PROVE  Sound(r)
<1>1. DbType /\ HistoryType /\ CallOK(r)
  BY TypeParts
<1>2. /\ Done(r) /\ document' = document
      /\ users' \subseteq users /\ messages' = messages
      /\ UNCHANGED <<latest, overlapped>>
  BY DEF Refuse, SaveSettings, InsertSession, DeleteUser, Fail, ReadSession, chats, history
<1>3. /\ settings' = settings \/ (pc[r] = "save_settings" /\ settings' = settings \cup {id[r]})
      /\ sessions' = sessions \/ (pc[r] = "insert_session" /\ sessions' = sessions \cup {id[r]})
      /\ deleted' = deleted \/ (pc[r] = "delete_user" /\ deleted' = deleted \cup {id[r]})
  BY DEF Refuse, SaveSettings, InsertSession, DeleteUser, Fail, ReadSession, chats, history
<1>4. pc[r] \in {"save_settings", "insert_session", "delete_user"} =>
        id[r] \in Accounts /\ document[id[r]] # None
  BY <1>1 DEF CallOK, HeldSteps, ChatSteps, DeleteSteps
<1>5. DbType' /\ HistoryType' /\ DocumentsStay(r)
  BY <1>1, <1>2, <1>3, <1>4 DEF DbType, HistoryType, DocumentsStay
<1>6. QED
  BY <1>2, <1>5, DoneSound

\* So is one that goes on.
LEMMA StepSound ==
  ASSUME TypeInv, NEW r \in Requests,
         \/ InsertSettings(r) \/ InsertMessage(r)
         \/ DeleteMessages(r) \/ DeleteSessions(r) \/ DeleteSettings(r)
         \/ ReadSession(r) /\ id[r] \in sessions
  PROVE  Sound(r)
<1>1. DbType /\ HistoryType /\ CallOK(r)
  BY TypeParts
<1>2. UNCHANGED <<call, id, local, document, users>> /\ UNCHANGED history
  BY DEF InsertSettings, InsertMessage, DeleteMessages, DeleteSessions, DeleteSettings,
         ReadSession
<1>3. PICK step \in Steps :
        /\ Goto(r, step)
        /\ \/ pc[r] \in RegisterSteps /\ step \in RegisterSteps
           \/ pc[r] \in ChatSteps /\ step \in ChatSteps
           \/ pc[r] \in DeleteSteps /\ step \in DeleteSteps
  BY DEF InsertSettings, InsertMessage, DeleteMessages, DeleteSessions, DeleteSettings,
         ReadSession, RegisterSteps, ChatSteps, DeleteSteps, Steps
<1>4. id[r] \in Accounts
  BY <1>1, <1>3 DEF CallOK, HeldSteps
<1>5. /\ settings' \subseteq settings \cup {id[r]}
      /\ sessions' \subseteq sessions
      /\ messages' \subseteq messages \cup {id[r]}
  BY DEF InsertSettings, InsertMessage, DeleteMessages, DeleteSessions, DeleteSettings,
         ReadSession, chats
<1>6. DbType'
  BY <1>1, <1>2, <1>4, <1>5 DEF DbType
<1>7. QED
  BY <1>2, <1>3, <1>6, GoesOnSound

----------------------------------------------------------------------------
(* Type correctness *)

\* The steps of one request.
RequestStep(r) ==
  \/ Begin(r) \/ ReadUser(r) \/ PrepareUser(r) \/ Refuse(r)
  \/ InsertSettings(r) \/ InsertUser(r) \/ SaveUser(r) \/ SaveSettings(r)
  \/ InsertSession(r) \/ ReadSession(r) \/ InsertMessage(r)
  \/ DeleteMessages(r) \/ DeleteSessions(r) \/ DeleteSettings(r) \/ DeleteUser(r)
  \/ Fail(r)

\* Every step of a request keeps what it has to.
LEMMA RequestSound ==
  ASSUME TypeInv, NEW r \in Requests, RequestStep(r)
  PROVE  Sound(r)
BY BeginSound, ReadUserSound, PrepareUserSound, WriteSound, EndSound, StepSound
DEF RequestStep

\* The type invariant is inductive.
LEMMA TypeInvNext ==
  ASSUME TypeInv, [Next]_vars
  PROVE  TypeInv'
<1>1. ASSUME NEW r \in Requests, RequestStep(r)
      PROVE  TypeInv'
  <2>1. Sound(r)
    BY <1>1, RequestSound
  <2>2. \A q \in Requests : CallOK(q)'
    BY <2>1, OthersOK DEF Sound
  <2>3. QED
    BY <2>1, <2>2 DEF Sound, TypeInv, TypeOK, RequestType, DbType, HistoryType
<1>2. CASE UNCHANGED vars
  BY <1>2 DEF vars, TypeInv, TypeOK, CallOK, NewApart, Remembered, InFlight
<1>3. QED
  BY <1>1, <1>2 DEF Next, RequestStep

\* It holds at first.
LEMMA TypeInvInit ==
  ASSUME Init
  PROVE  TypeInv
<1>1. document \in [Accounts -> User \cup {None}]
  BY DEF Init, User
<1>2. users \subseteq {a \in Accounts : document[a] # None}
  BY DEF Init
<1>3. \A r \in Requests : pc[r] = "idle" /\ id[r] = None
  BY DEF Init
<1>4. InFlight = {}
  BY <1>3 DEF InFlight
<1>5. \A r \in Requests : CallOK(r)
  BY <1>3 DEF CallOK, RegisterSteps, HeldSteps, ChatSteps, DeleteSteps
<1>6. NewApart /\ Remembered
  BY <1>3, <1>4 DEF NewApart, Remembered, RegisterSteps
<1>7. TypeOK
  BY <1>1, <1>2 DEF Init, TypeOK, Steps
<1>8. QED
  BY <1>5, <1>6, <1>7 DEF Init, TypeInv

\* The variables keep their types, and no user is without a document: TypeInv
\* adds what a request has at each step, and that new accounts are nobody
\* else's.
THEOREM TypeCorrect == Spec => []TypeOK
<1>1. TypeInv => TypeOK
  BY DEF TypeInv
<1>2. QED
  BY <1>1, TypeInvInit, TypeInvNext, PTL DEF Spec

----------------------------------------------------------------------------
(* Overlaps *)

\* What overlapped once stays remembered.
LEMMA OverlapsStay ==
  ASSUME TypeInv, NEW r \in Requests, RequestStep(r), NEW A, NEW B, Overlapped(A, B)
  PROVE  Overlapped(A, B)'
<1>1. overlapped \subseteq overlapped'
  BY BeginSound DEF RequestStep, ReadUser, PrepareUser, Refuse, InsertSettings, InsertUser,
     SaveUser, SaveSettings, InsertSession, ReadSession, InsertMessage, DeleteMessages,
     DeleteSessions, DeleteSettings, DeleteUser, Fail, history
<1>2. QED
  BY <1>1 DEF Overlapped

\* Two requests in flight overlap.
LEMMA Clash ==
  ASSUME Remembered, NEW r \in InFlight, NEW q \in InFlight, r # q, NEW A, NEW B,
         call[r].op \in A, call[q].op \in B
  PROVE  Overlapped(A, B)
BY DEF Remembered, Overlapped

\* A request past its read is in flight.
LEMMA BusyInFlight ==
  ASSUME NEW r \in Requests, pc[r] \in RegisterSteps \cup HeldSteps
  PROVE  r \in InFlight
BY DEF InFlight, RegisterSteps, HeldSteps, ChatSteps, DeleteSteps

----------------------------------------------------------------------------
(* PasswordIsLatest *)

\* Steps that neither write nor read the document of a user.
LEMMA NoDocumentNext ==
  ASSUME TypeInv, NEW r \in Requests, RequestStep(r),
         ~ReadUser(r), ~InsertUser(r), ~SaveUser(r)
  PROVE  /\ users' \subseteq users
         /\ UNCHANGED <<document, latest>>
         /\ pc'[r] # "save"
<1>1. RequestType
  BY TypeParts
<1>2. Done(r) => pc'[r] # "save"
  BY <1>1, DoneEffect
<1>3. QED
  BY <1>1, <1>2
  DEF RequestStep, Begin, PrepareUser, Refuse, InsertSettings, SaveSettings, InsertSession,
      ReadSession, InsertMessage, DeleteMessages, DeleteSessions, DeleteSettings, DeleteUser,
      Fail, history, Goto, RequestType

\* A password that is set while logins are under way would be undone: then the
\* two overlap.
LEMMA PasswordNext ==
  ASSUME TypeInv, PasswordInv, [Next]_vars
  PROVE  PasswordInv'
<1>1. ASSUME NEW r \in Requests, RequestStep(r), ~Overlapped(SetPassword, SaveDocument)'
      PROVE  /\ \A a \in users' : document'[a].password = latest'[a]
             /\ \A q \in Requests :
                  pc'[q] = "save" /\ call'[q].op = "login" =>
                    local'[q].password = latest'[id'[q]]
  <2>1. ~Overlapped(SetPassword, SaveDocument)
    BY <1>1, OverlapsStay
  <2>2. /\ \A a \in users : document[a].password = latest[a]
        /\ \A q \in Requests :
             pc[q] = "save" /\ call[q].op = "login" => local[q].password = latest[id[q]]
    BY <2>1 DEF PasswordInv
  <2>3. /\ OthersStay(r) /\ DbType /\ HistoryType /\ RequestType /\ Remembered
        /\ \A q \in Requests : CallOK(q)
    BY <1>1, RequestSound, TypeParts DEF Sound
  <2>4. CASE InsertUser(r)
    <3>1. /\ pc[r] = "insert_user" /\ Written(r) /\ Done(r)
          /\ latest' = [latest EXCEPT ![id[r]] = r]
      BY <2>4 DEF InsertUser
    <3>2. /\ id[r] \in Accounts /\ users' = users \cup {id[r]} /\ document'[id[r]] = local[r]
          /\ \A a \in Accounts \ {id[r]} : document'[a] = document[a]
      BY <3>1, WrittenEffect
    <3>3. local[r].password = r /\ document[id[r]] = None
      BY <2>3, <3>1 DEF CallOK, RegisterSteps
    <3>4. latest'[id[r]] = r /\ \A a \in Accounts \ {id[r]} : latest'[a] = latest[a]
      BY <2>3, <3>1, <3>2 DEF HistoryType
    <3>5. \A q \in Requests : pc[q] = "save" => id[q] \in Accounts \ {id[r]}
      BY <2>3, <3>3 DEF CallOK, HeldSteps
    <3>6. pc'[r] = "done"
      BY <2>3, <3>1, DoneEffect
    <3>7. QED
      BY <2>2, <2>3, <3>2, <3>3, <3>4, <3>5, <3>6 DEF OthersStay, DbType
  <2>5. CASE SaveUser(r)
    <3>1. /\ pc[r] = "save" /\ Written(r) /\ Done(r)
          /\ latest' = IF call[r].op = "login" THEN latest ELSE [latest EXCEPT ![id[r]] = r]
      BY <2>5 DEF SaveUser
    <3>2. /\ id[r] \in Accounts /\ users' = users \cup {id[r]} /\ document'[id[r]] = local[r]
          /\ \A a \in Accounts \ {id[r]} : document'[a] = document[a]
      BY <3>1, WrittenEffect
    <3>3. call[r].op \in SaveDocument /\ (call[r].op # "login" => local[r].password = r)
      BY <2>3, <3>1 DEF CallOK
    <3>4. pc'[r] = "done"
      BY <2>3, <3>1, DoneEffect
    <3>5. CASE call[r].op = "login"
      BY <2>2, <2>3, <3>1, <3>2, <3>4, <3>5 DEF OthersStay, DbType
    <3>6. CASE call[r].op # "login"
      <4>1. call[r].op \in SetPassword /\ local[r].password = r
        BY <3>3, <3>6 DEF SaveDocument, SetPassword
      <4>2. \A q \in Requests \ {r} : pc[q] = "save" => call[q].op # "login"
        <5> SUFFICES ASSUME NEW q \in Requests \ {r}, pc[q] = "save", call[q].op = "login"
                     PROVE  FALSE
          OBVIOUS
        <5>1. r \in InFlight /\ q \in InFlight
          BY <3>1, BusyInFlight DEF HeldSteps
        <5>2. "login" \in SaveDocument
          BY DEF SaveDocument
        <5>3. QED
          BY <2>1, <2>3, <4>1, <5>1, <5>2, Clash
      <4>3. latest'[id[r]] = r /\ \A a \in Accounts \ {id[r]} : latest'[a] = latest[a]
        BY <2>3, <3>1, <3>2, <3>6 DEF HistoryType
      <4>4. QED
        BY <2>2, <2>3, <3>2, <3>4, <4>1, <4>2, <4>3 DEF OthersStay, DbType
    <3>7. QED
      BY <3>5, <3>6
  <2>6. CASE ReadUser(r)
    <3>1. /\ id'[r] \in users /\ document[id'[r]] \in User
          /\ local'[r] = Edited(r, document[id'[r]])
          /\ UNCHANGED <<users, document, call, latest>>
      BY <2>6, ReadUserEffect
    <3>2. call[r].op = "login" => local'[r].password = document[id'[r]].password
      BY <3>1, EditedType
    <3>3. QED
      BY <2>2, <2>3, <3>1, <3>2 DEF OthersStay
  <2>7. CASE ~InsertUser(r) /\ ~SaveUser(r) /\ ~ReadUser(r)
    <3>1. users' \subseteq users /\ UNCHANGED <<document, latest>> /\ pc'[r] # "save"
      BY <1>1, <2>7, NoDocumentNext
    <3>2. QED
      BY <2>2, <2>3, <3>1 DEF OthersStay
  <2>8. QED
    BY <2>4, <2>5, <2>6, <2>7
<1>2. CASE UNCHANGED vars
  BY <1>2 DEF vars, PasswordInv, Overlapped
<1>3. QED
  BY <1>1, <1>2 DEF Next, RequestStep, PasswordInv

\* An account's password is the one that was set last, whatever fails, unless a
\* call that sets one overlaps another that writes the document back.
THEOREM PasswordStands == Spec => []PasswordIsLatest
<1>1. Init => TypeInv /\ PasswordInv
  <2>1. Init => PasswordInv
    BY DEF Init, PasswordInv
  <2>2. QED
    BY <2>1, TypeInvInit
<1>2. TypeInv /\ PasswordInv /\ [Next]_vars => (TypeInv /\ PasswordInv)'
  BY TypeInvNext, PasswordNext
<1>3. PasswordInv => PasswordIsLatest
  BY DEF PasswordInv, PasswordIsLatest
<1>4. QED
  BY <1>1, <1>2, <1>3, PTL DEF Spec

----------------------------------------------------------------------------
(* EmailsStayUnique *)

\* What the invariant says of the requests.
EmailsInHand(r) ==
  /\ pc[r] \in RegisterSteps => \A a \in users : document[a].email # local[r].email
  /\ pc[r] = "save" => id[r] \in users /\ local[r].email = document[id[r]].email

\* An address is taken by a registration, and an account deleted while it is
\* written back, only with an overlap.
LEMMA EmailNext ==
  ASSUME TypeInv, EmailInv, [Next]_vars
  PROVE  EmailInv'
<1>1. ASSUME NEW r \in Requests, RequestStep(r),
             ~Overlapped({"register"}, {"register"})', ~Overlapped({"delete"}, SaveDocument)'
      PROVE  UniqueEmails' /\ \A q \in Requests : EmailsInHand(q)'
  <2>1. ~Overlapped({"register"}, {"register"}) /\ ~Overlapped({"delete"}, SaveDocument)
    BY <1>1, OverlapsStay
  <2>2. UniqueEmails /\ \A q \in Requests : EmailsInHand(q)
    BY <2>1 DEF EmailInv, EmailsInHand
  <2>3. /\ OthersStay(r) /\ DbType /\ RequestType /\ Remembered
        /\ \A q \in Requests : CallOK(q)
    BY <1>1, RequestSound, TypeParts DEF Sound
  <2>4. CASE InsertUser(r)
    <3>1. /\ pc[r] = "insert_user" /\ Written(r) /\ Done(r)
      BY <2>4 DEF InsertUser
    <3>2. /\ id[r] \in Accounts /\ users' = users \cup {id[r]} /\ document'[id[r]] = local[r]
          /\ \A a \in Accounts \ {id[r]} : document'[a] = document[a]
      BY <3>1, WrittenEffect
    <3>3. /\ call[r].op = "register" /\ document[id[r]] = None
          /\ \A a \in users : document[a].email # local[r].email
      BY <2>2, <2>3, <3>1 DEF CallOK, RegisterSteps, EmailsInHand
    <3>4. id[r] \notin users
      BY <2>3, <3>3 DEF DbType
    <3>5. UniqueEmails'
      BY <2>2, <2>3, <3>2, <3>3, <3>4 DEF UniqueEmails, DbType
    <3>6. \A q \in Requests \ {r} : pc[q] \notin RegisterSteps
      <4> SUFFICES ASSUME NEW q \in Requests \ {r}, pc[q] \in RegisterSteps
                   PROVE  FALSE
        OBVIOUS
      <4>1. r \in InFlight /\ q \in InFlight /\ call[q].op = "register"
        BY <2>3, <3>1, BusyInFlight DEF RegisterSteps, CallOK
      <4>2. QED
        BY <2>1, <2>3, <3>3, <4>1, Clash
    <3>7. pc'[r] = "done"
      BY <2>3, <3>1, DoneEffect
    <3>8. \A q \in Requests : EmailsInHand(q)'
      BY <2>2, <2>3, <3>2, <3>4, <3>6, <3>7 DEF OthersStay, EmailsInHand, RegisterSteps, DbType
    <3>9. QED
      BY <3>5, <3>8
  <2>5. CASE SaveUser(r)
    <3>1. /\ pc[r] = "save" /\ Written(r) /\ Done(r)
      BY <2>5 DEF SaveUser
    <3>2. /\ id[r] \in Accounts /\ users' = users \cup {id[r]} /\ document'[id[r]] = local[r]
          /\ \A a \in Accounts \ {id[r]} : document'[a] = document[a]
      BY <3>1, WrittenEffect
    <3>3. id[r] \in users /\ local[r].email = document[id[r]].email
      BY <2>2, <3>1 DEF EmailsInHand
    <3>4. users' = users /\ \A a \in users : document'[a].email = document[a].email
      BY <2>3, <3>2, <3>3 DEF DbType
    <3>5. pc'[r] = "done"
      BY <2>3, <3>1, DoneEffect
    <3>6. UniqueEmails'
      BY <2>2, <3>4 DEF UniqueEmails
    <3>7. \A q \in Requests : EmailsInHand(q)'
      BY <2>2, <2>3, <3>4, <3>5 DEF OthersStay, EmailsInHand, RegisterSteps
    <3>8. QED
      BY <3>6, <3>7
  <2>6. CASE ReadUser(r)
    <3>1. /\ id'[r] \in users /\ document[id'[r]] \in User
          /\ local'[r] = Edited(r, document[id'[r]])
          /\ pc'[r] = AfterRead(r) /\ call[r] \in Calls /\ call[r].op # "register"
          /\ UNCHANGED <<users, document, call>>
      BY <2>6, ReadUserEffect
    <3>2. local'[r].email = document[id'[r]].email /\ pc'[r] \notin RegisterSteps
      BY <3>1, EditedType, AfterReadType DEF RegisterSteps
    <3>3. QED
      BY <2>2, <2>3, <3>1, <3>2 DEF OthersStay, UniqueEmails, EmailsInHand
  <2>7. CASE ~InsertUser(r) /\ ~SaveUser(r) /\ ~ReadUser(r)
    <3>1. users' \subseteq users /\ document' = document /\ pc'[r] # "save"
      BY <1>1, <2>7, NoDocumentNext
    <3>2. pc'[r] \in RegisterSteps => \A a \in users : document[a].email # local'[r].email
      <4>1. CASE PrepareUser(r)
        BY <4>1, PrepareUserEffect
      <4>2. CASE InsertSettings(r)
        BY <2>2, <2>3, <4>2 DEF InsertSettings, EmailsInHand, RegisterSteps
      <4>3. CASE ~PrepareUser(r) /\ ~InsertSettings(r)
        <5>1. Done(r) => pc'[r] = "done"
          BY <2>3, DoneEffect
        <5>2. QED
          BY <1>1, <2>3, <2>7, <4>3, <5>1
          DEF RequestStep, Begin, Refuse, SaveSettings, InsertSession, ReadSession,
              InsertMessage, DeleteMessages, DeleteSessions, DeleteSettings, DeleteUser, Fail,
              Goto, RequestType, RegisterSteps
      <4>4. QED
        BY <4>1, <4>2, <4>3
    <3>3. \A q \in Requests \ {r} : pc[q] = "save" => id[q] \in users'
      <4>1. CASE DeleteUser(r)
        <5> SUFFICES ASSUME NEW q \in Requests \ {r}, pc[q] = "save"
                     PROVE  FALSE
          OBVIOUS
        <5>1. /\ r \in InFlight /\ q \in InFlight
              /\ call[r].op = "delete" /\ call[q].op \in SaveDocument
          BY <2>3, <4>1, BusyInFlight DEF DeleteUser, HeldSteps, DeleteSteps, CallOK
        <5>2. QED
          BY <2>1, <2>3, <5>1, Clash
      <4>2. CASE ~DeleteUser(r)
        <5>1. users' = users
          BY <1>1, <2>7, <4>2
          DEF RequestStep, Begin, PrepareUser, Refuse, InsertSettings, SaveSettings,
              InsertSession, ReadSession, InsertMessage, DeleteMessages, DeleteSessions,
              DeleteSettings, Fail
        <5>2. QED
          BY <2>2, <5>1 DEF EmailsInHand
      <4>3. QED
        BY <4>1, <4>2
    <3>4. UniqueEmails'
      BY <2>2, <3>1 DEF UniqueEmails
    <3>5. QED
      BY <2>2, <2>3, <3>1, <3>2, <3>3, <3>4 DEF OthersStay, EmailsInHand
  <2>8. QED
    BY <2>4, <2>5, <2>6, <2>7
<1>2. CASE UNCHANGED vars
  BY <1>2 DEF vars, EmailInv, UniqueEmails, Overlapped
<1>3. QED
  BY <1>1, <1>2 DEF Next, RequestStep, EmailInv, EmailsInHand

\* No two accounts have one address, unless two registrations overlap or a
\* deletion overlaps a call that writes the document back.
THEOREM EmailsUnique == Spec => []EmailsStayUnique
<1>1. Init => TypeInv /\ EmailInv
  <2> SUFFICES ASSUME Init PROVE TypeInv /\ EmailInv
    OBVIOUS
  <2>1. \A r \in Requests : pc[r] \notin RegisterSteps \cup {"save"}
    BY DEF Init, RegisterSteps
  <2>2. UniqueEmails
    <3> SUFFICES ASSUME NEW a \in users, NEW b \in users, document[a].email = document[b].email
                 PROVE  a = b
      BY DEF UniqueEmails
    <3>1. /\ document[a] \in [email : Emails, password : {Original}]
          /\ document[b] \in [email : Emails, password : {Original}]
      BY DEF Init
    <3>2. document[a] = document[b]
      BY <3>1
    <3>3. QED
      BY <3>2 DEF Init
  <2>3. QED
    BY <2>1, <2>2, TypeInvInit DEF EmailInv
<1>2. TypeInv /\ EmailInv /\ [Next]_vars => (TypeInv /\ EmailInv)'
  BY TypeInvNext, EmailNext
<1>3. EmailInv => EmailsStayUnique
  BY DEF EmailInv, EmailsStayUnique
<1>4. QED
  BY <1>1, <1>2, <1>3, PTL DEF Spec

----------------------------------------------------------------------------
(* NoOrphans *)

\* What the invariant says of the collections, and of the requests.
Tidy ==
  /\ deleted \cap (users \cup settings) = {}
  /\ messages \subseteq sessions
  /\ sessions \subseteq users

TidyInHand(r) ==
  /\ pc[r] \in HeldSteps \ DeleteSteps => id[r] \in users
  /\ pc[r] = "insert_message" => id[r] \in sessions
  /\ pc[r] \in DeleteSteps \ {"delete_messages"} => id[r] \notin messages
  /\ pc[r] \in {"delete_settings", "delete_user"} => id[r] \notin sessions
  /\ pc[r] = "delete_user" => id[r] \notin settings

\* While an account is deleted nobody else writes to one ...
LEMMA DeletesAlone ==
  ASSUME TypeInv, ~Overlapped({"delete"}, WriteBack),
         NEW r \in Requests, pc[r] \in DeleteSteps,
         NEW q \in Requests \ {r}
  PROVE  pc[q] \notin HeldSteps \ DeleteSteps
<1> SUFFICES ASSUME pc[q] \in HeldSteps \ DeleteSteps
             PROVE  FALSE
  OBVIOUS
<1>1. CallOK(r) /\ CallOK(q) /\ Remembered
  BY TypeParts
<1>2. r \in InFlight /\ q \in InFlight
  BY BusyInFlight DEF HeldSteps
<1>3. call[r].op = "delete" /\ call[q].op \in WriteBack
  BY <1>1 DEF CallOK, HeldSteps, WriteBack
<1>4. QED
  BY <1>1, <1>2, <1>3, Clash

\* ... and while one is written to nobody deletes one.
LEMMA WritesAlone ==
  ASSUME TypeInv, ~Overlapped({"delete"}, WriteBack),
         NEW r \in Requests, pc[r] \in HeldSteps \ DeleteSteps,
         NEW q \in Requests \ {r}
  PROVE  pc[q] \notin DeleteSteps
BY DeletesAlone

\* The steps that register an account write to nobody else's.
LEMMA RegisterTidy ==
  ASSUME TypeInv, Tidy, \A q \in Requests : TidyInHand(q),
         NEW r \in Requests, InsertSettings(r) \/ InsertUser(r)
  PROVE  Tidy' /\ \A q \in Requests : TidyInHand(q)'
<1>1. /\ OthersStay(r) /\ DbType /\ HistoryType /\ RequestType
      /\ \A q \in Requests : CallOK(q)
  BY RequestSound, TypeParts DEF Sound, RequestStep
<1>2. /\ pc[r] \in RegisterSteps /\ pc'[r] \in {"insert_user", "done"}
      /\ users \subseteq users' /\ users' \subseteq users \cup {id[r]}
      /\ settings' \subseteq settings \cup {id[r]}
      /\ UNCHANGED <<sessions, messages, deleted>>
  BY <1>1, DoneEffect
  DEF InsertSettings, InsertUser, Written, RegisterSteps, chats, history, Goto, RequestType
<1>3. document[id[r]] = None
  BY <1>1, <1>2 DEF CallOK
<1>4. id[r] \notin deleted /\ \A q \in Requests : pc[q] \in HeldSteps => id[q] # id[r]
  BY <1>1, <1>3 DEF HistoryType, CallOK
<1>5. Tidy'
  BY <1>2, <1>4 DEF Tidy
<1>6. \A q \in Requests : TidyInHand(q)'
  BY <1>1, <1>2, <1>4 DEF TidyInHand, OthersStay, HeldSteps, ChatSteps, DeleteSteps
<1>7. QED
  BY <1>5, <1>6

\* The steps that write to an account it has keep it tidy.
LEMMA WriteTidy ==
  ASSUME TypeInv, ~Overlapped({"delete"}, WriteBack),
         Tidy, \A q \in Requests : TidyInHand(q),
         NEW r \in Requests,
         SaveUser(r) \/ SaveSettings(r) \/ InsertSession(r) \/ ReadSession(r) \/ InsertMessage(r)
  PROVE  Tidy' /\ \A q \in Requests : TidyInHand(q)'
<1>1. OthersStay(r) /\ RequestType
  BY RequestSound, TypeParts DEF Sound, RequestStep
<1>2. /\ pc[r] \in HeldSteps \ DeleteSteps
      /\ users' \subseteq users \cup {id[r]} /\ users \subseteq users'
      /\ settings' \subseteq settings \cup {id[r]}
      /\ sessions' \subseteq sessions \cup {id[r]} /\ sessions \subseteq sessions'
      /\ deleted' = deleted
  BY DEF SaveUser, SaveSettings, InsertSession, ReadSession, InsertMessage, Written, chats,
         history, HeldSteps, ChatSteps, DeleteSteps
<1>3. messages' = messages \/ (pc[r] = "insert_message" /\ messages' = messages \cup {id[r]})
  BY DEF SaveUser, SaveSettings, InsertSession, ReadSession, InsertMessage, chats
<1>4. /\ pc'[r] \in {"done", "insert_message", "insert_session"}
      /\ pc'[r] # "done" => id'[r] = id[r] /\ id[r] \in sessions
  <2>1. pc[r] = "insert_message" => id[r] \in sessions
    BY DEF TidyInHand
  <2>2. QED
    BY <1>1, <2>1, DoneEffect
    DEF SaveUser, SaveSettings, InsertSession, ReadSession, InsertMessage, Goto, RequestType
<1>5. id[r] \in users /\ (pc[r] = "insert_message" => id[r] \in sessions)
  BY <1>2 DEF TidyInHand
<1>6. Tidy'
  BY <1>2, <1>3, <1>5 DEF Tidy
<1>7. \A q \in Requests \ {r} : pc[q] \notin DeleteSteps
  BY <1>2, WritesAlone
<1>8. \A q \in Requests \ {r} : TidyInHand(q)'
  BY <1>1, <1>2, <1>7 DEF TidyInHand, OthersStay, DeleteSteps
<1>9. TidyInHand(r)'
  BY <1>2, <1>4, <1>5 DEF TidyInHand, HeldSteps, ChatSteps, DeleteSteps
<1>10. QED
  BY <1>6, <1>8, <1>9

\* The steps of a deletion leave nothing behind.
LEMMA DeleteTidy ==
  ASSUME TypeInv, ~Overlapped({"delete"}, WriteBack),
         Tidy, \A q \in Requests : TidyInHand(q),
         NEW r \in Requests,
         DeleteMessages(r) \/ DeleteSessions(r) \/ DeleteSettings(r) \/ DeleteUser(r)
  PROVE  Tidy' /\ \A q \in Requests : TidyInHand(q)'
<1>1. OthersStay(r) /\ RequestType
  BY RequestSound, TypeParts DEF Sound, RequestStep
<1>2. /\ pc[r] \in DeleteSteps
      /\ users' \subseteq users /\ settings' \subseteq settings
      /\ sessions' \subseteq sessions /\ messages' \subseteq messages
  BY DEF DeleteMessages, DeleteSessions, DeleteSettings, DeleteUser, DeleteSteps, chats
<1>3. TidyInHand(r)
  OBVIOUS
<1>4. \A q \in Requests \ {r} : pc[q] \notin HeldSteps \ DeleteSteps
  BY <1>2, DeletesAlone
<1>5. \A q \in Requests \ {r} : TidyInHand(q)'
  BY <1>1, <1>2, <1>4 DEF TidyInHand, OthersStay, HeldSteps, ChatSteps, DeleteSteps
<1>6. CASE DeleteMessages(r)
  BY <1>1, <1>2, <1>3, <1>5, <1>6
  DEF DeleteMessages, Goto, RequestType, history, Tidy, TidyInHand, DeleteSteps
<1>7. CASE DeleteSessions(r)
  BY <1>1, <1>2, <1>3, <1>5, <1>7
  DEF DeleteSessions, Goto, RequestType, history, Tidy, TidyInHand, DeleteSteps
<1>8. CASE DeleteSettings(r)
  BY <1>1, <1>2, <1>3, <1>5, <1>8
  DEF DeleteSettings, Goto, RequestType, chats, history, Tidy, TidyInHand, DeleteSteps
<1>9. CASE DeleteUser(r)
  <2>1. /\ id[r] \notin sessions /\ id[r] \notin settings
        /\ users' = users \ {id[r]} /\ deleted' = deleted \cup {id[r]}
        /\ UNCHANGED <<settings, sessions, messages>>
    BY <1>3, <1>9 DEF DeleteUser, chats, TidyInHand, DeleteSteps
  <2>2. pc'[r] = "done"
    BY <1>1, <1>9, DoneEffect DEF DeleteUser
  <2>3. Tidy'
    BY <2>1 DEF Tidy
  <2>4. TidyInHand(r)'
    BY <2>2 DEF TidyInHand, HeldSteps, ChatSteps, DeleteSteps
  <2>5. QED
    BY <1>5, <2>3, <2>4
<1>10. QED
  BY <1>6, <1>7, <1>8, <1>9

\* The steps that only read or end a request change nothing of it.
LEMMA QuietTidy ==
  ASSUME TypeInv, Tidy, \A q \in Requests : TidyInHand(q),
         NEW r \in Requests,
         Begin(r) \/ ReadUser(r) \/ PrepareUser(r) \/ Refuse(r) \/ Fail(r)
  PROVE  Tidy' /\ \A q \in Requests : TidyInHand(q)'
<1>1. OthersStay(r) /\ RequestType
  BY RequestSound, TypeParts DEF Sound, RequestStep
<1>2. UNCHANGED <<users, settings, sessions, messages, deleted>>
  BY DEF Begin, ReadUser, PrepareUser, Refuse, Fail, chats, history
<1>3. TidyInHand(r)'
  <2>1. CASE ReadUser(r)
    <3>1. /\ id'[r] \in users
          /\ pc'[r] \in {"save", "save_settings", "delete_messages", "insert_session",
                         "read_session"}
      BY <2>1, ReadUserEffect, AfterReadType
    <3>2. QED
      BY <1>2, <3>1 DEF TidyInHand, HeldSteps, ChatSteps, DeleteSteps
  <2>2. CASE ~ReadUser(r)
    <3>1. pc'[r] \in {"read", "insert_settings", "done"}
      BY <1>1, <2>2, DoneEffect DEF Begin, PrepareUser, Refuse, Fail, Goto, RequestType
    <3>2. QED
      BY <3>1 DEF TidyInHand, HeldSteps, ChatSteps, DeleteSteps
  <2>3. QED
    BY <2>1, <2>2
<1>4. QED
  BY <1>1, <1>2, <1>3 DEF Tidy, TidyInHand, OthersStay

\* The invariant, in its parts.
LEMMA OrphanNext ==
  ASSUME TypeInv, OrphanInv, [Next]_vars
  PROVE  OrphanInv'
<1>1. ASSUME NEW r \in Requests, RequestStep(r), ~Overlapped({"delete"}, WriteBack)'
      PROVE  Tidy' /\ \A q \in Requests : TidyInHand(q)'
  <2>1. ~Overlapped({"delete"}, WriteBack)
    BY <1>1, OverlapsStay
  <2>2. Tidy /\ \A q \in Requests : TidyInHand(q)
    BY <2>1 DEF OrphanInv, Tidy, TidyInHand
  <2>3. QED
    BY <1>1, <2>1, <2>2, RegisterTidy, WriteTidy, DeleteTidy, QuietTidy DEF RequestStep
<1>2. CASE UNCHANGED vars
  BY <1>2 DEF vars, OrphanInv, Overlapped
<1>3. QED
  BY <1>1, <1>2 DEF Next, RequestStep, OrphanInv, Tidy, TidyInHand

\* Nothing is left of a deleted account, and no chat without its account, however
\* often a deletion is cut off, unless it overlaps a call that writes something
\* of an account.
THEOREM DeletionsLeaveNothing == Spec => []NoOrphans
<1>1. Init => TypeInv /\ OrphanInv
  <2> SUFFICES ASSUME Init PROVE TypeInv /\ OrphanInv
    OBVIOUS
  <2>1. \A r \in Requests : pc[r] = "idle"
    BY DEF Init
  <2>2. QED
    BY <2>1, TypeInvInit DEF Init, OrphanInv, HeldSteps, ChatSteps, DeleteSteps
<1>2. TypeInv /\ OrphanInv /\ [Next]_vars => (TypeInv /\ OrphanInv)'
  BY TypeInvNext, OrphanNext
<1>3. OrphanInv => NoOrphans
  BY DEF OrphanInv, NoOrphans
<1>4. QED
  BY <1>1, <1>2, <1>3, PTL DEF Spec
=============================================================================
