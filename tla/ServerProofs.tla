---------------------------- MODULE ServerProofs ----------------------------
(***************************************************************************)
(* The servers and the log they write, for any number of connections,      *)
(* usernames, workers and lines.  Of the session server: names and         *)
(* sessions agree, a refusal is justified, and a closed session stays      *)
(* closed.  Of the editing server: the readers, the clients and the names  *)
(* agree, and the others are told of every change.  Of the logger: only    *)
(* the oldest lines are lost, whatever step of a rotation fails.           *)
(***************************************************************************)
EXTENDS Server, EditingServer, Logger, FiniteSetTheorems, SequenceTheorems, TLAPS

(* The inductive invariant.  Each part is one link of the argument: a       *)
(* connection that was not accepted has no session ...                      *)
NewHasNoSession ==
  \A c \in Conn : conn[c] = "new" => state[c] = "CONNECTING" /\ c \notin sessions

(* ... tasks_ holds each queued connection once ...                         *)
QueueHoldsQueued ==
  /\ \A i \in 1..Len(queue) : conn[queue[i]] = "queued"
  /\ \A i, j \in 1..Len(queue) : queue[i] = queue[j] => i = j

(* ... a connection that is being served has room for its answer ...        *)
Served == {"queued", "process", "available", "posted"}
RoomToWrite == \A c \in Conn : conn[c] \in Served => writes[c] < MaxWrites

(* ... only a LOGIN gets past isUsernameAvailable ...                       *)
OnlyLoginsTake == \A c \in Conn : conn[c] = "available" => request[c].user \in User

(* ... a closed session is out of both maps ...                             *)
ClosedIsOut ==
  life = "up" => \A c \in Conn : state[c] = "DISCONNECTED" => c \notin sessions /\ c \notin socketOpen

(* ... and who is free to take a name, of those nobody raced for, is alone, *)
(* and the name is still free.                                              *)
TakerIsAlone ==
  \A c, d \in Conn : /\ conn[c] = "available" /\ conn[d] = "available"
                     /\ request[c].user = request[d].user /\ request[c].user \notin raced
                     => c = d
NameStillFree ==
  life = "up" =>
    \A c \in Conn : conn[c] = "available" /\ request[c].user \notin raced
                    => byName[request[c].user] = None

Shape == TypeOK /\ NewHasNoSession /\ QueueHoldsQueued /\ RoomToWrite /\ OnlyLoginsTake
Names == ClosedIsOut /\ TakerIsAlone /\ NameStillFree /\ NamesMatch
ServerInv == Shape /\ Names

-----------------------------------------------------------------------------
LEMMA RequestFacts ==
  /\ NoRequest \in Request
  /\ \A r \in Request : r.kind = "LOGIN:" => r.user \in User
BY DEF Request, NoRequest

LEMMA InitServer == ASSUME Init PROVE ServerInv
<1>1. running \in BOOLEAN BY Zenon DEF Init
<1>2. queue \in Seq(Conn) /\ Len(queue) = 0 BY DEF Init
<1>3. /\ hasDocument \in [Conn -> BOOLEAN] /\ idle \in [Conn -> BOOLEAN]
  BY Zenon DEF Init
<1>4. writes \in [Conn -> 0..MaxWrites] BY MaxWritesAssumption DEF Init
<1>5. TypeOK
  BY <1>1, <1>2, <1>3, <1>4, RequestFacts DEF Init, TypeOK, Stage, Answer
<1>6. Shape
  BY <1>2, <1>5 DEF Init, Shape, NewHasNoSession, QueueHoldsQueued, RoomToWrite, Served, OnlyLoginsTake
<1>7. Names
  BY DEF Init, Names, ClosedIsOut, TakerIsAlone, NameStillFree, NamesMatch, LoggedIn
<1> QED BY <1>6, <1>7 DEF ServerInv

(* What closeSession leaves alone, and what it may change.                  *)
LEMMA CloseShape ==
  ASSUME TypeOK, NewHasNoSession, NEW c \in Conn, closeSession(c)
  PROVE  /\ sessions' \subseteq sessions /\ socketOpen' \subseteq socketOpen
         /\ sessions' \subseteq Conn /\ socketOpen' \subseteq Conn
         /\ username' = username
         /\ state' \in [Conn -> {"CONNECTING", "AUTHENTICATED", "DISCONNECTED"}]
         /\ idle' \in [Conn -> BOOLEAN]
         /\ byName' \in [User -> Conn \cup {None}]
         /\ \A d \in Conn : conn[d] = "new" => state'[d] = state[d]
<1>1. CASE c \notin sessions BY <1>1 DEF closeSession, handlerVars, TypeOK
<1>2. CASE c \in sessions
  <2>1. idle' \in [Conn -> BOOLEAN]
    <3>1. idle' = [idle EXCEPT ![c] = FALSE] BY <1>2 DEF closeSession
    <3> QED BY <3>1, Zenon DEF TypeOK
  <2>2. byName' \in [User -> Conn \cup {None}]
    BY <1>2 DEF closeSession, TypeOK
  <2> QED BY <1>2, <2>1, <2>2 DEF closeSession, TypeOK, NewHasNoSession
<1> QED BY <1>1, <1>2

-----------------------------------------------------------------------------
(* The flags: everything BOOLEAN.                                           *)
Flags ==
  hasDocument \in [Conn -> BOOLEAN] /\ idle \in [Conn -> BOOLEAN] /\ running \in BOOLEAN

LEMMA FlagsKept == ASSUME TypeOK, NewHasNoSession, Step PROVE Flags'
<1> USE Zenon DEF Flags
<1>0. Flags BY DEF TypeOK
<1>1. ASSUME NEW c \in Conn, idle' = [idle EXCEPT ![c] = FALSE] \/ idle' = [idle EXCEPT ![c] = TRUE],
             UNCHANGED <<hasDocument, running>>
      PROVE  Flags'
  BY <1>0, <1>1
<1>2. ASSUME NEW c \in Conn, closeSession(c), UNCHANGED <<hasDocument, running>> PROVE Flags'
  BY <1>0, <1>2, CloseShape
<1>3. ASSUME UNCHANGED <<hasDocument, idle, running>> PROVE Flags' BY <1>0, <1>3
<1>4. ASSUME NEW c \in Conn, Process(c) PROVE Flags'
  <2>1. /\ \A b \in BOOLEAN : (Reply(c) = "opened" \/ (b /\ Reply(c) # "closed")) \in BOOLEAN
        /\ \A b \in BOOLEAN : (b /\ hasDocument'[c] = hasDocument[c]) \in BOOLEAN
    OBVIOUS
  <2>2. hasDocument[c] \in BOOLEAN /\ idle[c] \in BOOLEAN BY <1>0
  <2>3. hasDocument' \in [Conn -> BOOLEAN] /\ idle' \in [Conn -> BOOLEAN]
    BY <1>0, <1>4, <2>1, <2>2 DEF Process
  <2> QED BY <1>0, <1>4, <2>3 DEF Process, ioVars
<1>5. ASSUME running' = FALSE, UNCHANGED <<hasDocument, idle>> PROVE Flags' BY <1>0, <1>5
<1>6. ASSUME NEW c \in Conn, WorkerStep(c) PROVE Flags'
  BY <1>1, <1>3, <1>4, <1>6 DEF WorkerStep, Begin, CheckName, LogIn, LogInFails, ioVars
<1>7. ASSUME NEW c \in Conn, ReadError(c) \/ WriteError(c) \/ CleanupClose(c) PROVE Flags'
  BY <1>2, <1>7 DEF ReadError, WriteError, CleanupClose, ioVars
<1>8. ASSUME NEW c \in Conn,
             \/ Accept(c) \/ AcceptThrows(c) \/ (\E r \in Request : Receive(c, r))
             \/ SendAndRead(c) \/ Written(c)
      PROVE  Flags'
  BY <1>3, <1>8 DEF Accept, AcceptThrows, Receive, SendAndRead, Written, ioVars
<1>9. ASSUME NEW c \in Conn, GoIdle(c) PROVE Flags' BY <1>1, <1>9 DEF GoIdle, ioVars
<1>10. ASSUME CleanupScan \/ JoinPool \/ Gone PROVE Flags'
  BY <1>3, <1>10 DEF CleanupScan, JoinPool, Gone, vars, ioVars
<1>11. ASSUME stop \/ DestroyHandler PROVE Flags' BY <1>5, <1>11 DEF stop, DestroyHandler
<1> QED BY <1>6, <1>7, <1>8, <1>9, <1>10, <1>11 DEF Step

-----------------------------------------------------------------------------
(* Shape, step by step.  Every step but Receive and Begin leaves tasks_     *)
(* alone, and no step but Receive makes a connection "queued".              *)
LEMMA TasksKept ==
  ASSUME QueueHoldsQueued, UNCHANGED queue, queue \in Seq(Conn),
         \A c \in Conn : conn[c] = "queued" => conn'[c] = "queued"
  PROVE  QueueHoldsQueued'
BY DEF QueueHoldsQueued

LEMMA AcceptShape == ASSUME Shape, Flags', NEW c \in Conn, Accept(c) PROVE Shape'
<1> USE DEF Shape, TypeOK, Accept, createSession, ioVars
<1>1. TypeOK' BY SMT DEF Flags, Stage
<1>2. QueueHoldsQueued' BY TasksKept
<1> QED BY <1>1, <1>2 DEF NewHasNoSession, RoomToWrite, Served, OnlyLoginsTake

(* Steps after which every connection is where it was.                      *)
LEMMA StillShape ==
  ASSUME Shape, Flags', UNCHANGED <<username, conn, request, answer, queue>>,
         sessions' \subseteq sessions, socketOpen' \subseteq socketOpen, toClose' \subseteq Conn,
         state' \in [Conn -> {"CONNECTING", "AUTHENTICATED", "DISCONNECTED"}],
         \A d \in Conn : conn[d] = "new" => state'[d] = state[d],
         byName' \in [User -> Conn \cup {None}],
         writes' \in [Conn -> 0..MaxWrites],
         \A d \in Conn : writes'[d] <= writes[d],
         life' \in {"up", "handlerGone", "gone"}
  PROVE  Shape'
<1>1. TypeOK' BY DEF Shape, TypeOK, Flags
<1>2. NewHasNoSession' BY DEF Shape, NewHasNoSession
<1>3. QueueHoldsQueued' BY DEF Shape, QueueHoldsQueued
<1>4. OnlyLoginsTake' BY DEF Shape, OnlyLoginsTake
<1>5. RoomToWrite' BY MaxWritesAssumption DEF Shape, RoomToWrite, TypeOK
<1> QED BY <1>1, <1>2, <1>3, <1>4, <1>5 DEF Shape

LEMMA ReceiveShape ==
  ASSUME Shape, Flags', NEW c \in Conn, NEW r \in Request, Receive(c, r) PROVE Shape'
<1> USE DEF Shape, TypeOK, Receive, handlerVars, ioVars
<1>1. TypeOK' BY DEF Flags, Stage
<1>2. QueueHoldsQueued'
  <2>1. /\ Len(queue') = Len(queue) + 1 /\ queue'[Len(queue) + 1] = c
        /\ \A i \in 1..Len(queue) : queue'[i] = queue[i] /\ queue[i] \in Conn
    OBVIOUS
  <2>2. \A i \in 1..Len(queue) : queue[i] # c /\ conn'[queue[i]] = "queued"
    BY <2>1 DEF QueueHoldsQueued
  <2>3. conn'[c] = "queued" OBVIOUS
  <2>4. Len(queue) \in Nat OBVIOUS
  <2>5. \A i \in 1..Len(queue') : i \in 1..Len(queue) \/ i = Len(queue) + 1 BY <2>1, <2>4
  <2> QED BY <2>1, <2>2, <2>3, <2>4, <2>5 DEF QueueHoldsQueued
<1>3. NewHasNoSession' BY DEF NewHasNoSession
<1>4. RoomToWrite' BY DEF RoomToWrite, Served
<1>5. OnlyLoginsTake' BY DEF OnlyLoginsTake
<1> QED BY <1>1, <1>2, <1>3, <1>4, <1>5

LEMMA BeginShape == ASSUME Shape, Flags', NEW c \in Conn, Begin(c) PROVE Shape'
<1> USE DEF Shape, TypeOK, Begin, handlerVars, ioVars
<1>1. TypeOK' BY DEF Flags, Stage
<1>2. conn[c] = "queued" BY SMTT(30) DEF QueueHoldsQueued
<1>3. QueueHoldsQueued'
  <2>1. /\ Len(queue) \in Nat /\ Len(queue) > 0 /\ queue[1] = c
        /\ Len(queue') = Len(queue) - 1
        /\ \A i \in 1..Len(queue') : queue'[i] = queue[i + 1]
        /\ \A i \in 1..Len(queue) : queue[i] \in Conn
    OBVIOUS
  <2>2. \A i \in 1..Len(queue') : i + 1 \in 1..Len(queue) /\ i + 1 # 1 BY <2>1
  <2>3. \A i \in 1..Len(queue) : i # 1 => queue[i] # c /\ conn'[queue[i]] = "queued"
    BY <2>1 DEF QueueHoldsQueued
  <2>4. \A i \in 1..Len(queue') : conn'[queue'[i]] = "queued" BY <2>1, <2>2, <2>3
  <2>5. ASSUME NEW i \in 1..Len(queue'), NEW j \in 1..Len(queue'), queue'[i] = queue'[j]
        PROVE  i = j
    BY <2>1, <2>2, <2>5 DEF QueueHoldsQueued
  <2> QED BY <2>4, <2>5 DEF QueueHoldsQueued
<1>4. NewHasNoSession' BY DEF NewHasNoSession
<1>5. RoomToWrite' BY <1>2 DEF RoomToWrite, Served
<1>6. OnlyLoginsTake' BY DEF OnlyLoginsTake
<1> QED BY <1>1, <1>3, <1>4, <1>5, <1>6

LEMMA ReadErrorShape == ASSUME Shape, Flags', NEW c \in Conn, ReadError(c) PROVE Shape'
<1> USE DEF Shape, ReadError, ioVars
<1>0. TypeOK /\ NewHasNoSession /\ closeSession(c) OBVIOUS
<1>1. TypeOK' BY <1>0, CloseShape DEF TypeOK, Flags, Stage
<1>2. QueueHoldsQueued' BY TasksKept DEF TypeOK
<1>3. NewHasNoSession' BY <1>0, CloseShape DEF NewHasNoSession, TypeOK
<1>4. RoomToWrite' BY DEF RoomToWrite, Served, TypeOK
<1>5. OnlyLoginsTake' BY DEF OnlyLoginsTake, TypeOK
<1> QED BY <1>1, <1>2, <1>3, <1>4, <1>5

LEMMA SendShape == ASSUME Shape, Flags', NEW c \in Conn, SendAndRead(c) PROVE Shape'
<1> USE DEF Shape, TypeOK, SendAndRead, handlerVars, ioVars
<1>0. writes' \in [Conn -> 0..MaxWrites]
  BY MaxWritesAssumption DEF RoomToWrite, Served
<1>1. TypeOK' BY <1>0, RequestFacts DEF Flags, Stage, Answer
<1>2. QueueHoldsQueued' BY TasksKept
<1>3. NewHasNoSession' BY DEF NewHasNoSession
<1>4. RoomToWrite' BY DEF RoomToWrite, Served
<1>5. OnlyLoginsTake' BY DEF OnlyLoginsTake
<1> QED BY <1>1, <1>2, <1>3, <1>4, <1>5

(* The steps of a request in a worker, after Begin.                         *)
LEMMA WorkerShape ==
  ASSUME Shape, Flags', NEW c \in Conn,
         conn[c] \in {"process", "available"},
         \E a \in Answer : answer' = [answer EXCEPT ![c] = a],
         \E g \in {"available", "posted"} : conn' = [conn EXCEPT ![c] = g],
         conn'[c] = "available" => request[c].user \in User,
         UNCHANGED <<sessions, socketOpen, request, writes, queue, ioVars>>,
         username' \in [Conn -> User \cup {None}],
         state' \in [Conn -> {"CONNECTING", "AUTHENTICATED", "DISCONNECTED"}],
         \A d \in Conn : conn[d] = "new" => state'[d] = state[d],
         byName' \in [User -> Conn \cup {None}]
  PROVE  Shape'
<1> USE DEF Shape, ioVars
<1>0. conn' \in [Conn -> Stage] /\ answer' \in [Conn -> Answer] BY DEF TypeOK, Stage
<1>1. TypeOK' BY <1>0 DEF TypeOK, Flags
<1>2. QueueHoldsQueued' BY TasksKept DEF TypeOK
<1>3. NewHasNoSession' BY DEF NewHasNoSession, TypeOK
<1>4. RoomToWrite' BY DEF RoomToWrite, Served, TypeOK
<1>5. OnlyLoginsTake' BY DEF OnlyLoginsTake, TypeOK
<1> QED BY <1>1, <1>2, <1>3, <1>4, <1>5

LEMMA CheckNameShape == ASSUME Shape, Flags', NEW c \in Conn, CheckName(c) PROVE Shape'
<1>1. request[c].user \in User BY RequestFacts DEF CheckName, IsLogin, Shape, TypeOK
<1>2. \E a \in Answer : answer' = [answer EXCEPT ![c] = a]
  <2>1. answer = [answer EXCEPT ![c] = answer[c]] /\ answer[c] \in Answer BY DEF Shape, TypeOK
  <2>2. "in use" \in Answer BY DEF Answer
  <2> QED BY <2>1, <2>2 DEF CheckName, Respond
<1>3. \E g \in {"available", "posted"} : conn' = [conn EXCEPT ![c] = g]
  BY DEF CheckName, Respond
<1>4. UNCHANGED <<handlerVars, request, writes, queue, ioVars>> BY DEF CheckName
<1>5. conn[c] \in {"process", "available"} BY DEF CheckName
<1>6. /\ UNCHANGED <<sessions, socketOpen, request, writes, queue, ioVars>>
      /\ username' \in [Conn -> User \cup {None}]
      /\ state' \in [Conn -> {"CONNECTING", "AUTHENTICATED", "DISCONNECTED"}]
      /\ \A d \in Conn : conn[d] = "new" => state'[d] = state[d]
      /\ byName' \in [User -> Conn \cup {None}]
  BY <1>4 DEF handlerVars, Shape, TypeOK
<1> QED BY <1>1, <1>2, <1>3, <1>5, <1>6, WorkerShape

LEMMA LogInShape == ASSUME Shape, Flags', NEW c \in Conn, LogIn(c) PROVE Shape'
<1>1. request[c].user \in User BY DEF Shape, OnlyLoginsTake, LogIn
<1>2. \E a \in Answer : answer' = [answer EXCEPT ![c] = a] BY DEF LogIn, Respond, Answer
<1>3. \E g \in {"available", "posted"} : conn' = [conn EXCEPT ![c] = g] BY DEF LogIn, Respond
<1>4. /\ username' \in [Conn -> User \cup {None}]
      /\ state' \in [Conn -> {"CONNECTING", "AUTHENTICATED", "DISCONNECTED"}]
      /\ \A d \in Conn : conn[d] = "new" => state'[d] = state[d]
      /\ byName' \in [User -> Conn \cup {None}]
  BY <1>1 DEF LogIn, authenticateSession, Shape, TypeOK
<1>5. UNCHANGED <<sessions, socketOpen, request, writes, queue, ioVars>>
  BY DEF LogIn, authenticateSession
<1> QED BY <1>1, <1>2, <1>3, <1>4, <1>5, WorkerShape DEF LogIn

LEMMA LogInFailsShape == ASSUME Shape, Flags', NEW c \in Conn, LogInFails(c) PROVE Shape'
<1>1. request[c].user \in User BY DEF Shape, OnlyLoginsTake, LogInFails
<1>2. \E a \in Answer : answer' = [answer EXCEPT ![c] = a] BY DEF LogInFails, Respond, Answer
<1>3. \E g \in {"available", "posted"} : conn' = [conn EXCEPT ![c] = g] BY DEF LogInFails, Respond
<1>4. UNCHANGED <<handlerVars, request, writes, queue, ioVars>> BY DEF LogInFails
<1>5. conn[c] \in {"process", "available"} BY DEF LogInFails
<1>6. /\ UNCHANGED <<sessions, socketOpen, request, writes, queue, ioVars>>
      /\ username' \in [Conn -> User \cup {None}]
      /\ state' \in [Conn -> {"CONNECTING", "AUTHENTICATED", "DISCONNECTED"}]
      /\ \A d \in Conn : conn[d] = "new" => state'[d] = state[d]
      /\ byName' \in [User -> Conn \cup {None}]
  BY <1>4 DEF handlerVars, Shape, TypeOK
<1> QED BY <1>1, <1>2, <1>3, <1>5, <1>6, WorkerShape

LEMMA ProcessShape == ASSUME Shape, Flags', NEW c \in Conn, Process(c) PROVE Shape'
<1>1. Reply(c) \in Answer BY DEF Reply, Answer
<1>2. \E a \in Answer : answer' = [answer EXCEPT ![c] = a] BY <1>1 DEF Process, Respond
<1>3. conn' = [conn EXCEPT ![c] = "posted"] BY DEF Process, Respond
<1>4. conn'[c] # "available" BY <1>3 DEF Shape, TypeOK
<1>5. UNCHANGED <<handlerVars, request, writes, queue, ioVars>> BY DEF Process
<1> QED BY <1>2, <1>3, <1>4, <1>5, WorkerShape DEF Process, handlerVars, Shape, TypeOK

LEMMA ShapeKept == ASSUME Shape, Step PROVE Shape'
<1>0. Flags' BY FlagsKept DEF Shape
<1>1. ASSUME NEW c \in Conn, WorkerStep(c) PROVE Shape'
  BY <1>0, <1>1, BeginShape, CheckNameShape, LogInShape, LogInFailsShape, ProcessShape
  DEF WorkerStep
<1>2. ASSUME NEW c \in Conn,
             \/ Accept(c) \/ (\E r \in Request : Receive(c, r)) \/ ReadError(c) \/ SendAndRead(c)
      PROVE  Shape'
  BY <1>0, <1>2, AcceptShape, ReceiveShape, ReadErrorShape, SendShape
<1>3. ASSUME NEW c \in Conn, WriteError(c) \/ CleanupClose(c) PROVE Shape'
  <2>1. closeSession(c) /\ TypeOK /\ NewHasNoSession
    BY <1>3 DEF WriteError, CleanupClose, Shape
  <2>2. /\ writes' \in [Conn -> 0..MaxWrites] /\ \A d \in Conn : writes'[d] <= writes[d]
    <3>1. CASE WriteError(c) BY <3>1, MaxWritesAssumption DEF WriteError, Shape, TypeOK
    <3>2. CASE CleanupClose(c) BY <3>2, MaxWritesAssumption DEF CleanupClose, Shape, TypeOK
    <3> QED BY <1>3, <3>1, <3>2
  <2>3. /\ UNCHANGED <<conn, request, answer, queue, life>> /\ toClose' \subseteq Conn
    BY <1>3 DEF WriteError, CleanupClose, ioVars, Shape, TypeOK
  <2> HIDE <1>3
  <2> QED BY <1>0, <2>1, <2>2, <2>3, CloseShape, StillShape DEF TypeOK
<1>4. ASSUME NEW c \in Conn, Written(c) PROVE Shape'
  <2>1. /\ writes' \in [Conn -> 0..MaxWrites] /\ \A d \in Conn : writes'[d] <= writes[d]
    BY <1>4, MaxWritesAssumption DEF Written, Shape, TypeOK
  <2>2. UNCHANGED <<handlerVars, conn, request, answer, queue, ioVars>> BY <1>4 DEF Written
  <2> QED BY <1>0, <2>1, <2>2, StillShape DEF Shape, TypeOK, handlerVars, ioVars
<1>5. ASSUME UNCHANGED <<username, state, conn, request, answer, writes, queue>>,
             sessions' \subseteq sessions, socketOpen' \subseteq socketOpen, toClose' \subseteq Conn,
             byName' \in [User -> Conn \cup {None}],
             life' \in {"up", "handlerGone", "gone"}
      PROVE  Shape'
  <2>1. \A d \in Conn : writes'[d] <= writes[d]
    BY <1>5, MaxWritesAssumption DEF Shape, TypeOK
  <2> QED BY <1>0, <1>5, <2>1, StillShape DEF Shape, TypeOK
<1>6. ASSUME NEW c \in Conn, AcceptThrows(c) \/ GoIdle(c) PROVE Shape'
  BY <1>5, <1>6 DEF AcceptThrows, GoIdle, handlerVars, ioVars, Shape, TypeOK
<1>7. ASSUME CleanupScan \/ stop \/ DestroyHandler PROVE Shape'
  BY <1>5, <1>7 DEF CleanupScan, stop, DestroyHandler, handlerVars, Shape, TypeOK
<1>8. ASSUME JoinPool \/ Gone PROVE Shape'
  BY <1>5, <1>8 DEF JoinPool, Gone, vars, handlerVars, ioVars, Shape, TypeOK
<1> QED BY <1>1, <1>2, <1>3, <1>4, <1>6, <1>7, <1>8 DEF Step

-----------------------------------------------------------------------------
(* Names.  Two requests that are free to take the same name race for it.    *)
LEMMA RacedGrows == ASSUME Shape', Next PROVE raced \subseteq raced' /\ TakerIsAlone'
<1>1. raced \subseteq raced' BY DEF Next
<1>2. ASSUME NEW c \in Conn, NEW d \in Conn, c # d,
             (conn[c] = "available")', (conn[d] = "available")',
             (request[c].user = request[d].user)'
      PROVE  (request[c].user \in raced)'
  <2>1. PICK u \in User : u = request'[c].user BY <1>2 DEF Shape, OnlyLoginsTake
  <2>2. c \in Taking(u)' /\ d \in Taking(u)' BY <1>2, <2>1 DEF Taking
  <2>3. u \in {v \in User : \E x, y \in Taking(v)' : x # y} BY <1>2, <2>2
  <2> QED BY <2>1, <2>3 DEF Next
<1> QED BY <1>1, <1>2 DEF TakerIsAlone

(* Steps outside SessionHandler after which nobody new is free to take.     *)
LEMMA NamesStill ==
  ASSUME Shape', Names, Next, UNCHANGED handlerVars, life' = "up" => life = "up",
         \A c \in Conn : conn'[c] = "available" => conn[c] = "available" /\ request'[c] = request[c]
  PROVE  Names'
<1>1. raced \subseteq raced' /\ TakerIsAlone' BY RacedGrows
<1>2. ClosedIsOut' BY DEF Names, ClosedIsOut, handlerVars
<1>3. NameStillFree' BY <1>1 DEF Names, NameStillFree, handlerVars
<1>4. NamesMatch' BY <1>1 DEF Names, NamesMatch, LoggedIn, handlerVars
<1> QED BY <1>1, <1>2, <1>3, <1>4 DEF Names

LEMMA AcceptNames == ASSUME Shape, Shape', Names, Next, NEW c \in Conn, Accept(c) PROVE Names'
<1>1. raced \subseteq raced' /\ TakerIsAlone' BY RacedGrows
<1>2. /\ conn[c] = "new" /\ state[c] = "CONNECTING" /\ conn' = [conn EXCEPT ![c] = "read"]
      /\ sessions' = sessions \cup {c} /\ socketOpen' = socketOpen \cup {c}
      /\ UNCHANGED <<username, state, byName, request, life>>
  BY DEF Accept, createSession, ioVars, Shape, NewHasNoSession
<1>3. ClosedIsOut' BY <1>2 DEF Names, ClosedIsOut
<1>4. NameStillFree' BY <1>1, <1>2 DEF Names, NameStillFree, Shape, TypeOK
<1>5. \A d \in Conn : LoggedIn(d)' <=> LoggedIn(d) BY <1>2 DEF LoggedIn
<1>6. NamesMatch' BY <1>1, <1>2, <1>5 DEF Names, NamesMatch
<1> QED BY <1>1, <1>3, <1>4, <1>6 DEF Names

(* closeSession frees the name of the session it closes, and only that one: *)
(* of the names nobody raced for, the registered session is this one.       *)
LEMMA CloseNames ==
  ASSUME Shape, Shape', Names, Next, NEW c \in Conn, life = "up", closeSession(c),
         UNCHANGED <<request, life>>,
         \A d \in Conn : conn'[d] = "available" => conn[d] = "available"
  PROVE  Names'
<1>1. raced \subseteq raced' /\ TakerIsAlone' BY RacedGrows
<1>2. CASE c \notin sessions
  BY <1>2, NamesStill DEF closeSession
<1>3. CASE c \in sessions
  <2>1. /\ byName' = IF state[c] = "AUTHENTICATED"
                     THEN [byName EXCEPT ![username[c]] = None] ELSE byName
        /\ state' = [state EXCEPT ![c] = "DISCONNECTED"]
        /\ sessions' = sessions \ {c} /\ socketOpen' = socketOpen \ {c}
        /\ username' = username
    BY <1>3 DEF closeSession
  <2>2. TypeOK BY DEF Shape
  <2>3. ClosedIsOut' BY <2>1, <2>2 DEF Names, ClosedIsOut, TypeOK
  <2>4. \A u \in User : byName'[u] = None \/ byName'[u] = byName[u] BY <2>1, <2>2 DEF TypeOK
  <2>5. NameStillFree'
    BY <1>1, <2>4 DEF Names, NameStillFree, Shape, OnlyLoginsTake
  <2>6. NamesMatch'
    <3> SUFFICES ASSUME NEW u \in User \ raced
                 PROVE  {d \in Conn : LoggedIn(d)' /\ username'[d] = u} = {byName'[u]} \ {None}
      BY <1>1 DEF NamesMatch
    <3>1. {d \in Conn : LoggedIn(d) /\ username[d] = u} = {byName[u]} \ {None}
      BY DEF Names, NamesMatch
    <3>2. \A d \in Conn : LoggedIn(d)' <=> LoggedIn(d) /\ d # c BY <2>1, <2>2 DEF LoggedIn, TypeOK
    <3>3. CASE state[c] = "AUTHENTICATED" /\ username[c] = u
      <4>1. byName'[u] = None BY <2>1, <2>2, <3>3 DEF TypeOK
      <4>2. c \in {byName[u]} \ {None} BY <1>3, <3>1, <3>3 DEF LoggedIn
      <4> QED BY <2>1, <3>1, <3>2, <4>1, <4>2
    <3>4. CASE ~(state[c] = "AUTHENTICATED" /\ username[c] = u)
      <4>1. byName'[u] = byName[u] BY <2>1, <2>2, <3>4 DEF TypeOK
      <4>2. \A d \in Conn : LoggedIn(d)' /\ username'[d] = u <=> LoggedIn(d) /\ username[d] = u
        BY <2>1, <3>2, <3>4 DEF LoggedIn
      <4> QED BY <3>1, <4>1, <4>2
    <3> QED BY <3>3, <3>4
  <2> QED BY <1>1, <2>3, <2>5, <2>6 DEF Names
<1> QED BY <1>2, <1>3

LEMMA CheckNames == ASSUME Shape, Shape', Names, Next, NEW c \in Conn, CheckName(c) PROVE Names'
<1>1. raced \subseteq raced' /\ TakerIsAlone' BY RacedGrows
<1>2. UNCHANGED <<handlerVars, request, life>> BY DEF CheckName, ioVars
<1>3. ClosedIsOut' BY <1>2 DEF Names, ClosedIsOut, handlerVars
<1>4. NamesMatch' BY <1>1, <1>2 DEF Names, NamesMatch, LoggedIn, handlerVars
<1>5. \A d \in Conn \ {c} : conn'[d] = conn[d] BY DEF CheckName, Respond, Shape, TypeOK
<1>6. life = "up" /\ conn'[c] = "available" => byName[request[c].user] = None
  BY DEF CheckName, Respond, isUsernameAvailable, Shape, TypeOK
<1>7. NameStillFree' BY <1>1, <1>2, <1>5, <1>6 DEF Names, NameStillFree, handlerVars
<1> QED BY <1>1, <1>3, <1>4, <1>7 DEF Names

(* authenticateSession registers a name that is still free, unless it was   *)
(* raced for, and a session that gives a name up leaves it to raced.        *)
LEMMA LogInNames == ASSUME Shape, Shape', Names, Next, NEW c \in Conn, LogIn(c) PROVE Names'
<1> DEFINE w == request[c].user
<1>1. raced \subseteq raced' /\ TakerIsAlone' BY RacedGrows
<1>2. /\ conn[c] = "available" /\ (c \in sessions \/ life # "up")
      /\ username' = [username EXCEPT ![c] = w]
      /\ state' = [state EXCEPT ![c] = "AUTHENTICATED"]
      /\ byName' = [byName EXCEPT ![w] = c]
      /\ conn' = [conn EXCEPT ![c] = "posted"]
      /\ UNCHANGED <<sessions, socketOpen, request, life>>
  BY DEF LogIn, authenticateSession, Respond, ioVars
<1>3. TypeOK /\ w \in User BY <1>2 DEF Shape, OnlyLoginsTake
<1>4. ClosedIsOut' BY <1>2, <1>3 DEF Names, ClosedIsOut, TypeOK
<1>5. NameStillFree'
  <2> SUFFICES ASSUME life = "up", NEW d \in Conn, conn'[d] = "available",
                      request[d].user \notin raced'
               PROVE  byName'[request[d].user] = None
    BY <1>2 DEF NameStillFree
  <2>1. d # c /\ conn[d] = "available" BY <1>2, <1>3 DEF TypeOK
  <2>2. request[d].user # w BY <1>1, <1>2, <2>1 DEF Names, TakerIsAlone
  <2>3. request[d].user \in User BY <2>1 DEF Shape, OnlyLoginsTake
  <2> QED BY <1>1, <1>2, <1>3, <2>1, <2>2, <2>3 DEF Names, NameStillFree, TypeOK
<1>6. NamesMatch'
  <2> SUFFICES ASSUME life = "up", NEW u \in User \ raced'
               PROVE  {d \in Conn : LoggedIn(d)' /\ username'[d] = u} = {byName'[u]} \ {None}
    BY <1>2 DEF NamesMatch
  <2>1. {d \in Conn : LoggedIn(d) /\ username[d] = u} = {byName[u]} \ {None}
    BY <1>1 DEF Names, NamesMatch
  <2>2. \A d \in Conn : LoggedIn(d)' <=> LoggedIn(d) \/ d = c
    BY <1>2, <1>3 DEF LoggedIn, TypeOK
  <2>3. \A d \in Conn \ {c} : username'[d] = username[d] BY <1>2, <1>3 DEF TypeOK
  <2>4. username'[c] = w BY <1>2, <1>3 DEF TypeOK
  <2>5. CASE u = w
    <3>1. byName[u] = None BY <1>1, <1>2, <2>5 DEF Names, NameStillFree
    <3>2. byName'[u] = c /\ c # None BY <1>2, <1>3, <2>5, NoneAssumption DEF TypeOK
    <3> QED BY <2>1, <2>2, <2>3, <2>4, <2>5, <3>1, <3>2
  <2>6. CASE u # w
    <3>1. byName'[u] = byName[u] BY <1>2, <1>3, <2>6 DEF TypeOK
    <3>2. username[c] # u
      <4> SUFFICES ASSUME username[c] = u PROVE FALSE OBVIOUS
      <4>1. username[c] \notin {None, username'[c]} BY <2>4, <2>6, NoneAssumption
      <4>2. username[c] \in {username[e] : e \in {d \in Conn : username[d] \notin {None, username'[d]}}}
        BY <4>1
      <4> QED BY <4>2 DEF Next
    <3>3. \A d \in Conn : LoggedIn(d)' /\ username'[d] = u <=> LoggedIn(d) /\ username[d] = u
      BY <2>2, <2>3, <2>4, <2>6, <3>2
    <3> QED BY <2>1, <3>1, <3>3
  <2> QED BY <2>5, <2>6
<1> QED BY <1>1, <1>4, <1>5, <1>6 DEF Names

LEMMA NamesKept == ASSUME Shape, Shape', Names, Next PROVE Names'
<1>0. Step /\ TypeOK BY DEF Next, Shape
<1>1. ASSUME NEW c \in Conn, WorkerStep(c) PROVE Names'
  <2>1. CASE Begin(c)
    BY <2>1, <1>0, NamesStill DEF Begin, ioVars, TypeOK
  <2>2. CASE LogInFails(c) \/ Process(c)
    BY <2>2, <1>0, NamesStill DEF LogInFails, Process, Respond, ioVars, TypeOK
  <2> QED BY <1>1, <2>1, <2>2, CheckNames, LogInNames DEF WorkerStep
<1>2. ASSUME NEW c \in Conn, SendAndRead(c) PROVE Names'
  BY <1>2, <1>0, NamesStill DEF SendAndRead, ioVars, TypeOK
<1>3. ASSUME NEW c \in Conn, ReadError(c) \/ WriteError(c) \/ CleanupClose(c) PROVE Names'
  <2>1. life = "up" /\ closeSession(c) /\ UNCHANGED <<request, life>>
    BY <1>3 DEF ReadError, WriteError, CleanupClose, IoFree, ioVars
  <2>2. \A d \in Conn : conn'[d] = "available" => conn[d] = "available"
    BY <1>3, <1>0 DEF ReadError, WriteError, CleanupClose, TypeOK
  <2> QED BY <2>1, <2>2, CloseNames
<1>4. ASSUME UNCHANGED <<handlerVars, conn, request>>, life' \in {life, "gone"} PROVE Names'
  BY <1>4, NamesStill
<1>5. ASSUME NEW c \in Conn, AcceptThrows(c) \/ Written(c) \/ GoIdle(c) PROVE Names'
  BY <1>4, <1>5 DEF AcceptThrows, Written, GoIdle, ioVars
<1>6. ASSUME CleanupScan \/ stop \/ JoinPool \/ Gone PROVE Names'
  BY <1>4, <1>6 DEF CleanupScan, stop, JoinPool, Gone, vars, ioVars
<1>7. ASSUME DestroyHandler PROVE Names'
  <2>1. life' = "handlerGone" BY <1>7 DEF DestroyHandler
  <2> QED BY <2>1, RacedGrows DEF Names, ClosedIsOut, NameStillFree, NamesMatch
<1>8. ASSUME NEW c \in Conn, NEW r \in Request, Receive(c, r) PROVE Names'
  BY <1>8, <1>0, NamesStill DEF Receive, ioVars, TypeOK
<1> QED BY <1>0, <1>1, <1>2, <1>3, <1>5, <1>6, <1>7, <1>8, AcceptNames DEF Step

-----------------------------------------------------------------------------
(* Whatever the clients send, however workers, timer and signals interleave *)
(* and however many there are: the invariant holds.                         *)
THEOREM ServerInvariance == Spec => []ServerInv
<1>1. Init => ServerInv BY InitServer
<1>2. ServerInv /\ [Next]_serverVars => ServerInv'
  <2>1. ASSUME ServerInv, Next PROVE ServerInv'
    <3>1. Shape' BY <2>1, ShapeKept DEF ServerInv, Next
    <3> QED BY <2>1, <3>1, NamesKept DEF ServerInv
  <2>2. ASSUME ServerInv, UNCHANGED serverVars PROVE ServerInv'
    BY <2>2 DEF serverVars, vars, handlerVars, ioVars, ServerInv, Shape, Names, TypeOK,
       NewHasNoSession, QueueHoldsQueued, RoomToWrite, OnlyLoginsTake, ClosedIsOut,
       TakerIsAlone, NameStillFree, NamesMatch, LoggedIn
  <2> QED BY <2>1, <2>2
<1> QED BY <1>1, <1>2, PTL DEF Spec

(* SessionsConsistent for every number of connections, names and workers:   *)
(* username_to_session_ names exactly the live sessions that are logged in, *)
(* except for names two LOGINs raced for or a session gave up.              *)
THEOREM SessionsAgree == Spec => []SessionsConsistent
<1>1. ServerInv => SessionsConsistent BY DEF ServerInv, Shape, Names, SessionsConsistent
<1> QED BY <1>1, ServerInvariance, PTL

(* RefusedOnlyIfTaken for every number of connections and names: processData *)
(* answers "in use" only while a live session is logged in under the name.   *)
THEOREM RefusalsAreJustified == Spec => RefusedOnlyIfTaken
<1> DEFINE Justified == \A c \in Conn :
             /\ life = "up" /\ answer[c] = "none" /\ answer'[c] = "in use"
             /\ request[c].user \notin raced
             => \E d \in Conn : LoggedIn(d) /\ username[d] = request[c].user
<1>1. ServerInv /\ [Next]_serverVars => [Justified]_vars
  <2> SUFFICES ASSUME ServerInv, Next, NEW c \in Conn, life = "up", answer[c] = "none",
                      answer'[c] = "in use", request[c].user \notin raced
               PROVE  \E d \in Conn : LoggedIn(d) /\ username[d] = request[c].user
    BY DEF serverVars
  <2>0. TypeOK /\ Step BY DEF ServerInv, Shape, Next
  <2>1. PICK e \in Conn : CheckName(e) \/ LogIn(e) \/ LogInFails(e) \/ Process(e) \/ SendAndRead(e)
    BY <2>0 DEF Step, WorkerStep, Accept, AcceptThrows, Receive, ReadError, Written, WriteError,
       CleanupClose, Begin, GoIdle, CleanupScan, stop, DestroyHandler, JoinPool, Gone, vars
  <2>2. Reply(e) # "in use" BY DEF Reply
  <2>3. CheckName(c) /\ ~isUsernameAvailable(request[c].user)
    BY <2>0, <2>1, <2>2 DEF CheckName, LogIn, LogInFails, Process, SendAndRead, Respond, TypeOK
  <2>4. request[c].user \in User BY <2>0, <2>3, RequestFacts DEF CheckName, IsLogin, TypeOK
  <2>5. byName[request[c].user] # None BY <2>3 DEF isUsernameAvailable
  <2>6. {d \in Conn : LoggedIn(d) /\ username[d] = request[c].user} = {byName[request[c].user]} \ {None}
    BY <2>4 DEF ServerInv, Names, NamesMatch
  <2> QED BY <2>5, <2>6
<1> QED BY <1>1, ServerInvariance, PTL DEF Spec, RefusedOnlyIfTaken

(* ClosedForGood for every number of connections and workers: a login that  *)
(* is under way when the io thread closes the session does not bring it back. *)
THEOREM ClosedStaysClosed == Spec => ClosedForGood
<1> DEFINE Closed == \A c \in Conn : life' = "up" /\ state[c] = "DISCONNECTED" =>
             /\ state'[c] = "DISCONNECTED"
             /\ c \notin sessions' /\ c \notin socketOpen'
<1>1. ServerInv /\ [Next]_serverVars => [Closed]_vars
  <2> SUFFICES ASSUME ServerInv, Next, NEW c \in Conn, life' = "up", state[c] = "DISCONNECTED"
               PROVE  /\ state'[c] = "DISCONNECTED"
                      /\ c \notin sessions' /\ c \notin socketOpen'
    BY DEF serverVars
  <2>0. Shape /\ TypeOK /\ NewHasNoSession /\ Step BY DEF ServerInv, Shape, Next
  <2>1. life = "up"
    BY <2>0 DEF Step, WorkerStep, Accept, AcceptThrows, Receive, ReadError, SendAndRead, Written,
       WriteError, CleanupClose, Begin, CheckName, LogIn, LogInFails, Process, GoIdle, CleanupScan,
       stop, DestroyHandler, JoinPool, Gone, vars, ioVars
  <2>2. c \notin sessions /\ c \notin socketOpen BY <2>1 DEF ServerInv, Names, ClosedIsOut
  <2>3. ASSUME NEW e \in Conn, Accept(e) PROVE e # c
    BY <2>0, <2>3 DEF Accept, NewHasNoSession
  <2>4. ASSUME NEW e \in Conn, LogIn(e) PROVE e # c BY <2>1, <2>2, <2>4 DEF LogIn
  <2>5. ASSUME NEW e \in Conn, closeSession(e)
        PROVE  /\ state'[c] = "DISCONNECTED" /\ c \notin sessions' /\ c \notin socketOpen'
    BY <2>0, <2>2, <2>5 DEF closeSession, handlerVars, TypeOK
  <2>6. CASE UNCHANGED handlerVars BY <2>2, <2>6 DEF handlerVars
  <2>7. CASE \E e \in Conn : Accept(e)
    BY <2>0, <2>2, <2>3, <2>7 DEF Accept, createSession, TypeOK
  <2>8. CASE \E e \in Conn : LogIn(e)
    BY <2>0, <2>2, <2>4, <2>8 DEF LogIn, authenticateSession, TypeOK
  <2>9. CASE \E e \in Conn : closeSession(e) BY <2>5, <2>9
  <2>10. ~DestroyHandler BY DEF DestroyHandler
  <2> QED
    BY <2>0, <2>6, <2>7, <2>8, <2>9, <2>10 DEF Step, WorkerStep, AcceptThrows, Receive, ReadError,
       SendAndRead, Written, WriteError, CleanupClose, Begin, CheckName, LogInFails, Process,
       GoIdle, CleanupScan, stop, JoinPool, Gone, vars
<1> QED BY <1>1, ServerInvariance, PTL DEF Spec, ClosedForGood

-----------------------------------------------------------------------------
(* The websocket server (include/server/main.cpp).                          *)

EditPhase == {"away", "accepted", "reading", "left", "done"}
Applied == [number : Nat, by : Socket]
Reads(s) == phase[s] \in {"reading", "left"}

EditTypes ==
  /\ phase \in [Socket -> EditPhase] /\ idOf \in [Socket -> Nat]
  /\ clients \in [DOMAIN clients -> Socket] /\ DOMAIN clients \subseteq Nat \ {0}
  /\ IsFiniteSet(DOMAIN clients)
  /\ inbox \in [Socket -> Seq(Nat)] /\ revision \in Seq(Applied)
  /\ got \in [Socket -> Seq(Applied)] /\ joined \in [Socket -> Nat]
  /\ \A s \in Socket : joined[s] <= Len(revision)
  /\ edits \in Nat /\ overwritten \in BOOLEAN

\* A socket that has not joined has no name and was sent nothing; one that
\* is read has a name.
Newcomers ==
  \A s \in Socket :
    /\ phase[s] \in {"away", "accepted"} =>
         idOf[s] = 0 /\ got[s] = << >> /\ \A id \in DOMAIN clients : clients[id] # s
    /\ Reads(s) => idOf[s] # 0

\* Until a client has left, the names are those of the first n clients.
NamesCount ==
  (\A s \in Socket : phase[s] = "done" => idOf[s] = 0) =>
    ~overwritten /\ \E n \in Nat : DOMAIN clients = 1..n

\* g is what was applied behind revision from by others than s.
SentSince(g, rev, from, s) ==
  \E at \in [1..Len(g) -> (from + 1)..Len(rev)] :
    /\ \A i, j \in 1..Len(g) : i < j => at[i] < at[j]
    /\ \A i \in 1..Len(g) : g[i] = rev[at[i]]
    /\ \A k \in (from + 1)..Len(rev) : rev[k].by # s <=> \E i \in 1..Len(g) : at[i] = k

Followed ==
  ~overwritten => \A s \in Socket : Reads(s) => SentSince(got[s], revision, joined[s], s)

EditInv == EditTypes /\ Newcomers /\ NamesCount /\ ClientsAreReaders /\ Followed

\* at tells where in rev the n elements of g are.
SentAt(at, n, m, g, rev, from, s) ==
  /\ at \in [1..n -> (from + 1)..m]
  /\ \A i, j \in 1..n : i < j => at[i] < at[j]
  /\ \A i \in 1..n : g[i] = rev[at[i]]
  /\ \A k \in (from + 1)..m : rev[k].by # s <=> \E i \in 1..n : at[i] = k

LEMMA SentBy ==
  ASSUME NEW g, NEW rev, NEW from, NEW s, NEW at, SentAt(at, Len(g), Len(rev), g, rev, from, s)
  PROVE  SentSince(g, rev, from, s)
BY DEF SentSince, SentAt

LEMMA SentNothing ==
  ASSUME NEW s, NEW rev \in Seq(Applied)
  PROVE  SentSince(<< >>, rev, Len(rev), s)
<1>1. Len(<< >>) = 0 /\ Len(rev) \in Nat
  OBVIOUS
<1>2. << >> \in [1..0 -> (Len(rev) + 1)..Len(rev)]
  OBVIOUS
<1>3. \A i \in 1..0 : FALSE
  OBVIOUS
<1>4. \A k \in (Len(rev) + 1)..Len(rev) : FALSE
  BY <1>1
<1>5. SentAt(<< >>, 0, Len(rev), << >>, rev, Len(rev), s)
  BY <1>2, <1>3, <1>4 DEF SentAt
<1> QED
  BY <1>1, <1>5, SentBy

LEMMA SentMore ==
  ASSUME NEW s, NEW g \in Seq(Applied), NEW rev \in Seq(Applied), NEW from \in Nat,
         from <= Len(rev), NEW op \in Applied, SentSince(g, rev, from, s)
  PROVE  /\ op.by # s => SentSince(Append(g, op), Append(rev, op), from, s)
         /\ op.by = s => SentSince(g, Append(rev, op), from, s)
<1> DEFINE n == Len(g)
           m == Len(rev)
           h == Append(g, op)
           rev2 == Append(rev, op)
<1>1. PICK at \in [1..n -> (from + 1)..m] :
        /\ \A i, j \in 1..n : i < j => at[i] < at[j]
        /\ \A i \in 1..n : g[i] = rev[at[i]]
        /\ \A k \in (from + 1)..m : rev[k].by # s <=> \E i \in 1..n : at[i] = k
  BY DEF SentSince
<1>0. Len(g) = n
  OBVIOUS
<1>2. /\ n \in Nat /\ m \in Nat /\ Len(h) = n + 1 /\ Len(rev2) = m + 1
      /\ h[n + 1] = op /\ rev2[m + 1] = op
      /\ \A i \in 1..n : h[i] = g[i]
      /\ \A k \in 1..m : rev2[k] = rev[k]
  BY AppendProperties
<1>3. \A i \in 1..n : at[i] \in (from + 1)..m /\ at[i] \in 1..m
  BY <1>1, <1>2
<1> HIDE DEF n, m, h, rev2
<1>4. ASSUME op.by # s PROVE SentSince(h, rev2, from, s)
  <2> DEFINE b == [i \in 1..(n + 1) |-> IF i = n + 1 THEN m + 1 ELSE at[i]]
  <2>1. b \in [1..(n + 1) -> (from + 1)..(m + 1)]
    BY <1>2, <1>3 DEF m
  <2>2. b[n + 1] = m + 1 /\ \A i \in 1..n : b[i] = at[i]
    BY <1>2
  <2> HIDE DEF b
  <2>3. \A i, j \in 1..(n + 1) : i < j => b[i] < b[j]
    <3> SUFFICES ASSUME NEW i \in 1..(n + 1), NEW j \in 1..(n + 1), i < j PROVE b[i] < b[j]
      OBVIOUS
    <3>1. i \in 1..n /\ (j \in 1..n \/ j = n + 1)
      BY <1>2
    <3>2. b[i] = at[i] /\ at[i] \in 1..m
      BY <1>3, <2>2, <3>1
    <3>3. CASE j \in 1..n
      <4>1. b[j] = at[j]
        BY <2>2, <3>3
      <4> QED
        BY <1>1, <3>1, <3>2, <3>3, <4>1
    <3>4. CASE j = n + 1
      <4>1. b[j] = m + 1
        BY <2>2, <3>4
      <4> QED
        BY <1>2, <3>2, <4>1
    <3> QED
      BY <3>1, <3>3, <3>4
  <2>4. \A i \in 1..(n + 1) : h[i] = rev2[b[i]]
    <3> TAKE i \in 1..(n + 1)
    <3>1. CASE i = n + 1
      BY <1>2, <2>2, <3>1
    <3>2. CASE i \in 1..n
      <4>1. b[i] \in 1..m /\ h[i] = rev[b[i]]
        BY <1>1, <1>2, <1>3, <2>2, <3>2
      <4> QED
        BY <1>2, <4>1
    <3> QED
      BY <1>2, <3>1, <3>2
  <2>5. \A k \in (from + 1)..(m + 1) : rev2[k].by # s <=> \E i \in 1..(n + 1) : b[i] = k
    <3> TAKE k \in (from + 1)..(m + 1)
    <3>1. CASE k = m + 1
      BY <1>2, <1>4, <2>2, <3>1
    <3>2. CASE k # m + 1
      <4>1. k \in (from + 1)..m /\ k \in 1..m
        BY <1>2, <3>2
      <4>2. rev2[k] = rev[k]
        BY <1>2, <4>1
      <4>3. (\E i \in 1..n : at[i] = k) <=> \E i \in 1..(n + 1) : b[i] = k
        BY <1>2, <2>2, <3>2
      <4> QED
        BY <1>1, <4>1, <4>2, <4>3
    <3> QED
      BY <3>1, <3>2
  <2>6. SentAt(b, n + 1, m + 1, h, rev2, from, s)
    BY <2>1, <2>3, <2>4, <2>5, Zenon DEF SentAt
  <2> QED
    BY <1>2, <2>6, SentBy
<1>5. ASSUME op.by = s PROVE SentSince(g, rev2, from, s)
  <2>1. at \in [1..n -> (from + 1)..(m + 1)]
    BY <1>1, <1>2
  <2>2. \A i \in 1..n : g[i] = rev2[at[i]]
    <3> TAKE i \in 1..n
    <3>1. at[i] \in 1..m /\ g[i] = rev[at[i]]
      BY <1>1, <1>3
    <3> QED
      BY <1>2, <3>1
  <2>3. \A k \in (from + 1)..(m + 1) : rev2[k].by # s <=> \E i \in 1..n : at[i] = k
    <3> TAKE k \in (from + 1)..(m + 1)
    <3>1. CASE k = m + 1
      BY <1>2, <1>3, <1>5, <3>1
    <3>2. CASE k # m + 1
      <4>1. k \in (from + 1)..m /\ k \in 1..m
        BY <1>2, <3>2
      <4> QED
        BY <1>1, <1>2, <4>1
    <3> QED
      BY <3>1, <3>2
  <2>4. SentAt(at, n, m + 1, g, rev2, from, s)
    BY <1>1, <2>1, <2>2, <2>3, Zenon DEF SentAt
  <2> QED
    BY <1>0, <1>2, <2>4, SentBy
<1> QED
  BY <1>4, <1>5 DEF h, rev2

LEMMA EditInit == EditingInit => EditInv
<1> SUFFICES ASSUME EditingInit PROVE EditInv
  OBVIOUS
<1>1. DOMAIN clients = {} /\ DOMAIN clients = 1..0
  BY DEF EditingInit
<1>2. EditTypes
  <2>1. IsFiniteSet(DOMAIN clients)
    BY <1>1, FS_EmptySet
  <2>2. clients \in [DOMAIN clients -> Socket]
    BY <1>1 DEF EditingInit
  <2>3. \A s \in Socket : joined[s] <= Len(revision)
    BY DEF EditingInit
  <2>4. phase \in [Socket -> EditPhase] /\ idOf \in [Socket -> Nat] /\ joined \in [Socket -> Nat]
    BY DEF EditingInit, EditPhase
  <2>5. /\ inbox \in [Socket -> Seq(Nat)] /\ got \in [Socket -> Seq(Applied)]
        /\ revision \in Seq(Applied)
    BY DEF EditingInit
  <2>6. edits \in Nat /\ overwritten \in BOOLEAN
    BY DEF EditingInit
  <2> QED
    BY <1>1, <2>1, <2>2, <2>3, <2>4, <2>5, <2>6 DEF EditTypes
<1>3. Newcomers
  BY <1>1 DEF Newcomers, EditingInit, Reads
<1>4. NamesCount
  BY <1>1 DEF NamesCount, EditingInit
<1>5. ClientsAreReaders
  BY <1>1 DEF ClientsAreReaders, EditingInit, Range
<1>6. Followed
  BY DEF Followed, Reads, EditingInit
<1> QED
  BY <1>2, <1>3, <1>4, <1>5, <1>6 DEF EditInv

\* The steps that only move a socket that is not done on, among those that
\* are read or among those that are not.
LEMMA MovesOn ==
  ASSUME EditInv, NEW s \in Socket, NEW p \in EditPhase, phase' = [phase EXCEPT ![s] = p],
         \/ phase[s] \in {"away", "accepted"} /\ p \in {"accepted", "done"}
         \/ phase[s] = "reading" /\ p = "left",
         UNCHANGED <<idOf, clients, inbox, revision, got, joined, edits, overwritten>>
  PROVE  EditInv'
<1>0. /\ \A r \in Socket : phase'[r] = IF r = s THEN p ELSE phase[r]
      /\ phase' \in [Socket -> EditPhase]
  BY DEF EditInv, EditTypes
<1>1. \A r \in Socket : phase'[r] \in {"reading", "left"} <=> phase[r] \in {"reading", "left"}
  BY <1>0
<1>2. EditTypes'
  BY <1>0 DEF EditInv, EditTypes
<1>3. Newcomers'
  BY <1>0, <1>1 DEF EditInv, Newcomers, Reads
<1>4. NamesCount'
  <2>1. \A r \in Socket : phase[r] = "done" => phase'[r] = "done"
    BY <1>0
  <2> QED
    BY <2>1 DEF EditInv, NamesCount
<1>5. ClientsAreReaders'
  BY <1>1 DEF EditInv, ClientsAreReaders
<1>6. Followed'
  BY <1>1 DEF EditInv, Followed, Reads
<1> QED
  BY <1>2, <1>3, <1>4, <1>5, <1>6 DEF EditInv

LEMMA EditKept == ASSUME EditInv, NEW s \in Socket, Edit(s) PROVE EditInv'
<1>1. edits' \in Nat /\ inbox' \in [Socket -> Seq(Nat)]
  BY DEF EditInv, EditTypes, Edit
<1>2. UNCHANGED <<phase, idOf, clients, revision, got, joined, overwritten>>
  BY DEF Edit
<1>3. EditTypes'
  BY <1>1, <1>2 DEF EditInv, EditTypes
<1> QED
  BY <1>2, <1>3 DEF EditInv, Newcomers, Reads, NamesCount, ClientsAreReaders, Followed

LEMMA HandleAcceptKept == ASSUME EditInv, NEW s \in Socket, HandleAccept(s) PROVE EditInv'
<1> DEFINE D == DOMAIN clients
           id == Cardinality(D) + 1
<1>0. EditTypes /\ Newcomers /\ NamesCount /\ ClientsAreReaders /\ Followed
  BY DEF EditInv
<1>1. id \in Nat \ {0}
  BY <1>0, FS_CardinalityType DEF EditTypes
<1>2. /\ phase[s] = "accepted" /\ phase' = [phase EXCEPT ![s] = "reading"]
      /\ idOf' = [idOf EXCEPT ![s] = id]
      /\ clients' = [x \in D \cup {id} |-> IF x = id THEN s ELSE clients[x]]
      /\ overwritten' = (overwritten \/ id \in D)
      /\ joined' = [joined EXCEPT ![s] = Len(revision)]
      /\ inbox' = inbox /\ revision' = revision /\ got' = got /\ edits' = edits
  BY DEF HandleAccept
<1>3. IsFiniteSet(D) /\ D \subseteq Nat \ {0} /\ IsFiniteSet(D \cup {id})
  BY <1>0, FS_AddElement DEF EditTypes
<1> HIDE DEF id
<1>4. DOMAIN clients' = D \cup {id} /\ clients'[id] = s /\ \A x \in D : x # id => clients'[x] = clients[x]
  BY <1>2
<1>5. \A r \in Socket : /\ phase'[r] = IF r = s THEN "reading" ELSE phase[r]
                        /\ idOf'[r] = IF r = s THEN id ELSE idOf[r]
                        /\ joined'[r] = IF r = s THEN Len(revision) ELSE joined[r]
  BY <1>0, <1>2 DEF EditTypes
<1>6. got[s] = << >> /\ \A x \in D : clients[x] # s
  BY <1>0, <1>2 DEF Newcomers
<1>7. EditTypes'
  <2>1. phase' \in [Socket -> EditPhase] /\ idOf' \in [Socket -> Nat]
    BY <1>0, <1>1, <1>2 DEF EditTypes, EditPhase
  <2>2. clients' \in [DOMAIN clients' -> Socket] /\ DOMAIN clients' \subseteq Nat \ {0}
    BY <1>0, <1>1, <1>2, <1>3 DEF EditTypes
  <2>3. IsFiniteSet(DOMAIN clients')
    BY <1>3, <1>4
  <2>4. Len(revision) \in Nat
    BY <1>0 DEF EditTypes
  <2>5. joined' \in [Socket -> Nat] /\ \A r \in Socket : joined'[r] <= Len(revision')
    BY <1>0, <1>2, <1>5, <2>4 DEF EditTypes
  <2>6. overwritten' \in BOOLEAN
    BY <1>0, <1>2, Zenon DEF EditTypes
  <2> QED
    BY <1>0, <1>2, <2>1, <2>2, <2>3, <2>5, <2>6 DEF EditTypes
<1>8. Newcomers'
  BY <1>0, <1>1, <1>2, <1>4, <1>5 DEF Newcomers, Reads
<1>9. NamesCount'
  <2> SUFFICES ASSUME \A r \in Socket : phase'[r] = "done" => idOf'[r] = 0
               PROVE  ~overwritten' /\ \E n \in Nat : DOMAIN clients' = 1..n
    BY DEF NamesCount
  <2>1. \A r \in Socket : phase[r] = "done" => idOf[r] = 0
    BY <1>2, <1>5
  <2>2. PICK n \in Nat : ~overwritten /\ D = 1..n
    BY <1>0, <2>1 DEF NamesCount
  <2>3. id = n + 1
    BY <2>2, FS_Interval DEF id
  <2>4. id \notin D /\ D \cup {id} = 1..(n + 1)
    BY <2>2, <2>3
  <2>5. ~overwritten'
    BY <1>2, <2>2, <2>4, Zenon
  <2>6. DOMAIN clients' = 1..(n + 1) /\ n + 1 \in Nat
    BY <1>4, <2>4
  <2> QED
    BY <2>5, <2>6
<1>10. ClientsAreReaders'
  <2> SUFFICES ASSUME ~overwritten'
               PROVE  /\ Range(clients') = {r \in Socket : phase'[r] \in {"reading", "left"}}
                      /\ \A x \in DOMAIN clients' : idOf'[clients'[x]] = x
    BY DEF ClientsAreReaders
  <2>1. ~overwritten /\ id \notin D
    BY <1>2, Zenon
  <2>2. /\ Range(clients) = {r \in Socket : phase[r] \in {"reading", "left"}}
        /\ \A x \in D : idOf[clients[x]] = x
    BY <1>0, <2>1 DEF ClientsAreReaders
  <2>3. Range(clients') = Range(clients) \cup {s}
    BY <1>4, <2>1 DEF Range
  <2>4. {r \in Socket : phase'[r] \in {"reading", "left"}}
          = {r \in Socket : phase[r] \in {"reading", "left"}} \cup {s}
    BY <1>5
  <2>5. \A x \in DOMAIN clients' : idOf'[clients'[x]] = x
    BY <1>0, <1>4, <1>5, <1>6, <2>1, <2>2 DEF EditTypes
  <2> QED
    BY <2>2, <2>3, <2>4, <2>5
<1>11. Followed'
  <2> SUFFICES ASSUME ~overwritten', NEW r \in Socket, Reads(r)'
               PROVE  SentSince(got'[r], revision', joined'[r], r)
    BY DEF Followed
  <2>1. ~overwritten
    BY <1>2, Zenon
  <2>2. CASE r = s
    <3>1. SentSince(<< >>, revision, Len(revision), s)
      BY <1>0, SentNothing DEF EditTypes
    <3> QED
      BY <1>2, <1>5, <1>6, <2>2, <3>1
  <2>3. CASE r # s
    <3>1. Reads(r)
      BY <1>5, <2>3 DEF Reads
    <3>2. SentSince(got[r], revision, joined[r], r)
      BY <1>0, <2>1, <3>1 DEF Followed
    <3> QED
      BY <1>2, <1>5, <2>3, <3>2
  <2> QED
    BY <2>2, <2>3
<1> QED
  BY <1>7, <1>8, <1>9, <1>10, <1>11 DEF EditInv

\* A client is sent an operation when it is one of the others, as long as
\* every name stands for one client.
LEMMA ReachesOthers ==
  ASSUME EditInv, ~overwritten, NEW s \in Socket, Reads(s), NEW r \in Socket, Reads(r)
  PROVE  (\E id \in DOMAIN clients \ {idOf[s]} : clients[id] = r) <=> r # s
<1>1. /\ Range(clients) = {x \in Socket : phase[x] \in {"reading", "left"}}
      /\ \A id \in DOMAIN clients : idOf[clients[id]] = id
  BY DEF EditInv, ClientsAreReaders
<1>2. PICK a \in DOMAIN clients : clients[a] = s
  BY <1>1 DEF Range, Reads
<1>3. PICK b \in DOMAIN clients : clients[b] = r
  BY <1>1 DEF Range, Reads
<1>4. idOf[s] = a /\ idOf[r] = b
  BY <1>1, <1>2, <1>3
<1> QED
  BY <1>1, <1>2, <1>3, <1>4

LEMMA HandleReadKept == ASSUME EditInv, NEW s \in Socket, HandleRead(s) PROVE EditInv'
<1> DEFINE op == [number |-> Head(inbox[s]), by |-> s]
<1>0. EditTypes /\ Newcomers /\ NamesCount /\ ClientsAreReaders /\ Followed
  BY DEF EditInv
<1>1. /\ phase' = phase /\ idOf' = idOf /\ clients' = clients /\ joined' = joined
      /\ edits' = edits /\ overwritten' = overwritten
      /\ Reads(s) /\ inbox[s] # << >> /\ inbox' = [inbox EXCEPT ![s] = Tail(inbox[s])]
  BY DEF HandleRead, Reads
<1>2. inbox' \in [Socket -> Seq(Nat)]
  BY <1>0, <1>1 DEF EditTypes
<1>3. NamesCount' /\ ClientsAreReaders'
  BY <1>0, <1>1 DEF NamesCount, ClientsAreReaders
<1>4. CASE UNCHANGED <<revision, got>>
  <2>1. EditTypes'
    BY <1>0, <1>1, <1>2, <1>4 DEF EditTypes
  <2>2. Newcomers' /\ Followed'
    BY <1>0, <1>1, <1>4 DEF Newcomers, Followed, Reads
  <2> QED
    BY <1>3, <2>1, <2>2 DEF EditInv
<1>5. CASE revision' = Append(revision, op) /\ got' = broadcastOperation(idOf[s], op)
  <2>1. op \in Applied /\ op.by = s
    BY <1>0, <1>1 DEF EditTypes, Applied
  <2> HIDE DEF op
  <2>2. /\ revision' \in Seq(Applied) /\ Len(revision') = Len(revision) + 1
        /\ Len(revision) \in Nat
    BY <1>0, <1>5, <2>1, AppendProperties DEF EditTypes
  <2>3. got' \in [Socket -> Seq(Applied)]
    BY <1>0, <1>5, <2>1, AppendProperties DEF EditTypes, broadcastOperation
  <2>4. \A r \in Socket : got'[r] = IF \E id \in DOMAIN clients \ {idOf[s]} : clients[id] = r
                                    THEN Append(got[r], op) ELSE got[r]
    BY <1>5 DEF broadcastOperation
  <2>5. EditTypes'
    <3>1. \A r \in Socket : joined'[r] <= Len(revision')
      BY <1>0, <1>1, <2>2 DEF EditTypes
    <3> QED
      BY <1>0, <1>1, <1>2, <2>2, <2>3, <3>1 DEF EditTypes
  <2>6. Newcomers'
    BY <1>0, <1>1, <2>4 DEF Newcomers, Reads
  <2>7. Followed'
    <3> SUFFICES ASSUME ~overwritten', NEW r \in Socket, Reads(r)'
                 PROVE  SentSince(got'[r], revision', joined'[r], r)
      BY DEF Followed
    <3>1. ~overwritten /\ Reads(r)
      BY <1>1 DEF Reads
    <3>2. SentSince(got[r], revision, joined[r], r)
      BY <1>0, <3>1 DEF Followed
    <3>3. /\ op.by # r => SentSince(Append(got[r], op), Append(revision, op), joined[r], r)
          /\ op.by = r => SentSince(got[r], Append(revision, op), joined[r], r)
      BY <1>0, <2>1, <3>2, SentMore DEF EditTypes
    <3>4. got'[r] = IF r # s THEN Append(got[r], op) ELSE got[r]
      BY <1>1, <2>4, <3>1, ReachesOthers
    <3> QED
      BY <1>1, <1>5, <2>1, <3>3, <3>4
  <2> QED
    BY <1>3, <2>5, <2>6, <2>7 DEF EditInv
<1> QED
  BY <1>4, <1>5 DEF HandleRead

LEMMA HandleReadErrorKept == ASSUME EditInv, NEW s \in Socket, HandleReadError(s) PROVE EditInv'
<1> DEFINE D == DOMAIN clients
           E == D \ {idOf[s]}
<1>0. EditTypes /\ Newcomers /\ NamesCount /\ ClientsAreReaders /\ Followed
  BY DEF EditInv
<1>1. /\ phase[s] = "left" /\ phase' = [phase EXCEPT ![s] = "done"]
      /\ clients' = [x \in E |-> clients[x]]
      /\ idOf' = idOf /\ inbox' = inbox /\ revision' = revision /\ got' = got
      /\ joined' = joined /\ edits' = edits /\ overwritten' = overwritten
  BY DEF HandleReadError, Restrict
<1>2. DOMAIN clients' = E /\ \A x \in E : clients'[x] = clients[x]
  BY <1>1
<1>3. \A r \in Socket : phase'[r] = IF r = s THEN "done" ELSE phase[r]
  BY <1>0, <1>1 DEF EditTypes
<1>4. idOf[s] # 0
  BY <1>0, <1>1 DEF Newcomers, Reads
<1>5. EditTypes'
  <2>1. IsFiniteSet(E)
    BY <1>0, FS_Subset DEF EditTypes
  <2>2. clients' \in [DOMAIN clients' -> Socket] /\ DOMAIN clients' \subseteq Nat \ {0}
    BY <1>0, <1>1, <1>2 DEF EditTypes
  <2>3. phase' \in [Socket -> EditPhase]
    BY <1>0, <1>1 DEF EditTypes, EditPhase
  <2> QED
    BY <1>0, <1>1, <1>2, <2>1, <2>2, <2>3 DEF EditTypes
<1>6. Newcomers'
  BY <1>0, <1>1, <1>2, <1>3 DEF Newcomers, Reads
<1>7. NamesCount'
  BY <1>1, <1>3, <1>4 DEF NamesCount
<1>8. ClientsAreReaders'
  <2> SUFFICES ASSUME ~overwritten
               PROVE  /\ Range(clients') = {r \in Socket : phase'[r] \in {"reading", "left"}}
                      /\ \A x \in DOMAIN clients' : idOf'[clients'[x]] = x
    BY <1>1 DEF ClientsAreReaders
  <2>1. /\ Range(clients) = {r \in Socket : phase[r] \in {"reading", "left"}}
        /\ \A x \in D : idOf[clients[x]] = x
    BY <1>0 DEF ClientsAreReaders
  <2>2. PICK a \in D : clients[a] = s
    BY <1>1, <2>1 DEF Range
  <2>3. a = idOf[s] /\ \A x \in E : clients[x] # s
    BY <2>1, <2>2
  <2>4. Range(clients') = Range(clients) \ {s}
    BY <1>2, <2>2, <2>3 DEF Range
  <2>5. {r \in Socket : phase'[r] \in {"reading", "left"}}
          = {r \in Socket : phase[r] \in {"reading", "left"}} \ {s}
    BY <1>3
  <2> QED
    BY <1>1, <1>2, <2>1, <2>4, <2>5
<1>9. Followed'
  BY <1>0, <1>1, <1>3 DEF Followed, Reads
<1> QED
  BY <1>5, <1>6, <1>7, <1>8, <1>9 DEF EditInv

LEMMA EditNext == EditInv /\ [EditingNext]_editingVars => EditInv'
<1> SUFFICES ASSUME EditInv, [EditingNext]_editingVars PROVE EditInv'
  OBVIOUS
<1>1. CASE UNCHANGED editingVars
  BY <1>1 DEF editingVars, EditInv, EditTypes, Newcomers, Reads, NamesCount, ClientsAreReaders,
     Followed
<1>2. ASSUME NEW s \in Socket, doAccept(s) PROVE EditInv'
  BY <1>2, MovesOn DEF doAccept, EditPhase
<1>3. ASSUME NEW s \in Socket, HandshakeFails(s) PROVE EditInv'
  BY <1>3, MovesOn DEF HandshakeFails, EditPhase
<1>4. ASSUME NEW s \in Socket, Leave(s) PROVE EditInv'
  BY <1>4, MovesOn DEF Leave, EditPhase
<1> QED
  BY <1>1, <1>2, <1>3, <1>4, EditKept, HandleAcceptKept, HandleReadKept, HandleReadErrorKept
  DEF EditingNext

EditSpec == EditingInit /\ [][EditingNext]_editingVars

(* For any sockets and any number of edits: as long as no name in use was   *)
(* given out again, every client has been sent exactly what the others      *)
(* applied since it joined, in order, and clients_ holds exactly those that *)
(* are read; a name is given out again only after a client left.            *)
THEOREM ClientsAreFollowed == EditSpec => []ClientsFollowed
<1>1. EditInv => ClientsFollowed
  <2> SUFFICES ASSUME EditInv PROVE ClientsFollowed
    OBVIOUS
  <2>1. OthersAreTold
    BY DEF EditInv, Followed, SentSince, Reads, OthersAreTold
  <2>2. ReusedOnlyAfterLeave
    BY DEF EditInv, NamesCount, ReusedOnlyAfterLeave
  <2> QED
    BY <2>1, <2>2 DEF EditInv, ClientsFollowed
<1> QED
  BY <1>1, EditInit, EditNext, PTL DEF EditSpec

-----------------------------------------------------------------------------
(* The logger (include/common/util/logger.h).                               *)

\* LogHasNoGaps of the parts P, n lines having been written.
NoGaps(P, n) ==
  \A p \in Place : \A i \in 1..Len(P[p]) :
    /\ P[p][i] \in 1..n
    /\ P[p][i] = n \/ \E q \in Place : \E j \in 1..Len(P[q]) : P[q][j] = P[p][i] + 1
    /\ \A q \in Place : \A j \in 1..Len(P[q]) :
         p > q \/ (p = q /\ i < j) => P[p][i] < P[q][j]

LEMMA GapsAppend ==
  ASSUME NEW P \in [Place -> Seq(Int)], NEW n \in Nat, NoGaps(P, n)
  PROVE  NoGaps([P EXCEPT ![0] = Append(P[0], n + 1)], n + 1)
<1> DEFINE Q == [P EXCEPT ![0] = Append(P[0], n + 1)]
           z == Len(P[0]) + 1
<1>1. 0 \in Place /\ Place \subseteq Nat
  BY LoggerAssumption DEF Place
<1>2. /\ Len(P[0]) \in Nat /\ z \in Nat /\ Len(Q[0]) = z /\ Q[0][z] = n + 1
      /\ \A i \in 1..Len(P[0]) : Q[0][i] = P[0][i]
  BY <1>1, AppendProperties
<1>3. \A p \in Place : p # 0 => Q[p] = P[p]
  OBVIOUS
<1>4. \A p \in Place : \A i \in 1..Len(Q[p]) :
        (p = 0 /\ i = z) \/ (i \in 1..Len(P[p]) /\ Q[p][i] = P[p][i])
  <2> SUFFICES ASSUME NEW p \in Place, NEW i \in 1..Len(Q[p])
               PROVE  (p = 0 /\ i = z) \/ (i \in 1..Len(P[p]) /\ Q[p][i] = P[p][i])
    OBVIOUS
  <2>1. CASE p # 0
    BY <1>3, <2>1
  <2>2. CASE p = 0
    <3> HIDE DEF Q
    <3>1. i \in 1..z
      BY <1>2, <2>2
    <3>2. i = z \/ i \in 1..Len(P[0])
      BY <1>2, <3>1
    <3> QED
      BY <1>2, <2>2, <3>2
  <2> QED
    BY <2>1, <2>2
<1>5. \A p \in Place : \A i \in 1..Len(P[p]) : i \in 1..Len(Q[p]) /\ Q[p][i] = P[p][i]
  BY <1>2, <1>3
<1>6. 0 \in Place /\ z \in 1..Len(Q[0])
  BY <1>1, <1>2
<1> HIDE DEF Q, z
<1> SUFFICES ASSUME NEW p \in Place, NEW i \in 1..Len(Q[p])
             PROVE  /\ Q[p][i] \in 1..(n + 1)
                    /\ Q[p][i] = n + 1 \/ \E q \in Place : \E j \in 1..Len(Q[q]) : Q[q][j] = Q[p][i] + 1
                    /\ \A q \in Place : \A j \in 1..Len(Q[q]) :
                         p > q \/ (p = q /\ i < j) => Q[p][i] < Q[q][j]
  BY DEF NoGaps, Q
<1>7. CASE p = 0 /\ i = z
  <2>1. \A q \in Place : \A j \in 1..Len(Q[q]) : ~(p > q \/ (p = q /\ i < j))
    <3> SUFFICES ASSUME NEW q \in Place, NEW j \in 1..Len(Q[q]), p > q \/ (p = q /\ i < j)
                 PROVE  FALSE
      OBVIOUS
    <3>1. q = 0 /\ i < j
      BY <1>1, <1>7
    <3>2. j \in 1..z
      BY <1>2, <3>1
    <3> QED
      BY <1>2, <1>7, <3>1, <3>2
  <2> QED
    BY <1>2, <1>7, <2>1
<1>8. CASE i \in 1..Len(P[p]) /\ Q[p][i] = P[p][i]
  <2>1. /\ P[p][i] \in 1..n
        /\ P[p][i] = n \/ \E q \in Place : \E j \in 1..Len(P[q]) : P[q][j] = P[p][i] + 1
        /\ \A q \in Place : \A j \in 1..Len(P[q]) :
             p > q \/ (p = q /\ i < j) => P[p][i] < P[q][j]
    BY <1>8 DEF NoGaps
  <2>2. Q[p][i] = n + 1 \/ \E q \in Place : \E j \in 1..Len(Q[q]) : Q[q][j] = Q[p][i] + 1
    <3>1. CASE P[p][i] = n
      BY <1>2, <1>6, <1>8, <3>1
    <3>2. CASE \E q \in Place : \E j \in 1..Len(P[q]) : P[q][j] = P[p][i] + 1
      BY <1>5, <1>8, <3>2
    <3> QED
      BY <2>1, <3>1, <3>2
  <2>3. ASSUME NEW q \in Place, NEW j \in 1..Len(Q[q]), p > q \/ (p = q /\ i < j)
        PROVE  Q[p][i] < Q[q][j]
    <3>1. CASE q = 0 /\ j = z
      BY <1>2, <1>8, <2>1, <3>1
    <3>2. CASE j \in 1..Len(P[q]) /\ Q[q][j] = P[q][j]
      BY <1>8, <2>1, <2>3, <3>2
    <3> QED
      BY <1>4, <3>1, <3>2
  <2> QED
    BY <1>8, <2>1, <2>2, <2>3
<1> QED
  BY <1>4, <1>7, <1>8

LEMMA GapsDrop ==
  ASSUME NEW P \in [Place -> Seq(Int)], NEW n \in Nat, NoGaps(P, n)
  PROVE  NoGaps([P EXCEPT ![MaxBackups] = << >>], n)
<1> DEFINE Q == [P EXCEPT ![MaxBackups] = << >>]
<1>1. MaxBackups \in Place /\ Place \subseteq Nat /\ \A p \in Place : p <= MaxBackups
  BY LoggerAssumption DEF Place
<1>2. Len(Q[MaxBackups]) = 0 /\ \A p \in Place : p # MaxBackups => Q[p] = P[p]
  BY <1>1
<1>3. \A p \in Place : \A i \in 1..Len(Q[p]) : p # MaxBackups /\ Q[p] = P[p] /\ i \in 1..Len(P[p])
  BY <1>2
<1> HIDE DEF Q
<1> SUFFICES ASSUME NEW p \in Place, NEW i \in 1..Len(Q[p])
             PROVE  /\ Q[p][i] \in 1..n
                    /\ Q[p][i] = n \/ \E q \in Place : \E j \in 1..Len(Q[q]) : Q[q][j] = Q[p][i] + 1
                    /\ \A q \in Place : \A j \in 1..Len(Q[q]) :
                         p > q \/ (p = q /\ i < j) => Q[p][i] < Q[q][j]
  BY DEF NoGaps, Q
<1>4. /\ P[p][i] \in 1..n
      /\ P[p][i] = n \/ \E q \in Place : \E j \in 1..Len(P[q]) : P[q][j] = P[p][i] + 1
      /\ \A q \in Place : \A j \in 1..Len(P[q]) :
           p > q \/ (p = q /\ i < j) => P[p][i] < P[q][j]
  BY <1>3 DEF NoGaps
<1>5. ASSUME NEW q \in Place, NEW j \in 1..Len(P[q]), P[q][j] = P[p][i] + 1 PROVE q # MaxBackups
  <2> SUFFICES ASSUME q = MaxBackups PROVE FALSE
    OBVIOUS
  <2>1. q > p
    BY <1>1, <1>3
  <2>2. P[q][j] < P[p][i]
    BY <1>3, <2>1 DEF NoGaps
  <2> QED
    BY <1>4, <1>5, <2>2
<1>6. Q[p][i] = n \/ \E q \in Place : \E j \in 1..Len(Q[q]) : Q[q][j] = Q[p][i] + 1
  <2>1. CASE P[p][i] = n
    BY <1>3, <2>1
  <2>2. CASE P[p][i] # n
    <3>1. PICK q \in Place : \E j \in 1..Len(P[q]) : P[q][j] = P[p][i] + 1
      BY <1>4, <2>2
    <3>2. PICK j \in 1..Len(P[q]) : P[q][j] = P[p][i] + 1
      BY <3>1
    <3>3. Q[q] = P[q]
      BY <1>2, <1>5, <3>2
    <3> QED
      BY <1>3, <3>2, <3>3
  <2> QED
    BY <2>1, <2>2
<1> QED
  BY <1>3, <1>4, <1>6

LEMMA GapsMove ==
  ASSUME NEW P \in [Place -> Seq(Int)], NEW n \in Nat, NoGaps(P, n),
         NEW k \in 0..(MaxBackups - 1), P[k + 1] = << >>
  PROVE  NoGaps([P EXCEPT ![k + 1] = P[k], ![k] = << >>], n)
<1> DEFINE Q == [P EXCEPT ![k + 1] = P[k], ![k] = << >>]
           Src(q) == IF q = k + 1 THEN k ELSE q
           Dst(q) == IF q = k THEN k + 1 ELSE q
<1>1. k \in Place /\ k + 1 \in Place /\ k # k + 1 /\ k \in Nat /\ Place \subseteq Nat
  BY LoggerAssumption DEF Place
<1>2. Q[k + 1] = P[k] /\ Q[k] = << >> /\ \A q \in Place : q # k /\ q # k + 1 => Q[q] = P[q]
  BY <1>1
<1>3. Len(Q[k]) = 0 /\ Len(P[k + 1]) = 0
  BY <1>2
<1> HIDE DEF Q
<1>4. \A q \in Place : \A j \in 1..Len(Q[q]) :
        q # k /\ Src(q) \in Place /\ Q[q] = P[Src(q)] /\ j \in 1..Len(P[Src(q)])
  BY <1>1, <1>2, <1>3
<1>5. \A q \in Place : \A j \in 1..Len(P[q]) :
        Dst(q) \in Place /\ Q[Dst(q)] = P[q] /\ j \in 1..Len(Q[Dst(q)])
  BY SMTT(30), <1>1, <1>2, <1>3
<1>6. \A p, q \in Place : /\ p > q /\ q # k => Src(p) > Src(q)
  BY <1>1
<1> HIDE DEF Src, Dst
<1> SUFFICES ASSUME NEW p \in Place, NEW i \in 1..Len(Q[p])
             PROVE  /\ Q[p][i] \in 1..n
                    /\ Q[p][i] = n \/ \E q \in Place : \E j \in 1..Len(Q[q]) : Q[q][j] = Q[p][i] + 1
                    /\ \A q \in Place : \A j \in 1..Len(Q[q]) :
                         p > q \/ (p = q /\ i < j) => Q[p][i] < Q[q][j]
  BY DEF NoGaps, Q
<1>7. Src(p) \in Place /\ Q[p] = P[Src(p)] /\ i \in 1..Len(P[Src(p)])
  BY <1>4
<1>8. /\ P[Src(p)][i] \in 1..n
      /\ P[Src(p)][i] = n \/ \E q \in Place : \E j \in 1..Len(P[q]) : P[q][j] = P[Src(p)][i] + 1
      /\ \A q \in Place : \A j \in 1..Len(P[q]) :
           Src(p) > q \/ (Src(p) = q /\ i < j) => P[Src(p)][i] < P[q][j]
  BY <1>7 DEF NoGaps
<1>9. Q[p][i] = n \/ \E q \in Place : \E j \in 1..Len(Q[q]) : Q[q][j] = Q[p][i] + 1
  <2>1. CASE Q[p][i] = n
    BY <2>1
  <2>2. CASE Q[p][i] # n
    <3>0. PICK q \in Place : \E j \in 1..Len(P[q]) : P[q][j] = Q[p][i] + 1
      BY <1>7, <1>8, <2>2
    <3>1. PICK j \in 1..Len(P[q]) : P[q][j] = Q[p][i] + 1
      BY <3>0
    <3>2. Dst(q) \in Place /\ Q[Dst(q)] = P[q] /\ j \in 1..Len(Q[Dst(q)])
      BY <1>5
    <3>3. Q[Dst(q)][j] = Q[p][i] + 1
      BY <3>1, <3>2
    <3> QED
      BY <3>2, <3>3
  <2> QED
    BY <2>1, <2>2
<1>10. ASSUME NEW q \in Place, NEW j \in 1..Len(Q[q]), p > q \/ (p = q /\ i < j)
       PROVE  Q[p][i] < Q[q][j]
  <2>1. q # k /\ Src(q) \in Place /\ Q[q] = P[Src(q)] /\ j \in 1..Len(P[Src(q)])
    BY <1>4
  <2>2. Src(p) > Src(q) \/ (Src(p) = Src(q) /\ i < j)
    BY <1>6, <1>10, <2>1
  <2> QED
    BY <1>7, <1>8, <2>1, <2>2
<1> QED
  BY <1>7, <1>8, <1>9, <1>10

\* The parts that the files f and b hold.
Held(f) == IF Exists(f) THEN f ELSE << >>
HeldParts(f, b) == [p \in Place |-> Held(IF p = 0 THEN f ELSE b[p])]
BackupNumber == 1..MaxBackups
Backups == [BackupNumber -> Seq(Int)]

LEMMA HeldType ==
  ASSUME NEW f \in Seq(Int), NEW b \in Backups
  PROVE  /\ HeldParts(f, b) \in [Place -> Seq(Int)]
         /\ HeldParts(f, b)[0] = Held(f)
         /\ \A p \in BackupNumber : p \in Place /\ p # 0 /\ HeldParts(f, b)[p] = Held(b[p])
         /\ \A p \in Place : p = 0 \/ p \in BackupNumber
<1>1. \A p \in Place : p = 0 \/ p \in BackupNumber
  BY LoggerAssumption DEF Place, BackupNumber
<1>2. 0 \in Place /\ \A p \in BackupNumber : p \in Place /\ p # 0
  BY LoggerAssumption DEF Place, BackupNumber
<1>3. \A g \in Seq(Int) : Held(g) \in Seq(Int)
  BY DEF Held
<1>4. \A p \in Place : Held(IF p = 0 THEN f ELSE b[p]) \in Seq(Int)
  BY <1>1, <1>3 DEF Backups
<1> QED
  BY <1>1, <1>2, <1>4 DEF HeldParts

LEMMA HeldAppend ==
  ASSUME NEW f \in Seq(Int), NEW b \in Backups, Exists(f), NEW x \in Nat
  PROVE  HeldParts(Append(f, x), b) = [HeldParts(f, b) EXCEPT ![0] = Append(HeldParts(f, b)[0], x)]
<1> DEFINE H == HeldParts(f, b)
           G == HeldParts(Append(f, x), b)
<1>1. Append(f, x) \in Seq(Int) /\ Len(Append(f, x)) = Len(f) + 1 /\ Append(f, x)[Len(f) + 1] = x
  BY AppendProperties
<1>2. Append(f, x) # NoFile
  <2> SUFFICES ASSUME Append(f, x) = NoFile PROVE FALSE
    OBVIOUS
  <2>1. Len(f) + 1 = 1
    BY <1>1 DEF NoFile
  <2> QED
    BY <1>1, <2>1 DEF NoFile
<1>3. Held(Append(f, x)) = Append(f, x) /\ Held(f) = f
  BY <1>2 DEF Held, Exists
<1>4. G \in [Place -> Seq(Int)] /\ H \in [Place -> Seq(Int)]
  BY <1>1, HeldType
<1>5. G[0] = Append(H[0], x)
  BY <1>1, <1>3, HeldType
<1>6. \A p \in Place : p # 0 => G[p] = H[p]
  BY DEF HeldParts
<1> HIDE DEF G, H
<1>7. G = [H EXCEPT ![0] = Append(H[0], x)]
  BY <1>4, <1>5, <1>6
<1> QED
  BY <1>7 DEF G, H

LEMMA HeldDrop ==
  ASSUME NEW f \in Seq(Int), NEW b \in Backups
  PROVE  HeldParts(f, [b EXCEPT ![MaxBackups] = NoFile])
           = [HeldParts(f, b) EXCEPT ![MaxBackups] = << >>]
<1> DEFINE H == HeldParts(f, b)
           c == [b EXCEPT ![MaxBackups] = NoFile]
           G == HeldParts(f, c)
<1>1. MaxBackups \in BackupNumber /\ NoFile \in Seq(Int) /\ Held(NoFile) = << >>
  BY LoggerAssumption DEF BackupNumber, NoFile, Held, Exists
<1>2. c \in Backups /\ c[MaxBackups] = NoFile /\ \A p \in BackupNumber : p # MaxBackups => c[p] = b[p]
  BY <1>1 DEF Backups
<1> HIDE DEF c
<1>3. G \in [Place -> Seq(Int)] /\ H \in [Place -> Seq(Int)]
  BY <1>2, HeldType
<1>4. G[MaxBackups] = << >>
  BY <1>1, <1>2, HeldType
<1>5. \A p \in Place : p # MaxBackups => G[p] = H[p]
  BY <1>2, HeldType DEF HeldParts
<1> HIDE DEF G, H
<1>6. G = [H EXCEPT ![MaxBackups] = << >>]
  BY <1>3, <1>4, <1>5
<1> QED
  BY <1>6 DEF G, H, c

LEMMA HeldMove ==
  ASSUME NEW f \in Seq(Int), NEW b \in Backups, NEW k \in 1..(MaxBackups - 1),
         b[k + 1] = NoFile, NEW n \in Nat, NoGaps(HeldParts(f, b), n)
  PROVE  \A d : d = [b EXCEPT ![k + 1] = b[k], ![k] = NoFile] => NoGaps(HeldParts(f, d), n)
<1> DEFINE H == HeldParts(f, b)
           c == [b EXCEPT ![k + 1] = b[k], ![k] = NoFile]
           G == HeldParts(f, c)
<1>1. /\ k \in BackupNumber /\ k + 1 \in BackupNumber /\ k # k + 1
      /\ NoFile \in Seq(Int) /\ Held(NoFile) = << >>
  BY LoggerAssumption DEF BackupNumber, NoFile, Held, Exists
<1>2. /\ c \in Backups /\ c[k] = NoFile /\ c[k + 1] = b[k]
      /\ \A p \in BackupNumber : p # k /\ p # k + 1 => c[p] = b[p]
  BY <1>1 DEF Backups
<1> HIDE DEF c
<1>3. G \in [Place -> Seq(Int)] /\ H \in [Place -> Seq(Int)]
  BY <1>2, HeldType
<1>4. G[k] = << >> /\ G[k + 1] = H[k] /\ k \in Place /\ k + 1 \in Place
  BY <1>1, <1>2, HeldType
<1>5. \A p \in Place : p # k /\ p # k + 1 => G[p] = H[p]
  BY <1>2, HeldType DEF HeldParts
<1>7. H[k + 1] = << >> /\ k \in 0..(MaxBackups - 1)
  BY <1>1, HeldType
<1>8. NoGaps(H, n)
  OBVIOUS
<1> HIDE DEF G, H
<1>6. G = [H EXCEPT ![k + 1] = H[k], ![k] = << >>]
  BY <1>1, <1>3, <1>4, <1>5
<1>9. NoGaps(G, n)
  BY <1>3, <1>6, <1>7, <1>8, GapsMove
<1> QED
  BY <1>9 DEF G, c

LEMMA HeldFile ==
  ASSUME NEW f \in Seq(Int), NEW b \in Backups
  PROVE  HeldParts(NoFile, [b EXCEPT ![1] = f])
           = [HeldParts(f, b) EXCEPT ![0 + 1] = HeldParts(f, b)[0], ![0] = << >>]
<1> DEFINE H == HeldParts(f, b)
           c == [b EXCEPT ![1] = f]
           G == HeldParts(NoFile, c)
<1>1. /\ 1 \in BackupNumber /\ 0 + 1 = 1 /\ 0 \in Place
      /\ NoFile \in Seq(Int) /\ Held(NoFile) = << >>
  BY LoggerAssumption DEF BackupNumber, NoFile, Held, Exists, Place
<1>2. c \in Backups /\ c[1] = f /\ \A p \in BackupNumber : p # 1 => c[p] = b[p]
  BY <1>1 DEF Backups
<1> HIDE DEF c
<1>3. G \in [Place -> Seq(Int)] /\ H \in [Place -> Seq(Int)]
  BY <1>1, <1>2, HeldType
<1>4. G[0] = << >> /\ G[1] = H[0] /\ 1 \in Place
  BY <1>1, <1>2, HeldType
<1>5. \A p \in Place : p # 0 /\ p # 1 => G[p] = H[p]
  BY <1>2, HeldType DEF HeldParts
<1> HIDE DEF G, H
<1>6. G = [H EXCEPT ![0 + 1] = H[0], ![0] = << >>]
  BY <1>1, <1>3, <1>4, <1>5
<1> QED
  BY <1>6 DEF G, H, c

LEMMA HeldOpen ==
  ASSUME NEW f, NEW b
  PROVE  HeldParts(Held(f), b) = HeldParts(f, b)
<1>1. << >> # NoFile
  BY DEF NoFile
<1>2. Held(Held(f)) = Held(f)
  BY <1>1 DEF Held, Exists
<1> QED
  BY <1>2 DEF HeldParts

LogTypes ==
  /\ LoggerTypeOK /\ waiting \in [Logging -> LogLevel \cup {-1}]
  /\ file \in Seq(Int) /\ backup \in Backups /\ lines \in Nat

\* While nobody rotates there is a file to append to; the place a step moves
\* a file to is free.
RotationReady ==
  /\ initialized /\ rotation = NotRotating => Exists(file)
  /\ rotation \in 0..(MaxBackups - 1) => backup[rotation + 1] = NoFile

\* Without a failure a rotation ends with an empty file.
Sized ==
  ~failures =>
    /\ rotation = NotRotating /\ Exists(file) => Len(file) < MaxFileLines
    /\ rotation = Reopening => file = NoFile
    /\ Len(file) <= MaxFileLines
    /\ \A i \in BackupNumber : Len(backup[i]) <= MaxFileLines

LoggerInv == LogTypes /\ RotationReady /\ Sized /\ NoGaps(HeldParts(file, backup), lines)

LEMMA SmallFiles ==
  /\ NoFile \in Seq(Int) /\ Len(NoFile) = 1 /\ ~Exists(NoFile)
  /\ << >> \in Seq(Int) /\ Len(<< >>) = 0 /\ Exists(<< >>)
  /\ MaxFileLines \in Nat /\ 1 <= MaxFileLines /\ 0 < MaxFileLines
  /\ MaxBackups \in Nat /\ 1 <= MaxBackups
BY LoggerAssumption DEF NoFile, Exists

LEMMA HeldFiles ==
  ASSUME NEW f \in Seq(Int)
  PROVE  /\ Held(f) \in Seq(Int) /\ Exists(Held(f))
         /\ Exists(f) => Held(f) = f
         /\ ~Exists(f) => f = NoFile /\ Held(f) = << >>
BY SmallFiles DEF Held, Exists

LEMMA LoggerStarts == LoggerInit => LoggerInv
<1> SUFFICES ASSUME LoggerInit PROVE LoggerInv
  OBVIOUS
<1>1. file = NoFile /\ backup \in Backups /\ \A i \in BackupNumber : backup[i] = NoFile
  BY SmallFiles DEF LoggerInit, Backups, BackupNumber
<1>2. LogTypes
  <2>1. minLevel \in LogLevel
    BY DEF LoggerInit, LogLevel, TRACE, FATAL, INFO
  <2>0. {initialized, isOpen, failures, hung} \subseteq BOOLEAN
    BY Zenon DEF LoggerInit
  <2>2. rotation \in RotationStep /\ rotation = NotRotating
    BY SmallFiles DEF LoggerInit, RotationStep, NotRotating
  <2>3. holder = Nobody /\ holder \notin Logging
    BY LoggerAssumption DEF LoggerInit
  <2>4. waiting \in [Logging -> LogLevel \cup {-1}]
    BY DEF LoggerInit
  <2> QED
    BY <1>1, <2>0, <2>1, <2>2, <2>3, <2>4, SmallFiles DEF LogTypes, LoggerTypeOK, LoggerInit
<1>3. RotationReady
  BY DEF RotationReady, LoggerInit, NotRotating
<1>4. Sized
  BY <1>1, SmallFiles DEF Sized, LoggerInit, NotRotating, Reopening
<1>5. \A p \in Place : HeldParts(file, backup)[p] = << >>
  <2>1. Held(NoFile) = << >>
    BY HeldFiles, SmallFiles
  <2>2. file \in Seq(Int)
    BY <1>1, SmallFiles
  <2>3. /\ HeldParts(file, backup)[0] = Held(file)
        /\ \A p \in BackupNumber : HeldParts(file, backup)[p] = Held(backup[p])
        /\ \A p \in Place : p = 0 \/ p \in BackupNumber
    BY <1>1, <2>2, HeldType
  <2> QED
    BY <1>1, <2>1, <2>3
<1>6. NoGaps(HeldParts(file, backup), lines)
  BY <1>5, SmallFiles DEF NoGaps
<1> QED
  BY <1>2, <1>3, <1>4, <1>6 DEF LoggerInv

\* The steps that only change the level or who waits.
LEMMA FilesStay ==
  ASSUME LoggerInv, minLevel' \in LogLevel, waiting' \in [Logging -> LogLevel \cup {-1}],
         UNCHANGED <<initialized, isOpen, holder, rotation, file, backup, lines, failures, hung>>
  PROVE  LoggerInv'
<1>1. LogTypes'
  BY DEF LoggerInv, LogTypes, LoggerTypeOK
<1>2. RotationReady' /\ Sized' /\ NoGaps(HeldParts(file', backup'), lines')
  BY DEF LoggerInv, RotationReady, Sized
<1> QED
  BY <1>1, <1>2 DEF LoggerInv

LEMMA InitializeKept ==
  ASSUME LoggerInv, NEW l \in LogLevel, initialize(l)
  PROVE  LoggerInv'
<1>0. LogTypes /\ RotationReady /\ Sized /\ NoGaps(HeldParts(file, backup), lines)
  BY DEF LoggerInv
<1>1. CASE isOpen
  BY <1>0, <1>1, FilesStay DEF initialize, LogTypes
<1>2. CASE ~isOpen
  <2>1. /\ holder = Nobody /\ minLevel' = l /\ initialized' = TRUE /\ isOpen' = TRUE
        /\ file' = Held(file) /\ hung' \in BOOLEAN /\ holder' \in {Starter, Nobody}
        /\ waiting' = waiting /\ rotation' = rotation /\ backup' = backup /\ lines' = lines
        /\ failures' = failures
    BY <1>2 DEF initialize, Held
  <2>2. holder \notin Logging /\ holder' \notin Logging
    BY <2>1, LoggerAssumption
  <2>3. rotation = NotRotating
    BY <1>0, <2>2 DEF LogTypes, LoggerTypeOK
  <2>4. LogTypes'
    <3>1. file' \in Seq(Int)
      BY <1>0, <2>1, HeldFiles DEF LogTypes
    <3>2. {initialized', isOpen', failures', hung'} \subseteq BOOLEAN
      BY <1>0, <2>1 DEF LogTypes, LoggerTypeOK
    <3> QED
      BY <1>0, <2>1, <2>2, <2>3, <3>1, <3>2 DEF LogTypes, LoggerTypeOK
  <2>5. RotationReady'
    BY <1>0, <2>1, <2>3, HeldFiles DEF RotationReady, NotRotating, LogTypes
  <2>6. Sized'
    BY <1>0, <2>1, <2>3, HeldFiles, SmallFiles DEF Sized, LogTypes, NotRotating, Reopening
  <2>7. NoGaps(HeldParts(file', backup'), lines')
    BY <1>0, <2>1, HeldOpen
  <2> QED
    BY <2>4, <2>5, <2>6, <2>7 DEF LoggerInv
<1> QED
  BY <1>1, <1>2

LEMMA WriteKept == ASSUME LoggerInv, NEW t \in Logging, Write(t) PROVE LoggerInv'
<1>0. LogTypes /\ RotationReady /\ Sized /\ NoGaps(HeldParts(file, backup), lines)
  BY DEF LoggerInv
<1>1. /\ holder = Nobody /\ minLevel' = minLevel /\ initialized' = initialized
      /\ backup' = backup /\ failures' = failures /\ hung' = hung
  BY DEF Write
<1>2. holder \notin Logging /\ rotation = NotRotating
  BY <1>0, <1>1, LoggerAssumption DEF LogTypes, LoggerTypeOK
<1>3. [waiting EXCEPT ![t] = -1] \in [Logging -> LogLevel \cup {-1}]
  BY <1>0 DEF LogTypes
<1>4. CASE ~initialized
  <2>1. /\ waiting' = [waiting EXCEPT ![t] = -1]
        /\ UNCHANGED <<isOpen, holder, rotation, file, lines>>
    BY <1>4 DEF Write
  <2> QED
    BY <1>0, <1>1, <1>3, <2>1, FilesStay DEF LogTypes, LoggerTypeOK
<1>5. CASE initialized /\ ~failbit
  <2>1. lines' = lines + 1 /\ file' = Append(file, lines + 1)
    BY <1>5 DEF Write
  <2>2. Exists(file) /\ file \in Seq(Int) /\ backup \in Backups /\ lines \in Nat /\ lines + 1 \in Nat
    BY <1>0, <1>2, <1>5 DEF RotationReady, LogTypes
  <2>3. file' \in Seq(Int) /\ Len(file') = Len(file) + 1 /\ Len(file) \in Nat
    BY <2>1, <2>2, AppendProperties
  <2>4. Exists(file')
    <3> SUFFICES ASSUME file' = NoFile PROVE FALSE
      BY DEF Exists
    <3>1. Len(file) + 1 = 1 /\ file'[1] = -1
      BY <2>3 DEF NoFile
    <3>2. file'[Len(file) + 1] = lines + 1
      BY <2>1, <2>2, AppendProperties
    <3> QED
      BY <2>2, <3>1, <3>2
  <2>5. NoGaps(HeldParts(file', backup'), lines')
    <3> DEFINE H == HeldParts(file, backup)
    <3>1. H \in [Place -> Seq(Int)]
      BY <2>2, HeldType
    <3>2. NoGaps([H EXCEPT ![0] = Append(H[0], lines + 1)], lines + 1)
      BY <1>0, <2>2, <3>1, GapsAppend
    <3>3. HeldParts(Append(file, lines + 1), backup) = [H EXCEPT ![0] = Append(H[0], lines + 1)]
      BY ZenonT(30), <2>2, HeldAppend
    <3> HIDE DEF H
    <3> QED
      BY <1>1, <2>1, <3>2, <3>3
  <2>6. \/ /\ Len(file) + 1 >= MaxFileLines /\ isOpen' = FALSE /\ holder' = t
           /\ rotation' = MaxBackups /\ waiting' = waiting
        \/ /\ ~(Len(file) + 1 >= MaxFileLines) /\ waiting' = [waiting EXCEPT ![t] = -1]
           /\ isOpen' = isOpen /\ holder' = holder /\ rotation' = rotation
    BY <1>5, <2>1, <2>3 DEF Write
  <2>7. LogTypes'
    <3>1. /\ minLevel' \in LogLevel
          /\ {initialized', isOpen', failures', hung'} \subseteq BOOLEAN
      BY <1>0, <1>1, <2>6 DEF LogTypes, LoggerTypeOK
    <3>2. waiting' \in [Logging -> LogLevel \cup {-1}]
      BY <1>0, <1>3, <2>6 DEF LogTypes
    <3>3. /\ holder' \in Logging \cup {Nobody, Starter} /\ rotation' \in RotationStep
          /\ rotation' # NotRotating <=> holder' \in Logging
      BY <1>0, <1>2, <2>6, SmallFiles DEF LogTypes, LoggerTypeOK, RotationStep, NotRotating
    <3> QED
      BY <1>0, <1>1, <2>1, <2>2, <2>3, <3>1, <3>2, <3>3 DEF LogTypes, LoggerTypeOK
  <2>8. RotationReady'
    BY <1>2, <2>4, <2>6, SmallFiles DEF RotationReady, NotRotating
  <2>9. Sized'
    <3> SUFFICES ASSUME ~failures PROVE Sized'
      BY <1>1 DEF Sized
    <3>1. Len(file) < MaxFileLines /\ \A i \in BackupNumber : Len(backup[i]) <= MaxFileLines
      BY <1>0, <1>2, <2>2 DEF Sized
    <3> QED
      BY <1>1, <1>2, <2>3, <2>6, <3>1, SmallFiles DEF Sized, NotRotating, Reopening
  <2> QED
    BY <2>5, <2>7, <2>8, <2>9 DEF LoggerInv
<1>6. CASE initialized /\ failbit
  <2>1. file' = file /\ lines' = lines
    BY <1>6 DEF Write
  <2>2. Exists(file) /\ file \in Seq(Int) /\ backup \in Backups /\ lines \in Nat
    BY <1>0, <1>2, <1>6 DEF RotationReady, LogTypes
  <2>3. \/ /\ Len(file) >= MaxFileLines /\ isOpen' = FALSE /\ holder' = t
           /\ rotation' = MaxBackups /\ waiting' = waiting
        \/ /\ waiting' = [waiting EXCEPT ![t] = -1]
           /\ isOpen' = isOpen /\ holder' = holder /\ rotation' = rotation
    BY <1>6, <2>1 DEF Write
  <2>4. CASE isOpen' = isOpen /\ holder' = holder /\ rotation' = rotation
             /\ waiting' = [waiting EXCEPT ![t] = -1]
    BY <1>0, <1>1, <1>3, <2>1, <2>4, FilesStay DEF LogTypes, LoggerTypeOK
  <2>5. CASE Len(file) >= MaxFileLines /\ isOpen' = FALSE /\ holder' = t
             /\ rotation' = MaxBackups /\ waiting' = waiting
    <3>1. failures
      BY <1>0, <1>2, <2>2, <2>5, SmallFiles DEF Sized
    <3>2. LogTypes'
      <4>1. {initialized', isOpen', failures', hung'} \subseteq BOOLEAN
        BY <1>0, <1>1, <2>5 DEF LogTypes, LoggerTypeOK
      <4>2. MaxBackups \in RotationStep /\ MaxBackups # NotRotating
        BY SmallFiles DEF RotationStep, NotRotating
      <4> QED
        BY <1>0, <1>1, <2>1, <2>2, <2>5, <4>1, <4>2 DEF LogTypes, LoggerTypeOK
    <3>3. RotationReady'
      BY <2>5, SmallFiles DEF RotationReady, NotRotating
    <3>4. Sized'
      BY <1>1, <3>1 DEF Sized
    <3> QED
      BY <1>0, <1>1, <2>1, <3>2, <3>3, <3>4 DEF LoggerInv
  <2> QED
    BY <2>3, <2>4, <2>5
<1> QED
  BY <1>4, <1>5, <1>6

\* The steps that move files.
LEMMA RotatesKept ==
  ASSUME LoggerInv, rotation \in 0..MaxBackups, NEW r \in Reopening..(MaxBackups - 1),
         rotation' = r, file' \in Seq(Int), backup' \in Backups,
         UNCHANGED <<minLevel, initialized, isOpen, holder, waiting, lines, hung>>,
         failures' \in BOOLEAN,
         r # Reopening => backup'[r + 1] = NoFile,
         ~failures' =>
           /\ ~failures /\ (r = Reopening => file' = NoFile) /\ Len(file') <= MaxFileLines
           /\ \A i \in BackupNumber : Len(backup'[i]) <= MaxFileLines,
         NoGaps(HeldParts(file', backup'), lines)
  PROVE  LoggerInv'
<1>0. LogTypes
  BY DEF LoggerInv
<1>1. r # NotRotating /\ r \in RotationStep /\ rotation # NotRotating
  BY SmallFiles DEF Reopening, NotRotating, RotationStep
<1>2. holder \in Logging
  BY <1>0, <1>1 DEF LogTypes, LoggerTypeOK
<1>3. {initialized', isOpen', failures', hung'} \subseteq BOOLEAN
  BY <1>0 DEF LogTypes, LoggerTypeOK
<1>4. LogTypes'
  BY <1>0, <1>1, <1>2, <1>3 DEF LogTypes, LoggerTypeOK
<1>5. RotationReady'
  BY <1>1 DEF RotationReady, Reopening
<1>6. Sized'
  BY <1>1 DEF Sized
<1> QED
  BY <1>4, <1>5, <1>6 DEF LoggerInv

LEMMA RemoveOldestKept == ASSUME LoggerInv, RemoveOldest PROVE LoggerInv'
<1>0. LogTypes /\ RotationReady /\ Sized /\ NoGaps(HeldParts(file, backup), lines)
  BY DEF LoggerInv
<1>1. /\ rotation = MaxBackups /\ backup' = [backup EXCEPT ![MaxBackups] = NoFile]
      /\ rotation' = MaxBackups - 1 /\ file' = file /\ failures' = failures
      /\ UNCHANGED <<minLevel, initialized, isOpen, holder, waiting, lines, hung>>
  BY DEF RemoveOldest
<1>2. /\ MaxBackups \in BackupNumber /\ MaxBackups \in 0..MaxBackups
      /\ MaxBackups - 1 \in Reopening..(MaxBackups - 1) /\ (MaxBackups - 1) + 1 = MaxBackups
      /\ MaxBackups - 1 # Reopening
  BY SmallFiles DEF BackupNumber, Reopening
<1>3. file \in Seq(Int) /\ backup \in Backups /\ lines \in Nat /\ failures \in BOOLEAN
  BY <1>0 DEF LogTypes, LoggerTypeOK
<1>4. /\ backup' \in Backups /\ backup'[MaxBackups] = NoFile
      /\ \A i \in BackupNumber : i # MaxBackups => backup'[i] = backup[i]
  BY <1>1, <1>2, <1>3, SmallFiles DEF Backups
<1>5. NoGaps(HeldParts(file', backup'), lines)
  <2>1. HeldParts(file, backup) \in [Place -> Seq(Int)]
    BY <1>3, HeldType
  <2>2. NoGaps([HeldParts(file, backup) EXCEPT ![MaxBackups] = << >>], lines)
    BY <1>0, <1>3, <2>1, GapsDrop
  <2> QED
    BY <1>1, <1>3, <2>2, HeldDrop
<1>6. ~failures => /\ Len(file') <= MaxFileLines
                   /\ \A i \in BackupNumber : Len(backup'[i]) <= MaxFileLines
  BY <1>0, <1>1, <1>4, SmallFiles DEF Sized
<1> QED
  BY <1>1, <1>2, <1>3, <1>4, <1>5, <1>6, RotatesKept

LEMMA MoveUpKept ==
  ASSUME LoggerInv, NEW k \in 1..(MaxBackups - 1), MoveUp(k)
  PROVE  LoggerInv'
<1>0. LogTypes /\ RotationReady /\ Sized /\ NoGaps(HeldParts(file, backup), lines)
  BY DEF LoggerInv
<1>1. /\ rotation = k /\ rotation' = k - 1 /\ file' = file /\ failures' = failures
      /\ UNCHANGED <<minLevel, initialized, isOpen, holder, waiting, lines, hung>>
      /\ backup' = IF Exists(backup[k]) THEN [backup EXCEPT ![k + 1] = backup[k], ![k] = NoFile]
                   ELSE backup
  BY DEF MoveUp
<1>2. /\ k \in BackupNumber /\ k + 1 \in BackupNumber /\ k # k + 1 /\ k \in 0..MaxBackups
      /\ k - 1 \in Reopening..(MaxBackups - 1) /\ (k - 1) + 1 = k /\ k - 1 # Reopening
      /\ k \in 0..(MaxBackups - 1)
  BY SmallFiles DEF BackupNumber, Reopening
<1>3. file \in Seq(Int) /\ backup \in Backups /\ lines \in Nat /\ failures \in BOOLEAN
  BY <1>0 DEF LogTypes, LoggerTypeOK
<1>4. backup[k + 1] = NoFile
  BY <1>0, <1>1, <1>2 DEF RotationReady
<1>5. CASE ~Exists(backup[k])
  <2>1. backup' = backup /\ backup[k] = NoFile
    BY <1>1, <1>5 DEF Exists
  <2>2. ~failures => /\ Len(file') <= MaxFileLines
                     /\ \A i \in BackupNumber : Len(backup'[i]) <= MaxFileLines
    BY <1>0, <1>1, <2>1 DEF Sized
  <2>3. NoGaps(HeldParts(file', backup'), lines)
    BY <1>0, <1>1, <2>1
  <2> QED
    BY <1>1, <1>2, <1>3, <2>1, <2>2, <2>3, RotatesKept
<1>6. CASE Exists(backup[k])
  <2>1. backup' = [backup EXCEPT ![k + 1] = backup[k], ![k] = NoFile]
    BY <1>1, <1>6
  <2>2. /\ backup' \in Backups /\ backup'[k] = NoFile /\ backup'[k + 1] = backup[k]
        /\ \A i \in BackupNumber : i # k /\ i # k + 1 => backup'[i] = backup[i]
    BY <1>2, <1>3, <2>1, SmallFiles DEF Backups
  <2>3. ~failures => /\ Len(file') <= MaxFileLines
                     /\ \A i \in BackupNumber : Len(backup'[i]) <= MaxFileLines
    BY <1>0, <1>1, <1>2, <2>2, SmallFiles DEF Sized
  <2>4. NoGaps(HeldParts(file', backup'), lines)
    BY <1>0, <1>1, <1>3, <1>4, <2>1, HeldMove
  <2> QED
    BY <1>1, <1>2, <1>3, <2>2, <2>3, <2>4, RotatesKept
<1> QED
  BY <1>5, <1>6

LEMMA MoveFileKept == ASSUME LoggerInv, MoveFile PROVE LoggerInv'
<1>0. LogTypes /\ RotationReady /\ Sized /\ NoGaps(HeldParts(file, backup), lines)
  BY DEF LoggerInv
<1>1. /\ rotation = 0 /\ rotation' = Reopening /\ file' = NoFile
      /\ backup' = [backup EXCEPT ![1] = file] /\ failures' = failures
      /\ UNCHANGED <<minLevel, initialized, isOpen, holder, waiting, lines, hung>>
  BY DEF MoveFile
<1>2. /\ 1 \in BackupNumber /\ 0 \in 0..MaxBackups /\ Reopening \in Reopening..(MaxBackups - 1)
      /\ 0 \in 0..(MaxBackups - 1) /\ 0 + 1 = 1
  BY SmallFiles DEF BackupNumber, Reopening
<1>3. file \in Seq(Int) /\ backup \in Backups /\ lines \in Nat /\ failures \in BOOLEAN
  BY <1>0 DEF LogTypes, LoggerTypeOK
<1>4. backup[1] = NoFile
  BY <1>0, <1>1, <1>2 DEF RotationReady
<1>5. /\ backup' \in Backups /\ backup'[1] = file
      /\ \A i \in BackupNumber : i # 1 => backup'[i] = backup[i]
  BY <1>1, <1>2, <1>3 DEF Backups
<1>6. ~failures => /\ Len(file') <= MaxFileLines
                   /\ \A i \in BackupNumber : Len(backup'[i]) <= MaxFileLines
  BY <1>0, <1>1, <1>5, SmallFiles DEF Sized
<1>7. NoGaps(HeldParts(file', backup'), lines)
  <2>1. HeldParts(file, backup) \in [Place -> Seq(Int)]
    BY <1>3, HeldType
  <2>2. HeldParts(file, backup)[0 + 1] = << >>
    <3>1. HeldParts(file, backup)[1] = Held(backup[1])
      BY <1>2, <1>3, HeldType
    <3> QED
      BY <1>2, <1>4, <3>1, SmallFiles DEF Held
  <2>3. NoGaps([HeldParts(file, backup) EXCEPT ![0 + 1] = HeldParts(file, backup)[0], ![0] = << >>],
               lines)
    BY <1>0, <1>2, <1>3, <2>1, <2>2, GapsMove
  <2> QED
    BY <1>1, <1>3, <2>3, HeldFile
<1> QED
  BY <1>1, <1>2, <1>3, <1>5, <1>6, <1>7, SmallFiles, RotatesKept

LEMMA RotationFailsKept == ASSUME LoggerInv, RotationFails PROVE LoggerInv'
<1>1. Reopening \in Reopening..(MaxBackups - 1)
  BY SmallFiles DEF Reopening
<1>2. file \in Seq(Int) /\ backup \in Backups /\ NoGaps(HeldParts(file, backup), lines)
  BY DEF LoggerInv, LogTypes
<1>3. /\ rotation \in 0..MaxBackups /\ rotation' = Reopening /\ failures' = TRUE
      /\ file' = file /\ backup' = backup
      /\ UNCHANGED <<minLevel, initialized, isOpen, holder, waiting, lines, hung>>
  BY DEF RotationFails
<1> QED
  BY <1>1, <1>2, <1>3, RotatesKept

LEMMA ReopenKept == ASSUME LoggerInv, Reopen PROVE LoggerInv'
<1>0. LogTypes /\ RotationReady /\ Sized /\ NoGaps(HeldParts(file, backup), lines)
  BY DEF LoggerInv
<1>1. /\ rotation = Reopening /\ rotation' = NotRotating /\ holder' = Nobody
      /\ waiting' = [waiting EXCEPT ![holder] = -1] /\ minLevel' = minLevel
      /\ backup' = backup /\ lines' = lines /\ failures' = failures /\ hung' = hung
  BY DEF Reopen
<1>2. \/ isOpen' = TRUE /\ file' = Held(file) /\ initialized' = initialized
      \/ initialized' = FALSE /\ isOpen' = isOpen /\ file' = file
  BY DEF Reopen, Held
<1>3. Nobody \notin Logging
  BY LoggerAssumption
<1>4. file' \in Seq(Int) /\ (file' = file \/ Exists(file')) /\ (initialized' => Exists(file'))
  BY <1>0, <1>2, HeldFiles DEF LogTypes
<1>5. LogTypes'
  <2>1. {initialized', isOpen', failures', hung'} \subseteq BOOLEAN
    BY <1>0, <1>1, <1>2 DEF LogTypes, LoggerTypeOK
  <2>2. waiting' \in [Logging -> LogLevel \cup {-1}]
    BY <1>0, <1>1 DEF LogTypes
  <2>3. NotRotating \in RotationStep
    BY SmallFiles DEF NotRotating, RotationStep
  <2> QED
    BY <1>0, <1>1, <1>3, <1>4, <2>1, <2>2, <2>3 DEF LogTypes, LoggerTypeOK
<1>6. RotationReady'
  BY <1>1, <1>4 DEF RotationReady, NotRotating
<1>7. Sized'
  <2> SUFFICES ASSUME ~failures PROVE Sized'
    BY <1>1 DEF Sized
  <2>1. file = NoFile /\ \A i \in BackupNumber : Len(backup[i]) <= MaxFileLines
    BY <1>0, <1>1 DEF Sized
  <2>2. file' = << >> \/ file' = NoFile
    BY <1>2, <2>1, HeldFiles, SmallFiles
  <2>3. /\ Exists(file') => Len(file') < MaxFileLines
        /\ Len(file') <= MaxFileLines
    <3>1. CASE file' = << >>
      BY <3>1, SmallFiles
    <3>2. CASE file' = NoFile
      BY <3>2, SmallFiles
    <3> QED
      BY <2>2, <3>1, <3>2
  <2> QED
    BY <1>1, <2>1, <2>3 DEF Sized, NotRotating, Reopening
<1>8. NoGaps(HeldParts(file', backup'), lines')
  <2>1. CASE file' = file
    BY <1>0, <1>1, <2>1
  <2>2. CASE file' = Held(file)
    BY <1>0, <1>1, <2>2, HeldOpen
  <2> QED
    BY <1>2, <2>1, <2>2
<1> QED
  BY <1>5, <1>6, <1>7, <1>8 DEF LoggerInv

LEMMA CrashKept == ASSUME LoggerInv, Crash PROVE LoggerInv'
<1>0. LogTypes /\ RotationReady /\ Sized /\ NoGaps(HeldParts(file, backup), lines)
  BY DEF LoggerInv
<1>1. /\ failures' = (failures \/ rotation # NotRotating) /\ minLevel' = INFO
      /\ initialized' = FALSE /\ isOpen' = FALSE /\ hung' = FALSE /\ holder' = Nobody
      /\ waiting' = [t \in Logging |-> -1] /\ rotation' = NotRotating
      /\ file' = file /\ backup' = backup /\ lines' = lines
  BY DEF Crash
<1>2. LogTypes'
  <2>1. {initialized', isOpen', failures', hung'} \subseteq BOOLEAN
    BY <1>1, Zenon
  <2>2. minLevel' \in LogLevel
    BY <1>1 DEF LogLevel, TRACE, FATAL, INFO
  <2>3. waiting' \in [Logging -> LogLevel \cup {-1}]
    BY <1>1
  <2>4. NotRotating \in RotationStep
    BY SmallFiles DEF NotRotating, RotationStep
  <2>5. Nobody \notin Logging
    BY LoggerAssumption
  <2> QED
    BY <1>0, <1>1, <2>1, <2>2, <2>3, <2>4, <2>5 DEF LogTypes, LoggerTypeOK
<1>3. RotationReady'
  BY <1>1 DEF RotationReady, NotRotating
<1>4. Sized'
  <2> SUFFICES ASSUME ~failures' PROVE Sized'
    BY DEF Sized
  <2>1. ~failures /\ rotation = NotRotating
    BY <1>1, Zenon
  <2> QED
    BY <1>0, <1>1, <2>1 DEF Sized
<1> QED
  BY <1>0, <1>1, <1>2, <1>3, <1>4 DEF LoggerInv

LEMMA LoggerSteps == LoggerInv /\ [LoggerNext]_loggerVars => LoggerInv'
<1> SUFFICES ASSUME LoggerInv, [LoggerNext]_loggerVars PROVE LoggerInv'
  OBVIOUS
<1>0. minLevel \in LogLevel /\ waiting \in [Logging -> LogLevel \cup {-1}]
  BY DEF LoggerInv, LogTypes, LoggerTypeOK
<1>1. {INFO, WARNING, ERROR} \subseteq LogLevel
  BY DEF LogLevel, TRACE, FATAL, INFO, WARNING, ERROR
<1>2. CASE UNCHANGED loggerVars
  BY <1>0, <1>2, FilesStay DEF loggerVars
<1>3. ASSUME NEW l \in LogLevel, setLogLevel(l) PROVE LoggerInv'
  BY <1>0, <1>3, FilesStay DEF setLogLevel
<1>4. ASSUME NEW t \in Logging, NEW l \in LogLevel, log(t, l) PROVE LoggerInv'
  <2>1. waiting' \in [Logging -> LogLevel \cup {-1}]
    BY <1>0, <1>4 DEF log
  <2> QED
    BY <1>0, <1>4, <2>1, FilesStay DEF log
<1>5. CASE \E l \in {INFO, WARNING, ERROR} : initialize(l) \/ setLogLevel(l)
  BY <1>1, <1>3, <1>5, InitializeKept
<1>6. CASE \E t \in Logging, l \in {INFO, ERROR} : log(t, l)
  BY <1>1, <1>4, <1>6
<1>7. CASE Rotate
  BY <1>7, RemoveOldestKept, MoveUpKept, MoveFileKept, ReopenKept DEF Rotate
<1> QED
  BY <1>2, <1>5, <1>6, <1>7, WriteKept, RotationFailsKept, CrashKept DEF LoggerNext

LEMMA InvKeepsLog == LoggerInv /\ LinesLostOnlyIfInitializedTwice => LogKept
<1> SUFFICES ASSUME LoggerInv, LinesLostOnlyIfInitializedTwice PROVE LogKept
  OBVIOUS
<1>0. LogTypes /\ Sized /\ NoGaps(HeldParts(file, backup), lines)
  BY DEF LoggerInv
<1>1. \A p \in Place : HeldParts(file, backup)[p] = Part(p)
  BY DEF HeldParts, Held, Part
<1>2. LogHasNoGaps
  <2> DEFINE H == HeldParts(file, backup)
  <2>1. \A p \in Place : \A i \in 1..Len(H[p]) :
          /\ H[p][i] \in 1..lines
          /\ H[p][i] = lines \/ \E q \in Place : \E j \in 1..Len(H[q]) : H[q][j] = H[p][i] + 1
          /\ \A q \in Place : \A j \in 1..Len(H[q]) :
               p > q \/ (p = q /\ i < j) => H[p][i] < H[q][j]
    BY <1>0 DEF NoGaps
  <2>2. \A p \in Place : H[p] = Part(p)
    BY <1>1
  <2> HIDE DEF H
  <2> SUFFICES ASSUME NEW p \in Place, NEW i \in 1..Len(Part(p))
               PROVE  /\ Part(p)[i] \in 1..lines
                      /\ \/ Part(p)[i] = lines
                         \/ \E q \in Place : \E j \in 1..Len(Part(q)) : Part(q)[j] = Part(p)[i] + 1
                      /\ \A q \in Place : \A j \in 1..Len(Part(q)) :
                           p > q \/ (p = q /\ i < j) => Part(p)[i] < Part(q)[j]
    BY DEF LogHasNoGaps
  <2>3. H[p] = Part(p) /\ i \in 1..Len(H[p])
    BY <2>2
  <2>4. Part(p)[i] \in 1..lines
    BY <2>1, <2>3
  <2>5. Part(p)[i] = lines \/ \E q \in Place : \E j \in 1..Len(H[q]) : H[q][j] = Part(p)[i] + 1
    BY <2>1, <2>3
  <2>6. \A q \in Place : \A j \in 1..Len(H[q]) :
          p > q \/ (p = q /\ i < j) => Part(p)[i] < H[q][j]
    BY <2>1, <2>3
  <2> QED
    BY <2>2, <2>4, <2>5, <2>6, Zenon
<1>3. LogFilesBounded
  <2> SUFFICES ASSUME ~failures, NEW f \in ToSet(backup) \cup {file} PROVE Len(f) <= MaxFileLines
    BY DEF LogFilesBounded
  <2>1. DOMAIN backup = BackupNumber
    BY <1>0 DEF LogTypes, Backups
  <2>2. f = file \/ \E i \in BackupNumber : f = backup[i]
    BY <2>1 DEF ToSet
  <2> QED
    BY <1>0, <2>2 DEF Sized
<1> QED
  BY <1>0, <1>2, <1>3 DEF LogKept, LogTypes

LEMMA LossesKept ==
  LinesLostOnlyIfInitializedTwice /\ [LoggerNext]_loggerVars => LinesLostOnlyIfInitializedTwice'
<1> SUFFICES ASSUME LinesLostOnlyIfInitializedTwice, [LoggerNext]_loggerVars
             PROVE  LinesLostOnlyIfInitializedTwice'
  OBVIOUS
<1> USE DEF LinesLostOnlyIfInitializedTwice
<1>1. CASE UNCHANGED <<initialized, streamVars>>
  BY <1>1 DEF streamVars
<1>2. ASSUME NEW l, initialize(l) PROVE LinesLostOnlyIfInitializedTwice'
  BY <1>2 DEF initialize
<1>3. ASSUME NEW t, Write(t) PROVE LinesLostOnlyIfInitializedTwice'
  BY <1>3 DEF Write
<1>4. CASE Reopen
  BY <1>4 DEF Reopen
<1>5. CASE Crash
  BY <1>5 DEF Crash
<1>6. CASE UNCHANGED loggerVars
  BY <1>1, <1>6 DEF loggerVars
<1>7. CASE RotationFails \/ RemoveOldest \/ MoveFile
  BY <1>1, <1>7 DEF RotationFails, RemoveOldest, MoveFile
<1>8. ASSUME NEW i, MoveUp(i) PROVE LinesLostOnlyIfInitializedTwice'
  BY <1>1, <1>8 DEF MoveUp
<1>9. ASSUME NEW t, NEW l, log(t, l) \/ setLogLevel(l) PROVE LinesLostOnlyIfInitializedTwice'
  BY <1>1, <1>9 DEF log, setLogLevel
<1> QED
  BY <1>2, <1>3, <1>4, <1>5, <1>6, <1>7, <1>8, <1>9 DEF LoggerNext, Rotate

LoggerSpec == LoggerInit /\ [][LoggerNext]_loggerVars

(* For any threads, file size and number of backups: whatever step of a     *)
(* rotation fails or the process ends in, the backups and the file hold the *)
(* newest lines in order and without a gap, mutex_ is held by whoever       *)
(* rotates, no file outgrows the limit unless a rotation failed, and an     *)
(* initialized logger loses a line only after a second initialize().        *)
THEOREM LogIsKept == LoggerSpec => []LogKept
<1>1. ASSUME LoggerInit PROVE LinesLostOnlyIfInitializedTwice
  <2>1. failbit \in BOOLEAN /\ again \in BOOLEAN /\ ~failbit
    BY <1>1, Zenon DEF LoggerInit
  <2>2. lost \in Nat /\ ~(lost > 0)
    BY <1>1 DEF LoggerInit
  <2> QED
    BY <2>1, <2>2, Zenon DEF LinesLostOnlyIfInitializedTwice
<1> QED
  BY <1>1, LoggerStarts, LoggerSteps, LossesKept, InvKeepsLog, PTL DEF LoggerSpec
=============================================================================
