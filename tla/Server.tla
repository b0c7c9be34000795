------------------------------- MODULE Server -------------------------------
(***************************************************************************)
(* server::Server with its Connections, the SessionHandler and the         *)
(* UserSessions (include/server/server.h, session_handler.h).              *)
(*                                                                         *)
(* One thread runs the io_context: accepts, read and write completions,    *)
(* the cleanup timer and the signal handler are its steps.  NumWorkers     *)
(* threads of the pool take the requests in order (see ThreadPool) and run *)
(* processData.  Every method of SessionHandler is one step, under its     *)
(* mutex; what a request or the cleanup does between two of them may be    *)
(* interleaved with anything.                                              *)
(*                                                                         *)
(* A connection and the session created for it share one identifier: the   *)
(* session id is a fresh UUID.  A connection that is gone does not return. *)
(***************************************************************************)
EXTENDS Naturals, Sequences, FiniteSets

CONSTANTS
  Conn,         \* the connections clients open
  User,         \* the usernames they log in with
  None,         \* no username, no session
  NumWorkers,   \* threadPoolSize
  MaxWrites     \* bound: answers a client leaves unread before it asks again

ASSUME NoneAssumption == None \notin Conn /\ None \notin User

ASSUME MaxWritesAssumption == MaxWrites \in Nat

VARIABLES
  sessions,     \* keys of sessions_ and of sockets_, which change together
  socketOpen,   \* connections whose server-side socket is open
  username,     \* username_ of each UserSession
  state,        \* state_ of each UserSession
  hasDocument,  \* whether active_documents_ of each UserSession has the document
  idle,         \* the session has been idle for longer than max_session_idle_
  byName,       \* username_to_session_
  conn,         \* where each Connection is
  request,      \* the request each Connection is being served
  answer,       \* what processData returned for it
  writes,       \* async_writes of each Connection that have not completed
  queue,        \* tasks_ of the pool, by connection
  toClose,      \* sessionsToClose of the cleanup that is running
  running,      \* running_
  life,         \* "up", "handlerGone" within ~Server, "gone" at the end
  raced         \* history: names two requests were free to take at once, and
                \* names a session gave up for another

handlerVars == <<sessions, socketOpen, username, state, byName>>
ioVars      == <<toClose, running, life>>
vars == <<handlerVars, hasDocument, idle, conn, request, answer, writes, queue, ioVars>>
serverVars == <<vars, raced>>

Request == {[kind |-> "LOGIN:", user |-> u] : u \in User} \cup
           {[kind |-> k, user |-> None] :
              k \in {"OPEN_DOCUMENT:", "CLOSE_DOCUMENT:", "other"}}

NoRequest == [kind |-> "other", user |-> None]

Answer == {"none", "in use", "logged in", "authentication failed",
           "not authenticated", "opened", "closed", "not open", "echo"}

\* A Connection: not accepted yet, waiting for data, its request in tasks_,
\* in processData before and after isUsernameAvailable, its answer posted to
\* the io_context, no more handlers.
Stage == {"new", "read", "queued", "process", "available", "posted", "end"}

(* The types of the variables; a connection starts one write for each       *)
(* request it read, so that at most MaxWrites are under way.                *)
TypeOK ==
  /\ sessions \subseteq Conn /\ socketOpen \subseteq Conn
  /\ username \in [Conn -> User \cup {None}]
  /\ state \in [Conn -> {"CONNECTING", "AUTHENTICATED", "DISCONNECTED"}]
  /\ hasDocument \in [Conn -> BOOLEAN] /\ idle \in [Conn -> BOOLEAN]
  /\ byName \in [User -> Conn \cup {None}]
  /\ conn \in [Conn -> Stage]
  /\ request \in [Conn -> Request]
  /\ answer \in [Conn -> Answer] /\ writes \in [Conn -> 0..MaxWrites]
  /\ queue \in Seq(Conn)
  /\ toClose \subseteq Conn
  /\ running \in BOOLEAN /\ life \in {"up", "handlerGone", "gone"}

Init ==
  /\ sessions = {} /\ socketOpen = {}
  /\ username = [c \in Conn |-> None]
  /\ state = [c \in Conn |-> "CONNECTING"]
  /\ hasDocument = [c \in Conn |-> FALSE] /\ idle = [c \in Conn |-> FALSE]
  /\ byName = [u \in User |-> None]
  /\ conn = [c \in Conn |-> "new"]
  /\ request = [c \in Conn |-> NoRequest]
  /\ answer = [c \in Conn |-> "none"] /\ writes = [c \in Conn |-> 0]
  /\ queue = << >>
  /\ toClose = {} /\ running = TRUE /\ life = "up" /\ raced = {}

-----------------------------------------------------------------------------
(* SessionHandler                                                           *)

createSession(c) ==
  /\ sessions' = sessions \cup {c} /\ socketOpen' = socketOpen \cup {c}
  /\ UNCHANGED <<username, state, byName>>

isUsernameAvailable(u) == byName[u] = None

\* authenticateSession for a session that is in sessions_.
authenticateSession(c, u) ==
  /\ username' = [username EXCEPT ![c] = u]
  /\ state' = [state EXCEPT ![c] = "AUTHENTICATED"]
  /\ byName' = [byName EXCEPT ![u] = c]
  /\ UNCHANGED <<sessions, socketOpen>>

\* Mutant of closeSession: the name stays registered.
closeSession_KeepsName(c) ==
  IF c \notin sessions THEN UNCHANGED <<handlerVars, idle>>
  ELSE /\ state' = [state EXCEPT ![c] = "DISCONNECTED"]
       /\ idle' = [idle EXCEPT ![c] = FALSE]
       /\ sessions' = sessions \ {c} /\ socketOpen' = socketOpen \ {c}
       /\ UNCHANGED <<username, byName>>

\* closeSession: the entry of the current username goes, whoever it names;
\* erasing the SocketGuard closes the socket.  It returns false, and does
\* nothing, for a session that is not in sessions_.
closeSession(c) ==
  IF c \notin sessions THEN UNCHANGED <<handlerVars, idle>>
  ELSE /\ byName' = IF state[c] = "AUTHENTICATED"
                    THEN [byName EXCEPT ![username[c]] = None] ELSE byName
       /\ state' = [state EXCEPT ![c] = "DISCONNECTED"]
       /\ idle' = [idle EXCEPT ![c] = FALSE]
       /\ sessions' = sessions \ {c} /\ socketOpen' = socketOpen \ {c}
       /\ UNCHANGED username

-----------------------------------------------------------------------------
(* The io thread.  It runs one handler at a time: none starts while the     *)
(* cleanup is closing sessions, and none runs once ~Server has begun.       *)

IoFree == life = "up" /\ toClose = {}

\* startAccept and handleNewConnection.
Accept(c) ==
  /\ IoFree /\ running /\ conn[c] = "new"
  /\ createSession(c)
  /\ conn' = [conn EXCEPT ![c] = "read"]
  /\ UNCHANGED <<hasDocument, idle, request, answer, writes, queue, ioVars>>

\* remote_endpoint() throws when the client has already left; nothing
\* catches it, io_context::run() throws and the program ends.
AcceptThrows(c) ==
  /\ IoFree /\ running /\ conn[c] = "new"
  /\ life' = "gone"
  /\ UNCHANGED <<handlerVars, hasDocument, idle, conn, request, answer, writes,
                 queue, toClose, running>>

\* The client sent r and the read completes: the task goes to the pool.
\* What the client sends is its own choice.
Receive(c, r) ==
  /\ IoFree /\ conn[c] = "read" /\ c \in socketOpen
  /\ writes[c] < MaxWrites
  /\ request' = [request EXCEPT ![c] = r]
  /\ queue' = Append(queue, c)
  /\ conn' = [conn EXCEPT ![c] = "queued"]
  /\ UNCHANGED <<handlerVars, hasDocument, idle, answer, writes, ioVars>>

\* The read fails: the client is gone, or the socket was closed.
ReadError(c) ==
  /\ IoFree /\ conn[c] = "read"
  /\ closeSession(c)
  /\ conn' = [conn EXCEPT ![c] = "end"]
  /\ UNCHANGED <<hasDocument, request, answer, writes, queue, ioVars>>

\* The two posted handlers: send() starts the write, start() the next read.
\* One step: whatever runs between the two, a close included, may as well run
\* before or after both.
SendAndRead(c) ==
  /\ IoFree /\ conn[c] = "posted"
  /\ writes' = [writes EXCEPT ![c] = @ + 1]
  /\ conn' = [conn EXCEPT ![c] = "read"]
  /\ request' = [request EXCEPT ![c] = NoRequest]
  /\ answer' = [answer EXCEPT ![c] = "none"]
  /\ UNCHANGED <<handlerVars, hasDocument, idle, queue, ioVars>>

\* A write completes, at any later time.
Written(c) ==
  /\ IoFree /\ writes[c] > 0 /\ c \in socketOpen
  /\ writes' = [writes EXCEPT ![c] = @ - 1]
  /\ UNCHANGED <<handlerVars, hasDocument, idle, conn, request, answer, queue, ioVars>>

WriteError(c) ==
  /\ IoFree /\ writes[c] > 0
  /\ writes' = [writes EXCEPT ![c] = @ - 1]
  /\ closeSession(c)
  /\ UNCHANGED <<hasDocument, conn, request, answer, queue, ioVars>>

\* Mutant of CleanupScan: sessions that never logged in are not collected.
CleanupScan_LoggedInOnly ==
  /\ IoFree /\ running
  /\ toClose' = {c \in sessions : idle[c] /\ state[c] = "AUTHENTICATED"}
  /\ toClose' # {}
  /\ UNCHANGED <<handlerVars, hasDocument, idle, conn, request, answer, writes, queue,
                 running, life>>

\* The timer of startSessionCleanup fires: cleanupIdleSessions collects the
\* idle sessions under the mutex and closes them one by one after it.
CleanupScan ==
  /\ IoFree /\ running
  /\ toClose' = {c \in sessions : idle[c]}
  /\ toClose' # {}
  /\ UNCHANGED <<handlerVars, hasDocument, idle, conn, request, answer, writes, queue,
                 running, life>>

CleanupClose(c) ==
  /\ life = "up" /\ c \in toClose
  /\ closeSession(c)
  /\ toClose' = toClose \ {c}
  /\ UNCHANGED <<hasDocument, conn, request, answer, writes, queue, running, life>>

\* SIGINT or SIGTERM: the timer is cancelled and the acceptor closed;
\* connections are left alone.
stop ==
  /\ IoFree /\ running
  /\ running' = FALSE
  /\ UNCHANGED <<handlerVars, hasDocument, idle, conn, request, answer, writes, queue,
                 toClose, life>>

-----------------------------------------------------------------------------
(* A worker runs the task of connection c.                                  *)

Busy == {c \in Conn : conn[c] \in {"process", "available"}}

\* A free worker takes the first task and calls updateActivity.
Begin(c) ==
  /\ queue # << >> /\ Head(queue) = c
  /\ Cardinality(Busy) < NumWorkers
  /\ queue' = Tail(queue)
  /\ idle' = [idle EXCEPT ![c] = FALSE]
  /\ conn' = [conn EXCEPT ![c] = "process"]
  /\ UNCHANGED <<handlerVars, hasDocument, request, answer, writes, ioVars>>

\* processData returns a: send and start are posted.
Respond(c, a) ==
  /\ answer' = [answer EXCEPT ![c] = a]
  /\ conn' = [conn EXCEPT ![c] = "posted"]

\* substr(0, n) equals a prefix only if n is the prefix's length.
PrefixLength   == [LOGIN |-> 6, OPEN_DOCUMENT |-> 14, CLOSE_DOCUMENT |-> 15]
ComparedLength == [LOGIN |-> 6, OPEN_DOCUMENT |-> 11, CLOSE_DOCUMENT |-> 12]
Recognised(prefix) == ComparedLength[prefix] = PrefixLength[prefix]

IsLogin(c) == request[c].kind = "LOGIN:" /\ Recognised("LOGIN")

\* LOGIN, first call: is the name in use?  Once ~SessionHandler has run the
\* map is gone and the test may come out either way.
CheckName(c) ==
  /\ conn[c] = "process" /\ IsLogin(c)
  /\ \/ /\ isUsernameAvailable(request[c].user) \/ life # "up"
        /\ conn' = [conn EXCEPT ![c] = "available"]
        /\ UNCHANGED answer
     \/ /\ ~isUsernameAvailable(request[c].user) \/ life # "up"
        /\ Respond(c, "in use")
  /\ UNCHANGED <<handlerVars, hasDocument, idle, request, writes, queue, ioVars>>

\* Mutant of LogIn: the session is not looked up in sessions_.
LogIn_Unchecked(c) ==
  /\ conn[c] = "available"
  /\ authenticateSession(c, request[c].user)
  /\ idle' = [idle EXCEPT ![c] = FALSE]
  /\ Respond(c, "logged in")
  /\ UNCHANGED <<hasDocument, request, writes, queue, ioVars>>

\* LOGIN, second call.
LogIn(c) ==
  /\ conn[c] = "available"
  /\ c \in sessions \/ life # "up"
  /\ authenticateSession(c, request[c].user)
  /\ idle' = [idle EXCEPT ![c] = FALSE]
  /\ Respond(c, "logged in")
  /\ UNCHANGED <<hasDocument, request, writes, queue, ioVars>>

LogInFails(c) ==
  /\ conn[c] = "available"
  /\ c \notin sessions
  /\ Respond(c, "authentication failed")
  /\ UNCHANGED <<handlerVars, hasDocument, idle, request, writes, queue, ioVars>>

\* Every other request is answered in one step.
Reply(c) ==
  CASE request[c].kind = "OPEN_DOCUMENT:" /\ Recognised("OPEN_DOCUMENT") ->
         IF state[c] = "AUTHENTICATED" THEN "opened" ELSE "not authenticated"
    [] request[c].kind = "CLOSE_DOCUMENT:" /\ Recognised("CLOSE_DOCUMENT") ->
         IF state[c] # "AUTHENTICATED" THEN "not authenticated"
         ELSE IF hasDocument[c] THEN "closed" ELSE "not open"
    [] OTHER -> "echo"

Process(c) ==
  /\ conn[c] = "process" /\ ~IsLogin(c)
  /\ Respond(c, Reply(c))
  /\ hasDocument' = [hasDocument EXCEPT ![c] =
                       \/ Reply(c) = "opened"
                       \/ @ /\ Reply(c) # "closed"]
  /\ idle' = [idle EXCEPT ![c] = @ /\ hasDocument'[c] = hasDocument[c]]
  /\ UNCHANGED <<handlerVars, request, writes, queue, ioVars>>

-----------------------------------------------------------------------------
(* Time passes without activity of a session.                               *)
GoIdle(c) ==
  /\ c \in sessions /\ ~idle[c]
  /\ idle' = [idle EXCEPT ![c] = TRUE]
  /\ UNCHANGED <<handlerVars, hasDocument, conn, request, answer, writes, queue, ioVars>>

(* ~Server, once the io_context no longer runs: the members go in reverse   *)
(* order of declaration, session_handler_ first ...                         *)
DestroyHandler ==
  /\ IoFree
  /\ running' = FALSE
  /\ sessions' = {} /\ socketOpen' = {}
  /\ byName' = [u \in User |-> None]
  /\ life' = "handlerGone"
  /\ UNCHANGED <<username, state, hasDocument, idle, conn, request, answer,
                 writes, queue, toClose>>

(* ... and thread_pool_ later, when its workers have drained the queue.     *)
JoinPool ==
  /\ life = "handlerGone" /\ queue = << >> /\ Busy = {}
  /\ life' = "gone"
  /\ UNCHANGED <<handlerVars, hasDocument, idle, conn, request, answer, writes, queue,
                 toClose, running>>

Gone == life = "gone" /\ UNCHANGED vars

-----------------------------------------------------------------------------
WorkerStep(c) ==
  /\ life # "gone"
  /\ Begin(c) \/ CheckName(c) \/ LogIn(c) \/ LogInFails(c) \/ Process(c)

Step ==
  \/ \E c \in Conn :
       \/ Accept(c) \/ AcceptThrows(c)
       \/ \E r \in Request : Receive(c, r)
       \/ ReadError(c) \/ SendAndRead(c) \/ Written(c) \/ WriteError(c)
       \/ CleanupClose(c)
       \/ WorkerStep(c)
       \/ GoIdle(c)
  \/ CleanupScan \/ stop
  \/ DestroyHandler \/ JoinPool \/ Gone

Taking(u) == {c \in Conn : conn[c] = "available" /\ request[c].user = u}

Next ==
  /\ Step
  /\ raced' = raced \cup {u \in User : \E c, d \in Taking(u)' : c # d}
                    \cup {username[c] : c \in {d \in Conn : username[d] \notin {None, username'[d]}}}

Spec == Init /\ [][Next]_serverVars

-----------------------------------------------------------------------------
\* The io thread keeps polling, its timer keeps firing, workers are
\* scheduled; clients owe the server nothing, but writes end.
Fairness ==
  /\ \A c \in Conn : /\ WF_vars(WorkerStep(c))
                     /\ WF_vars(SendAndRead(c))
                     /\ WF_vars(Written(c) \/ WriteError(c))
                     /\ WF_vars(CleanupClose(c))
                     /\ WF_vars(c \notin socketOpen /\ ReadError(c))
  /\ WF_vars(CleanupScan)

-----------------------------------------------------------------------------
LoggedIn(c) == c \in sessions /\ state[c] = "AUTHENTICATED"

(* username_to_session_ and the sessions agree: a name is registered        *)
(* exactly while one live session is logged in under it, so that no two     *)
(* users share it.  It holds for every name but those whose LOGINs were     *)
(* between isUsernameAvailable and authenticateSession at once, which lock  *)
(* the handler separately, and those a session gave up by a second LOGIN,   *)
(* which nothing frees.                                                     *)
NamesMatch ==
  life = "up" =>
    \A u \in User \ raced : {c \in Conn : LoggedIn(c) /\ username[c] = u}
                              = {byName[u]} \ {None}

(* A client is told that a username is in use only if a live session is     *)
(* logged in under it at that moment: names of closed sessions are free     *)
(* again.  For the same names as NamesMatch.                                *)
RefusedOnlyIfTaken ==
  [][\A c \in Conn :
       /\ life = "up" /\ answer[c] = "none" /\ answer'[c] = "in use"
       /\ request[c].user \notin raced
       => \E d \in Conn : LoggedIn(d) /\ username[d] = request[c].user]_vars

(* A session that was closed never comes back: not by a login that was      *)
(* under way in a worker when the io thread closed it, and its socket       *)
(* stays closed.                                                            *)
ClosedForGood ==
  [][\A c \in Conn : life' = "up" /\ state[c] = "DISCONNECTED" =>
        /\ state'[c] = "DISCONNECTED"
        /\ c \notin sessions' /\ c \notin socketOpen']_vars

(* Every request is processed, whatever happens to its session meanwhile,   *)
(* and the connection reads on or ends, unless the program ends.            *)
RequestsServed ==
  \A c \in Conn : conn[c] = "queued" ~> conn[c] \in {"read", "end"} \/ life # "up"

(* The session of a client that stays silent is closed, also when answers   *)
(* to it fail or cleanups overlap with requests, unless the server stops.   *)
IdleSessionsClosed ==
  \A c \in Conn : c \in sessions /\ idle[c] ~>
                    c \notin sessions \/ ~idle[c] \/ ~running \/ life # "up"

(* A connection whose session was closed gets its pending read back and     *)
(* ends: no handler is left behind.                                         *)
ClosedConnectionsEnd ==
  \A c \in Conn : state[c] = "DISCONNECTED" ~> conn[c] = "end" \/ life # "up"

(* The maps of the session handler, the sessions and the sockets agree.     *)
SessionsConsistent == TypeOK /\ NamesMatch

(* Nobody is forgotten: requests are answered, idle sessions are closed and *)
(* closed connections go.                                                   *)
ServerProgress == RequestsServed /\ IdleSessionsClosed /\ ClosedConnectionsEnd
=============================================================================
