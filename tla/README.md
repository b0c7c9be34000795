# A TLA+ model of the collaborative editor

This directory holds TLA+ specifications of the collaborative editor in
`src/`, the TLC configurations that check them on small instances, and TLAPS
proofs of the results that matter most. `PROJECT.json` lists the runs, the
correspondence between definitions and source lines, the mutants that show
each property can fail, the finding, the hazards and the theorems.

Paths below are relative to the repository; `ot/` stands for `src/common/ot/`,
`wspp/` for `install/include/websocketpp/`.

## 1. The system

| Part | State it keeps | Operations | What makes it correct |
|---|---|---|---|
| **Operations** (`ot/opereation.cpp`, `ot/operation.h`) | position, length, text, id, source, related id | apply, transform, inverse, clone, serialize | two concurrent operations meet in one document; the inverse restores it; nothing points outside |
| **UndoRedoManager** (`ot/undo_redo_manager.cpp`) | undo and redo stack, history limit | addOperation, undo, redo, transformHistory, clear | undo and redo walk exactly along the documents seen; the history is bounded |
| **DocumentManager** (`ot/document_manager.cpp`) | document, undo/redo manager, id counter, callbacks | setContent, local and remote operations, undo, redo | who follows the callback can follow the document; copies converge |
| **ThreadPool** (`include/server/server.h`) | task queue, `stop_`, workers | enqueue, worker loop, destructor | no lost wakeup, tasks in order and once, destructor drains and returns |
| **Server, Connection, SessionHandler, UserSession** (`include/server/server.h`, `session_handler.h`) | acceptor, timer, sockets, sessions, username map | accept, read, process, write, cleanup, signal, destruction | names and sessions agree, closed sessions stay closed, every request is served |
| **TcpConnection, TcpServer, MessageChannel** (`include/common/network/tcp_connection.h`) | socket, write queue, handlers; connection set | send, read, close, start, stop | messages written once and in order; stop returns |
| **ServerManager / ClientManager** (`include/server/session`, `include/client/network`) | clients by id; connection, pending messages, status | start, stop, broadcast; connect, send, disconnect | clients listed are connected; pending messages are sent |
| **CrdtDocument** (`include/common/crdt/crdt_document.h`) | characters sorted by position | local / remote insert and delete | replicas converge, characters land where they were typed |
| **client Document** (`include/client/editor/document.h`) | lines, cursors, selections, history, listeners | edit, undo, redo, move, select | lines and history fit; listeners can follow |
| **CollaborativeEditingServer** (`include/server/main.cpp`) | websocket clients, document, revision | join, edit, broadcast, leave | an operation reaches exactly the others |
| **FileSystem** (`common/models`) | tree of nodes, versions | add, remove, rename, write | parent and child links agree, paths resolve |
| **Protocol, Logger, ConfigLoader** | message members; file, backups, mutex; key/value map | encode; log, rotate; load, save | what is written can be read; no line is lost; logging returns |
| **websocketpp connection** (`wspp/impl/connection_impl.hpp`) | state, internal state, send queue, write flag, timers | start, handshake, send, ping, close, terminate, pause | handlers called once, stream in order, closing ends |
| **websocketpp transports** (`wspp/transport/`) | operations and timers under way; acceptor; read buffer | resolve, connect, proxy, TLS, shutdown; listen, accept; read | every stage reports once; the accept loop lives; no octet is lost |
| **websocketpp formats** (`wspp/processors`, `frame.hpp`, `http`, `extensions`, `base64`, `utf8_validator.hpp`, `close.hpp`, `uri.hpp`) | state of the parsers | read and write frames, HTTP, offers, keys, codes, addresses | meaning does not depend on how the octets arrive; both ends agree |

How they interact. The editor calls its DocumentManager; the manager calls
the undo/redo manager under `document_mutex_` and hands each operation to
`operation_callback_`, from where it travels as JSON to the other users'
managers (`applyRemoteOperation`). In the server one thread runs the
`io_context` (accept, read, write, timer and signal handlers); a completed read
enqueues a task to the thread pool; a worker runs `processData`, which calls
the SessionHandler, and posts the answer and the next read back to the io
thread. ServerManager and ClientManager wrap TcpServer and TcpClient with a
MessageChannel that frames protocol messages. The installed websocketpp carries
websockets: a connection sits on a transport below and hands octets to the HTTP
parser first and to a frame processor afterwards.

What is hard: operations that cross on the network; histories that are
rewritten by remote operations between an edit and its undo; a
condition-variable pool and its destructor; requests that run on workers while
the io thread closes their sessions; tests and uses of a state that lie in two
critical sections; asynchronous operations racing their timers; octets cut
anywhere; crashes within a rotation or a save. The full list, at its lines, is
under `hazards` in `PROJECT.json`.

## 2. Modules

    Operation ----- OperationPair                      (transform against its reference)
        |   \            |
        |    OperationProofs
        |      |         \
        |      |     CollaborationProofs               (OperationPair, Collaboration, CrdtDocument)
    DocumentManager -- DocumentHistory                 (implements UndoTimeline)
        |    \-------- DocumentProofs
    Collaboration                                      (two DocumentManagers)  MCCollaboration

    ThreadPool (implements TaskPool) -- ThreadPoolProofs
    Server (io thread, workers, sessions)
    Logger, FileSystem, EditingServer, Config, Protocol    MCServices
                          \-- ServerProofs              (Server, EditingServer, Logger)

    TcpConnection -- ServerManager, ClientManager      MCNetwork
    EditorDocument, CrdtDocument                       MCEditor
                          \-- NetworkProofs             (both managers, EditorDocument)

    websocketpp:
      WsConnection -- WebsocketProofs                  MCWebsocket
      AsioConnection, AsioEndpoint, IostreamConnection MCTransport
                          \-- TransportProofs
      WsFrames, Deflate, HttpParser, WsHandshake, WsValues  MCCodecs

A run may check several modules that share no state. The MC module then has one
more variable, `scenario`, `part` or `codec`, that chooses in the initial state
which of them moves, so that the state space is the sum of theirs and not the
product. It also says how the bounds are spent (`WithinBounds`): for instance
two clients and no messages, or one client and messages.

A property a run names is a conjunction of named parts, each stated and
explained on its own in the module of its component (`StreamKept`, say, is
`WsTypeOK`, `CloseFrameIsLast`, `MessagesInOrder` and `CloseCodesAgree`).

### Editing

**Operation** is purely functional. A document is a sequence over `Char`,
positions count from 0 as in `std::string`, an operation is a record. `Applies`,
`Apply` and `Applied` are the three effects of `apply()`: its verdict, the new
document, and the object afterwards (a delete without text stores what it
removed, through the `const_cast` in the code). `inverse` and `Clone` build
new objects: id, source and relation start afresh, as in the code.
`Transform` has the four class pairs and, for two deletes, the five cases of
the code in their order. Positions are unbounded naturals: a subtraction that
would wrap around `size_t` shows as a negative number and violates `TypeOK`.
**OperationPair** lets two sites apply concurrent operations and then each
other's, transformed. It states exactly when the two orders meet.

**DocumentManager** has one action per public call and outcome. Each call holds
`document_mutex_` to its end, so it is one step. `undo` is split by its outcomes:
success, `inverse()` throwing after the pop (`undoThrows`), and nothing to undo or
`apply()` refusing (`undoFails`). `emitted` is what the call passed to the operation
callback, `result` how it ended. Two parts of the code are unreachable and
have no action: `transformHistory`'s `clear()` (no `transform` returns null) and
`applyLocalOperation` with an object whose id or source was set before (callers
submit fresh objects). **DocumentHistory** adds two history variables, the
documents behind the two stacks, and shows that a user alone gets
**UndoTimeline**: undo and redo walk along the documents seen.
**Collaboration** composes two managers with FIFO channels. `Wire` is serialize
followed by deserialize. The network is external: reliable and ordered, like
the TCP connection the repository uses.

**EditorDocument** is the client's document: lines, multi-line inserts and deletes,
undo through positions and remembered texts, cursors, selections, listeners. A
public method that calls another one with the non-recursive `mutex_` held sets
`stuck` where locks are real (`locks`), and goes on where they are not. An operation of the model
carries the text it removed, so that `RemovedStoodThere` and `DeletedTextKept` can compare it with
what the listeners and `undo()` find; `undone` remembers an `undo()` that got past the lock.
**CrdtDocument** has one replica for each author, the three position strategies, and
operations that arrive in order from one author and in no order between two.
Random numbers are any number of their range, scaled; clocks are any member of
`Timestamps`.

### Server and network

**ThreadPool** takes what happens under `queue_mutex_` as one step and the
notifications, which follow the unlock, as steps of their own. Spurious wakeups
are an action. **TaskPool** is what submitters rely on.

**Server** models `Server`, `Connection`, `SessionHandler` and `UserSession`
together, because the hazards lie between them. Each method of SessionHandler
is one step (it locks `mutex_` throughout); `processData` and
`cleanupIdleSessions` are split where they release it. A session shares its
identifier with its connection (ids are fresh UUIDs). Time is abstracted to
`idle`: the last activity is longer ago than the limit. What a worker does
after `~SessionHandler` is undefined and left open. The pool is represented by its
queue and the number of busy workers, which **ThreadPool** justifies. `raced`
remembers the names that two workers took at once; the properties on names
except those.

**TcpConnection** is a record with the functions its owners share: posted writes,
the queue, the one write under way, close as two steps. `do_write` gives
`async_write` a local string; with `Congestion` a frame may arrive `Garbled`, or
`Joined` to the next. **ServerManager** is TcpServer with connections, channels
and the manager; the io thread, the thread that stops and threads that send
interleave, and `connections_mutex_` is held across the loop of `stop()`.
**ClientManager** has the callers of `connect`, `disconnect` and `sendMessage`, the
io thread and the registration of the status callback.

**Logger** has the threads that log, the one that initializes, the rotation step
by step (`rotation` is the number of the backup a step moves), failing steps, and a crash at any step;
`initialize()` may be called again. **FileSystem** keeps nodes, their
names, parents and children maps; a path is a sequence of names. **EditingServer**
is the websocket server of `include/server/main.cpp` with its clients map.
**Config** writes the text of a file (`FileText`), and splits and parses it when it is loaded
(`Lines`, `parseLine`); its characters are words, digits, quotes, white space and line breaks.
**Protocol** says which members each message class writes and reads.

### websocketpp

**WsConnection** is one client and one server end over two FIFO channels. Each
end has a strand, whose handlers run one at a time, and an application thread
that sends, pings, closes, pauses and resumes. Where the code tests `m_state` under a
lock and acts after it the model has two steps; `stale` marks an end whose test was out of date when
used. `reads` counts the reads under way; two of them share `m_buf`, and what the first has read may
be `Overwritten` by the second (`doubled`). **AsioConnection** is the client side of the asio transport: one operation and one timer per stage, whose
queued handlers can no longer be cancelled, a resolver all connections share, proxy and TLS. Where
`handle_pre_init` is called twice, the stages behind it are begun twice (`Round`).
**AsioEndpoint** is `listen`, the accept loop, `stop_listening` in its two steps and `run`, from two
threads. **IostreamConnection** is the transport without a network; octets are numbered, so that the
buffer shows their order.

**WsFrames** writes and reads the frames of RFC 6455 with scaled length limits;
octets are four kinds, enough to tell valid, split and invalid UTF-8 apart.
It has the frames of the oldest draft (hybi00) too. **Deflate** negotiates
permessage-deflate at both ends, with every mode and limit an application may set. **HttpParser** reads heads, and the parameter lists
in them. **WsHandshake** is request and answer. **WsValues** has base 64, UTF-8,
close codes and addresses: functions checked against what they are meant to compute.

Definitions named `X_Y` in these modules, marked as mutants, are deliberately
wrong variants of `X`; no specification uses them. Replacing `X` by one of
them must make TLC report the property it is listed with.

## 3. Runs

| Run | Question | Bounds | States |
|---|---|---|---|
| `document_manager` | history bounded and well formed, changes announced, with remote operations | document of 2, history limit 2, 3 local and 2 remote operations | 418 000 |
| `document_history` | does a user alone get the undo timeline? | history limit 2, 3 edits | 15 500 |
| `collaboration` | do two concurrent operations meet? do two managers converge when users take turns? | pairs: documents up to 4 characters of 2 kinds, texts up to 2, every position and length; managers: 2 edits each, undo and redo | 577 000 |
| `thread_pool` | lost wakeups, order, draining, termination | 2 workers, 3 tasks | 9 800 |
| `server` | names, closed sessions, service, cleanup, shutdown | 2 connections, 2 users, 2 workers, relogin | 187 000 |
| `network` | order, lists, stop and disconnect | 2 clients, 2 messages each way, 2 connects | 133 000 |
| `documents` | editor lines and history; CRDT convergence | texts up to 4 characters, 3 edits, history limit 2; 3 authors, 3 inserts, 1 delete | 277 000 |
| `services` | log, tree, clients, settings, messages | 2 threads, 6 lines, 1 crash; 3 nodes, 5 calls; 3 sockets, 2 edits; settings written, saved and loaded; every message class and type | 180 000 |
| `websocket` | handlers, stream, closing | 2 messages, 1 ping, 1 fault, 2 reads | 70 000 |
| `transport` | stages, accept loop, reads | 2 connections; 2 clients, 2 listens, 1 fault; 5 octets, 4 reads | 215 000 |
| `codecs` | do all formats survive being written, cut and read? | see `MCCodecs` | 329 000 |

Why the bounds are enough. A pair of operations can be disjoint, adjacent,
nested, equal or overlapping at either end; four characters realise every one of these
with room on both sides, and two kinds of characters tell the texts apart. A
history limit of 2 with three edits makes the trim happen, and the redo stack
meet it; two remote operations are needed to rewrite a stacked delete twice.
Two workers and three tasks are the least with a sleeping worker, a running
one and a task in the queue. Two connections and two workers are the least for a
race on one name; the second name lets one be given up while the other is taken. Two messages make an order and a queue
behind a write; two connects let a client come back. Three authors are the least
for an insert and its delete to reach a third in either order. A log file of two
lines, three backups and six lines fill every backup, the oldest included. Three
nodes make a cycle of directories thinkable. One fault in each place is enough
because the code keeps no count of faults. The limits of frames, heads and close reasons are
scaled so that messages lie below, at and above each of them. Values of parameters contain quotes and
backslashes, settings of a file quotes, blanks, carriage returns and line breaks, intervals lie at and beyond
`INT_MAX`, window sizes at 7, 8 and 15 and beyond 256. In `MCTransport` the second connection takes
part where they share the resolver. Where the stages of a connection are begun twice, its timers run out one
by one (`OneByOne`) and it is followed until its shutdown is reported (`StillOpen`).
Names starting with `Max` are bounds of the exploration, except those the module
relates to a constant of the code (`MaxHistory`, `MaxBackups`, `MaxFileLines`).
`CHECK_DEADLOCK FALSE` stands where every bound can be used up and nothing is
left to happen; `document_manager`, `document_history`, `thread_pool` and `server` check deadlock.

Convergence. `ConvergeUnlessConflict` is an equivalence: `transform` satisfies the
first transformation property except for two inserts at one position (each
moves behind the other) and a delete whose range strictly contains the
other's insertion point (the delete grows over the insert, the insert survives
the delete). In those two classes the sites always differ.

Fairness is always weak, and asks nothing of clients, peers and callers but what
is said here.
- `thread_pool`: threads that can run do run, tasks return, a caller of
  `enqueue` reaches its `notify_one`; nobody has to submit or to destroy the pool.
- `server`: the io thread and the workers are scheduled, the timer fires again,
  started writes complete or fail, the read of a closed socket is aborted; clients
  owe nothing.
- `network`: the io thread, the thread that stops or disconnects and a call of `sendMessage` go on
  while they can; no peer has to connect, send or leave.
- `services`: a thread that can lock `mutex_` does, and the holder goes on.
- `websocket`: each strand runs its handlers, timers run out, calls of the
  application return. `MCWebsocket` leaves the timers out of `talking` and `closing`;
  what depends on a timer is therefore checked in `opening`, `http` and `failing`
  only.
- `transport`: queued handlers run and time passes; handlers of the accept loop
  run while a thread is in `run()`, the system completes an accept when a
  client waits, and `stop_listening()` goes on to its second assignment. An operation that never completes is allowed:
  its timer must answer. What follows an exact tie of an operation and its timer
  is not explored (`NoTie`).

### The run that refutes a statement

`concurrent_edits` refutes "Remote operations are transformed against pending local
operations" (`ot/document_manager.h:53`): they are applied as they arrive, and edits
that cross diverge. `Converged` therefore holds only for users who take turns
(`TakingTurns`), as `collaboration` checks.

### Deviations the models contain

These follow from the code as it stands. The models reproduce them, and the
properties say under which condition the promise holds without them.

Editing
- A remote delete can empty the text of a stacked delete: `undo()` pops it,
  `inverse()` throws, the operation is on neither stack (`undoThrows`), although
  `undo_redo_manager.cpp:50` means to put it back. `NeverPutBack` holds for a user alone.
- After a remote edit inside inserted text, undo of the insert removes other
  characters (`opereation.cpp:64`).
- Undo and redo are linked to id 0, because the stacks hold clones (`UndoOp`).
- `position_ + length_` of an operation from the wire may wrap around `size_t`; the
  model's numbers are unbounded and the inputs stay below that.
- Callbacks run under the document's mutex; a callback that calls back hangs.
- The editor's `undo()` and some others lock `mutex_` twice (`Blocks`); two deletes
  of one millisecond share an entry of `deletedTexts_`; cursors are not moved by
  edits of others. `setText()` is the one call listeners cannot follow
  (`ListenersCanFollow` exempts it by name): it announces nothing and records a
  length of 0 and no removed text, so its undo does not restore what was there.
- CRDT replicas differ after a delete when two characters share a position
  (`Twins`; one of them may have been deleted and inserted again with the same timestamp) or
  the delete overtook its insert (`missed`); an insert between neighbours without room lands
  elsewhere.

Server and network
- Test and registration of a name are two critical sections: two workers can log
  in two sessions under one name (`raced`). A second login on one session leaves
  its first name registered. A session that turns active between the scan and
  the close of a cleanup is closed. `getIdleSeconds()` truncates, so a limit is
  exceeded up to a second late.
- `OPEN_DOCUMENT:` and `CLOSE_DOCUMENT:` are compared with prefixes of the wrong
  length and never recognised (`Recognised`).
- `session_handler_` is destroyed before the pool's workers are joined
  (`DestroyHandler`). The answer's buffer may die before it is written
  (`server.h:190`); `remote_endpoint()` may throw in the accept handler
  (`server.h:262`). A pool of zero threads runs nothing.
- `TcpServer::stop()` waits for itself when it meets a connection that is just
  accepted; a channel may be used after it was freed when a failed write or `stop()` closed its connection.
- In ClientManager a message that waits in the queue may be overtaken or stay
  there, and a second `connect()` after a failed attempt ends the program.
- `EditingServer`: the id of a client that stays may be given to another.
  `write` blocks the one thread; `baseRevision` is not used to transform.
- `Config`: quotes and blanks at the ends are lost, a line break in a value splits it and the
  rest may be read as another setting (`Strays`), a carriage return within makes the pattern fail
  and the setting is dropped, a save truncates first, ports wrap at 16 bits, and an
  interval beyond `INT_MAX` is saved in full and read as the default (`FitsInt`). `Protocol`: a plain `Message` with the type of a family is
  written and cannot be read. `Logger::initialize` hangs when it logs; called again on an open
  file it makes the stream fail and later lines are lost (`logger.h:302`, `again`, `lost`); each
  translation unit has a `g_logger` of its own (`logger.h:234`).

websocketpp
- A stale test of `m_state` lets a closed connection change state or a frame
  follow the close frame (`stale`). A close frame with a bad code is acknowledged
  differently from what was received.
- `resume_reading()` while reading is not paused starts a second read on the one `m_buf`
  (`connection_impl.hpp:390`), although `connection.hpp:738` says nothing is changed then. From there on
  (`doubled`) the order of messages is not claimed.
- A client that cannot negotiate the extensions of the answer terminates, and then goes on to open
  the connection (`connection_impl.hpp:1619`, `reopened`).
- Whether a fragmented text ends inside a character is not noticed and the text is delivered
  (`hybi13.hpp:537`, against the comments at 510 and 536; `unfinished`). A close reason that
  is too long is cut between two octets, and the peer refuses it when they belong to one
  character (`connection_impl.hpp:312`, `CutInside`). In the oldest draft the third key must be in the same
  read as the head. A client does not look at the subprotocol of the answer.
- A timeout of one connection cancels the resolver of all (`endpoint.hpp:963`); an operation that
  completes exactly when its timer is due may be reported twice. A failing SNI setting calls
  `handle_pre_init` with the error and again without (`tls.hpp:246`), which both times goes on to the next
  stage (`asio/connection.hpp:483`): operations and timers are begun twice, and behind a proxy the second
  round may use `m_proxy_data` after the first has reset it (`crashed`). `StagesReported` claims single reports
  where the name could be set, `CrashOnlyOfBadSni` that nothing else leads there. An aborted TLS handshake is reported as
  one that failed (`tls.hpp:298`).
- The accept loop ends when no connection can be created, and two loops run
  after a quick stop and start. Between the two steps of `stop_listening()` the loop finds the
  acceptor closed and the state LISTENING, and goes round with errors.
- Each line of a head is counted with an octet too many and each read that ends in it with three
  (`request.hpp:70`), so a head below `max_header_size` (`constants.hpp:64`) may be refused (`Miscounted`); the body
  of a response has no limit. A quote behind an escaped backslash is taken for an escaped one
  (`http/parser.hpp:112`, `HasEscapedBackslash`).
- A refused offer of permessage-deflate leaves its attributes behind (`mixed`). `generate_offer()` is
  fixed (`enabled.hpp:483`): what an application of a client has set is not requested, although the comments at 353
  and 398 say so (`LimitsServer`, `DeclinesLimit`), and a window of 265 bits is read as one of 9 (`Wraps`).
- Addresses lose the brackets of IPv6 (`uri.hpp:244`). The iostream transport may
  complete one read twice after a stream error (`:622`), against the comment at `:661`; `CompletedUnasked`
  says that this needs a bad stream behind enough octets.

## 4. Proofs

Eight modules hold the theorems; `theorems` in `PROJECT.json` lists those a reader
should know of. They are about systems of any size: any number of workers, tasks,
connections, clients, names and messages, documents and texts of any length.

Assumptions on constants. `InputAssumption`: what callers pass in is texts and
natural numbers. `MaxHistoryAssumption`: the limit is a natural number, 0 included.
`MaxWritesAssumption`, `SendBoundsAssumption`, `ClientBoundsAssumption`,
`IoBoundsAssumption`: the bounds of the exploration are natural numbers; no theorem
depends on their values, so the results hold for runs of any length. `CrdtAssumption`:
authors and timestamps are ordered as integers, and the ranges of random numbers are natural
numbers. `EditorAssumption`, `LoggerAssumption`: the client's history, a log file and the list of backups
hold at least one entry (the code has 1000 operations, a megabyte and 3 backups), and the values for no thread and for
the initializing one are not threads that log. `NoneAssumption`,
`NoTaskAssumption`, `ClientAssumption`, `DamageAssumption`: the values that stand for no
connection, no task, no client and a damaged frame are not connections, tasks, clients and
messages. `FinitelyMany`: a pool has finitely many workers and is given finitely many tasks. Two theorems have a hypothesis of their own. `Worker # {}` of
`PoolRefinesTaskPool`: the constructor of ThreadPool permits zero threads, and such
a pool is destroyed with tasks still queued, so it does not implement `TaskPool`. `TakingTurns` of
`TurnsConverge`: without it `concurrent_edits` shows a counterexample.

**OperationProofs.** `InverseRestores`: for every document and every operation that
applies and knows the text it removes, `inverse()` applies to the result and
restores the document. It rests on the length and the characters of a spliced
text (`SpliceProperties`), from which `EraseInserted` and `InsertErased` follow by
comparing character by character. `TransformType`: the result of `transform` is
an operation, without underflow, and a delete that carries no more text than its range still does.

**DocumentProofs.** Of DocumentManager: the inductive invariant `IInv` is the type of the
variables with `StackOK` (each stacked operation is one, and its text fits its range) and the bound on both stacks
together. The bound must be on the sum: `redo()` pushes without trimming, so a bound
on the undo stack alone is not inductive. One lemma per action, then
`TypeCorrect`, `BoundedHistory`, `TextNeverExceedsRange`; `AnnouncedSteps` proves the action property
`EmittedExplains` from the same invariant.

Of DocumentHistory: the inductive invariant `HInv` adds `HistoryLeads`: the
operations of each stack lead between the documents of the timeline.
Pushing, popping and trimming preserve such chains (`ChainPush`, `ChainPop`, `ChainTrim`, one
proof for both stacks by the direction of `Link`); undo along a link is
`InverseRestores`; an operation that cannot be inverted removed nothing
(`NotInvertibleIsVoid`). Each action is shown to preserve the invariant and to be a
step of the timeline, which gives `HistoryAlwaysLeads`, `NothingPutBack` and
`Refinement` for every history size and every sequence of edits.

**CollaborationProofs.** `OperationsMeet`: for any document and any two operations
issued for it, each transformed against the other applies, and the two orders meet
exactly when the operations do not conflict. An insertion and an erasure are
characterised by the characters they leave (`IsInsertion`, `IsErasure`), the four
class pairs and the positions of the ranges are compared case by case, and
`MeetSymmetric` halves the work. `PairInv` says what each site's document is before,
between and after its two steps; with it `TransformIsSound` and
`ConvergeUnlessConflict` hold in every state.

`TurnsConverge`: `TurnInv` says that nothing is in flight and the two documents agree, or that one
operation is and takes one document to the other. It is inductive without any knowledge of the
stacks: whatever `undo()` or `redo()` takes from them, what it announces is what it applied, and
`Wire` keeps what `apply()` uses.

`ReplicasMeet` is about CrdtDocument. `CharLess` is shown to be a strict order on any characters
(`LexOrder`, by the first digit in which two positions differ), so `insertChar` puts a character
behind a prefix of smaller ones and keeps the list sorted, as does a deletion. `ReplicaInv` adds
the bookkeeping of what travels: what a replica has comes from its author, who is a member; what an author
inserted has arrived or is on its way (`NothingLost`); and while nothing is deleted a list holds
exactly what was ever seen. Two sorted lists without ties and with the same elements are equal
because the index of an element is the number of those up to it (`RankIsIndex`). `NoTies` is a
hypothesis on the state: characters of one author, position and timestamp compare equal, and
their order would need the order of arrival. Convergence after deletes stays with TLC, with the exceptions
`ReplicasConverge` names, and so does `IntentionKept`.

**ThreadPoolProofs.** `NoLostWakeup` counts: while a worker sleeps, the queued tasks are no more than
the workers that are awake and the notifications still to come (`WorkConserving`). It is inductive with what the
destructor does: `WakeInv` adds that `stop_` is set exactly once it has begun, and that a
worker that runs has a task. For the refinement `PoolInv` relates the
history of accepted tasks to the queue and the workers: the queue is the part of it
that has not started, in order, and each worker runs a task of the part that has.
Each step is then a step of `TaskPool` or leaves its variables alone.

**ServerProofs.** `ServerInv` has two halves. `Shape` is control: a connection that was
not accepted has no session, the queue holds each queued connection once, only a LOGIN
gets past the test of its name. `Names`: a closed session is out of both maps, and a LOGIN between its test and its registration holds a name
nobody else took (`TakerIsAlone`, `NameStillFree`), or the name is in `raced`. `NamesMatch`
alone is not inductive: the registration is safe only because of what happened since
the test. `ClosedForGood` and `RefusedOnlyIfTaken` are action properties proved from it.

For the editing server `EditInv` adds to `ClientsAreReaders` that a socket which has not joined has no name and was
sent nothing (`Newcomers`), and that the names in use are the first n until somebody leaves
(`NamesCount`): only then is `clients_.size() + 1` free. `Followed` is `OthersAreTold` for sockets that are
read, with the places of the operations among the revisions as a witness; it needs that no name in
use was given out again. For the logger `LoggerInv` is `LogHasNoGaps` as a predicate of the parts,
with `RotationReady` (the place a step moves a file to is free; while nobody rotates there is a
file) and `Sized` (the limits, unless a step failed); lines that are lost while the logger is open need a second
`initialize()` (`LinesLostOnlyIfInitializedTwice`). Renaming the parts one by one keeps the
predicate, which is why a crash at any step loses nothing but the oldest lines.

**NetworkProofs.** For the server `ManagerInv` says where a connection can be between its
accept and its close handler: untouched by any accept handler and in no table; inside the
accept handler, with the TcpServer's own close handler; handed to the manager; or
closed by somebody. While no `stop()` is in progress `clients_` and the set of connected
connections differ by the one the io thread is working on. `Delivery` adds the messages:
what `write()` was called with is, in order, what the client has, what is queued and what
is posted (`InTransit`). Together they give `ConnectionsKept`, and
`StopHangsOnlyDuringAccept`, a part of `TcpProgress`. For the client `ClientInv` has the same
line of messages with `pendingMessages_` at its end: no message is in it twice, and one
stands before an older one only if that one was pending (`InLine`). The message
`sendMessage()` has tested for and not yet passed on is newer than all of the line; without
this the order is not inductive. `Progress` and `Reported` carry the status and the abort.

For the client's Document each edit is a function that ends in `recordOperation()`; what that
keeps is proved once (`RecordKeeps`, `FinishKeeps`) and carried through single-line and multi-line
edits and `undo()`, which performs an edit (`InsertEdits` to `UndoEdits`). `EditorInv` adds that
`deletedTexts_` holds, for the newest operation of each millisecond, the very text that operation removed, until
an `undo()` gets past the lock, whose `pop_back()` removes the record of its own edit and leaves the
undone operation in the history (`undone`).
`EditorHistoryKept` gives two parts of `EditorKept`, `EditorVersionsGrow` one of `ChangesAreTold`.

**TransportProofs.** For the accept loop `EpInv` counts, thread by thread: connections created
are started, terminated, in an accept or in a thread's hand, and there are no more chains than
calls of `start_accept()`. For the iostream transport `IoInv` keeps that what was given and what the buffer holds up to the cursor
are the octets of the stream in their order, that the cursor stays within the buffer, and that reads and
answers differ by the read that waits and the completions nobody asked for. For a client connection `StagesInv` has what holds however operations and timers tie
(`Whole`: stages begin one after the other, and success is the last one's), and what holds while no tie
was exact and SNI could be set (`Orderly`): an outstanding operation has a timer that will answer or
has answered for it (`Guarded`), at most one timer is alive, and which one it is tells what has
been reported (`Standing`). `CalledOnce` alone is not inductive: a second report is excluded only by
knowing which handlers can still run.

**WebsocketProofs.** `WsInv` describes the two ends and what is between them. Of each end: which
handlers were called and which are still to come, by its state (`Story`), and that on the line of
all frames it has written, is writing and will write nothing stands behind a close frame
(`LineOK`); both unless the end was `stale`. Between them: the peer has got the messages from the
first on without a gap, and what is in its pipe goes on from there (`Carried`), until a second read is
started (`doubled`), and until then one read is under way (`OneRead`); a close frame under
way or received carries the code its sender keeps (`Codes`), as long as there was no fault and no error. None of the parts of `HandlersOnce` and `StreamKept` is
inductive alone: that no handler is called twice rests on which state a queued handler will find, and
what is written last on which frames are marked terminal. `HandlersCalledOnce` and `StreamAlwaysKept`
follow from `WsInv`; `ClosedStaysClosed` is the action property `ClosedIsFinal`, proved from it
action by action.

Only model-checked, because the prover cannot: liveness under fairness (`PoolProgress`,
`ServerProgress`, the rest of `TcpProgress`, `DisconnectReturns`, `ClosingEnds` and the like) and anything with
ENABLED; what recursive definitions, folds, sorting and `SelectSeq` compute, which needs induction over
data: the formats of `MCCodecs` (`FramesKept`, `HttpKept`, `Negotiated`, `ValuesSurvive`),
`RoundTrips`, and of `EditorKept` and `ChangesAreTold` the parts about `getText()` and linear positions
(`PositionsRoundTrip`, `ListenersCanFollow`). The type invariant of EditorDocument depends on what
`Split` returns and stays with them. Of `ReplicasAgree` convergence after deletes and `IntentionKept` are model-checked.
RECURSIVE operators are used in the parameter lists of
`HttpParser` only, which no module with a theorem reaches.

## 5. How to run

    tlc -workers 2 -config MCServer.cfg MCServer
    tlapm DocumentProofs.tla

## 6. Plan

Done: the OT core with its proofs, the thread pool and the session server, the
TCP layer with both managers, both client documents, the services and the parts
of websocketpp that have behaviour; and the proofs of section 4. Left, in the order of their
worth:

1. `CrdtDocument`: convergence after deletes, which needs for each delete the one character it
   removes; and the insertion of ties in the order of arrival, to be rid of `NoTies`.
2. `CrdtDocument`: `IntentionKept`, strategy by strategy.
3. `Config` and `FileSystem`: theorems for trees and settings of any size.

## 7. Not modelled, and why

`CompositeOperation` is declared and defined nowhere. The headers `ot/editor.h`,
`ot/history.h`, `document_controller.h`, `history_manager.h`, `operation_manager.h`,
`connection.h`, `document_client.h`, `document_editor.h`, `session_manager.h` and
`crdt/document.h` declare classes whose implementations are placeholders. UuidGenerator
wraps a random source; its results are taken to be fresh. The example program shows
the parts at work and keeps no state of its own. Log output and the wording of
answers are left out.

Of websocketpp: hashes, random numbers, loggers, message buffers and
configurations compute, print or allocate and have no behaviour a small model
could tell apart (digests are taken to be injective, random values fresh);
compression itself is zlib's; the stub transport does nothing and the debug
transport is driven by hand in tests; the timer of a pong is not modelled;
settings of sockets and of TLS are left out. hybi07 and hybi08 differ from
hybi13 in names and versions only.
