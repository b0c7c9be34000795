---------------------------- MODULE TcpConnection ----------------------------
(***************************************************************************)
(* network::TcpConnection (include/common/network/tcp_connection.h) as a   *)
(* record and the functions on it that the models of its owners share.     *)
(*                                                                         *)
(* write() posts to the io_context; the posted handler queues the message  *)
(* and starts a write when none is in progress; the completion of a write  *)
(* starts the next.  close() tests connected_ and resets it only after the *)
(* socket is closed, so its owners model it as two steps.                  *)
(*                                                                         *)
(* do_write() hands async_write a buffer over a local string.  What the    *)
(* socket does not take at once is read after the string is gone: the      *)
(* frame then arrives damaged, and if its delimiter is damaged too it      *)
(* takes the next frame with it.                                           *)
(***************************************************************************)
EXTENDS Naturals, Sequences

CONSTANTS
  Garbled,      \* a frame whose text was destroyed
  Joined,       \* a frame whose delimiter was destroyed as well
  Congestion    \* whether the socket may fail to take a frame at once

\* A TcpConnection that is not started; its socket is open.
NewConnection ==
  [connected |-> FALSE,     \* connected_
   open      |-> TRUE,      \* socket_.is_open()
   reading   |-> FALSE,     \* an async_read_until has not completed
   writing   |-> FALSE,     \* an async_write has not completed
   posted    |-> << >>,     \* handlers posted by write() that have not run
   queue     |-> << >>]     \* write_queue_

ConnectionType(Msg) ==
  [connected : BOOLEAN, open : BOOLEAN, reading : BOOLEAN, writing : BOOLEAN,
   posted : Seq(Msg), queue : Seq(Msg)]

start(c) == [c EXCEPT !.connected = TRUE, !.reading = TRUE]

is_connected(c) == c.connected /\ c.open

write(c, m) == [c EXCEPT !.posted = Append(@, m)]

\* The second half of close(): the first is the test of connected_.
CloseSocket(c) == [c EXCEPT !.open = FALSE, !.connected = FALSE]

\* The handler that write() posted.
RunPosted(c) ==
  [c EXCEPT !.posted = Tail(@), !.queue = Append(@, Head(c.posted)),
            !.writing = @ \/ c.queue = << >>]

\* Mutant of WriteCompleted: the queue goes on only with the next write().
WriteCompleted_Stops(c) == [c EXCEPT !.queue = Tail(@), !.writing = FALSE]

\* The completion of an async_write without error.
WriteCompleted(c) ==
  [c EXCEPT !.queue = Tail(@), !.writing = Tail(c.queue) # << >>]

\* The completion of an async_write or of a read with an error; what is in
\* the queue stays there.
WriteFailed(c) == [c EXCEPT !.writing = FALSE]
ReadFailed(c) == [c EXCEPT !.reading = FALSE]

\* What the socket is given for message m.
do_write(m) == {m} \cup (IF Congestion THEN {Garbled, Joined} ELSE {})

\* What async_read_until and getline make of a sequence of frames, seen by a
\* receiver that discards what does not parse: whether frame i comes through.
ComesThrough(frames, i) ==
  /\ frames[i] \notin {Garbled, Joined}
  /\ i = 1 \/ frames[i - 1] # Joined
=============================================================================
