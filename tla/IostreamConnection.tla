-------------------------- MODULE IostreamConnection --------------------------
(***************************************************************************)
(* The transport of websocketpp for octets the application moves itself    *)
(* (transport/iostream/connection.hpp): the application hands in what      *)
(* arrived, by read_some(), read_all() or from a stream, and the           *)
(* connection is called back when the read it asked for is satisfied.  The *)
(* handler runs within that call and may start the next read.              *)
(*                                                                         *)
(* Octets are numbered as they are fed in, from 1, and the reads share one *)
(* buffer, as those of a websocketpp connection do: what an earlier read   *)
(* left in it stays there.  A loop round of read_all() or of read() is one *)
(* step; m_read_mutex is held until `todo' is 0.                           *)
(***************************************************************************)
EXTENDS Integers, Sequences, FiniteSets, FiniteSetsExt

CONSTANTS
  MaxFed,        \* bound: octets fed in
  MaxIoReads,      \* bound: reads started
  MaxLen         \* bound: length of a read buffer

ASSUME IoBoundsAssumption == MaxFed \in Nat /\ MaxIoReads \in Nat /\ MaxLen \in Nat

VARIABLES
  io,            \* the transport: see NewTransportRead
  buf,           \* the buffer the reads are given
  call,          \* the call of the application that runs: "none", "all", "stream"
  todo,          \* octets that call still has
  streamBad,     \* the stream failed
  failedAt,      \* history: the members when it did
  fed,           \* octets taken so far
  got,           \* the octets the handlers were given
  reads,         \* reads started
  answered,      \* handler calls
  unasked        \* complete_read() was called with no read to complete, and threw

streamVars == <<streamBad, failedAt, unasked>>

ioVars == <<io, buf, call, todo, streamVars, fed, got, reads, answered>>

NewTransportRead == [reading |-> FALSE, needed |-> 0, len |-> 0, cursor |-> 0]

IoInit ==
  /\ io = NewTransportRead /\ buf = [i \in 1..MaxLen |-> 0]
  /\ call = "none" /\ todo = 0
  /\ streamBad = FALSE /\ failedAt = NewTransportRead /\ unasked = FALSE
  /\ fed = 0 /\ got = << >> /\ reads = 0 /\ answered = 0

\* The members after async_read_at_least() took a read.
Reading(n, len) == [reading |-> TRUE, needed |-> n, len |-> len, cursor |-> 0]

\* async_read_at_least() from outside a handler: refused when there is a read
\* already or the buffer is too small; nothing to read is done at once.
async_read_at_least ==
  /\ call = "none" /\ reads < MaxIoReads
  /\ \E len \in 0..MaxLen, n \in 0..MaxLen :
       IF n > len \/ io.reading \/ n = 0
       THEN answered' = answered + 1 /\ io' = io
       ELSE answered' = answered /\ io' = Reading(n, len)
  /\ reads' = reads + 1
  /\ UNCHANGED <<buf, call, todo, streamVars, fed, got>>

\* The handler of a read takes the octets up to the cursor of t out of b.
Given(t, b) == got \o [i \in 1..t.cursor |-> b[i]]

\* complete_read(): the handler is called.  After a read that succeeded it may
\* start the next one.  t and b are the members and the buffer by then.
complete_read(t, b, ok) ==
  /\ got' = Given(t, b) /\ answered' = answered + 1
  /\ \/ io' = [t EXCEPT !.reading = FALSE] /\ reads' = reads
     \/ /\ ok /\ reads < MaxIoReads /\ reads' = reads + 1
        /\ \E len \in 1..MaxLen : \E n \in 1..len : io' = Reading(n, len)

\* The buffer with k octets copied behind the cursor.
Copied(k) ==
  [i \in 1..MaxLen |-> IF i > io.cursor /\ i <= io.cursor + k
                       THEN fed + (i - io.cursor) ELSE buf[i]]

\* k octets are taken.
Take(k) ==
  LET t == [io EXCEPT !.cursor = @ + k]
  IN /\ fed' = fed + k /\ buf' = Copied(k)
     /\ IF t.cursor >= t.needed THEN complete_read(t, buf', TRUE)
        ELSE io' = t /\ UNCHANGED <<got, reads, answered>>

\* read_some()
read_some ==
  /\ call = "none" /\ io.reading
  /\ \E k \in 1..(MaxFed - fed) : Take(Min({k, io.len - io.cursor}))
  /\ UNCHANGED <<call, todo, streamVars>>

\* read_all(): until nothing is taken.
read_all ==
  /\ call = "none" /\ fed < MaxFed
  /\ call' = "all" /\ \E k \in 1..(MaxFed - fed) : todo' = k
  /\ UNCHANGED <<io, buf, streamVars, fed, got, reads, answered>>

ReadAllRound ==
  /\ call = "all"
  /\ IF ~io.reading \/ todo = 0
     THEN call' = "none" /\ todo' = 0 /\ UNCHANGED <<io, buf, fed, got, reads, answered>>
     ELSE LET k == Min({todo, io.len - io.cursor})
          IN Take(k) /\ todo' = todo - k /\ call' = call
  /\ UNCHANGED streamVars

\* read(), operator>>: todo octets are in the stream, which may go bad.
read_stream ==
  /\ call = "none" /\ ~streamBad /\ fed < MaxFed
  /\ call' = "stream" /\ \E k \in 1..(MaxFed - fed) : todo' = k
  /\ UNCHANGED <<io, buf, streamVars, fed, got, reads, answered>>

\* A round: the stream is good only while it has all that was asked of it.
ReadStreamRound ==
  /\ call = "stream"
  /\ IF ~io.reading \/ todo = 0
     THEN call' = "none" /\ todo' = 0 /\ UNCHANGED <<io, buf, fed, got, reads, answered>>
     ELSE LET room == io.len - io.cursor
              k == Min({todo, room})
          IN Take(k) /\ todo' = todo - k /\ call' = IF todo < room THEN "none" ELSE call
  /\ UNCHANGED streamVars

\* Mutant of ReadStreamFails: the read that failed is not completed.
ReadStreamFails_Silent ==
  /\ call = "stream" /\ io.reading /\ todo > 0
  /\ \E k \in 1..Min({todo, io.len - io.cursor}) :
       /\ fed' = fed + k /\ buf' = Copied(k)
       /\ failedAt' = [io EXCEPT !.cursor = @ + k]
       /\ io' = [failedAt' EXCEPT !.reading = FALSE]
       /\ unasked' = (failedAt'.cursor >= failedAt'.needed)
  /\ streamBad' = TRUE /\ call' = "none" /\ todo' = 0
  /\ UNCHANGED <<got, reads, answered>>

\* A round in which the stream goes bad behind k octets.  The read is completed
\* with bad_stream.  If the octets were enough it is completed a second time:
\* by then its handler is gone, and the call of an empty one throws.
ReadStreamFails ==
  /\ call = "stream" /\ io.reading /\ todo > 0
  /\ \E k \in 1..Min({todo, io.len - io.cursor}) :
       /\ fed' = fed + k /\ buf' = Copied(k)
       /\ failedAt' = [io EXCEPT !.cursor = @ + k]
       /\ complete_read(failedAt', buf', FALSE)
       /\ unasked' = (failedAt'.cursor >= failedAt'.needed)
  /\ streamBad' = TRUE /\ call' = "none" /\ todo' = 0

\* eof() and fatal_error()
eof ==
  /\ call = "none" /\ io.reading
  /\ complete_read(io, buf, FALSE)
  /\ UNCHANGED <<buf, call, todo, streamVars, fed>>

IoNext ==
  \/ async_read_at_least \/ read_some \/ read_all \/ ReadAllRound
  \/ read_stream \/ ReadStreamRound \/ ReadStreamFails \/ eof

IoSpec == IoInit /\ [][IoNext]_ioVars

-----------------------------------------------------------------------------

(* The handlers are given the octets the application handed in, each once   *)
(* and in the order they came; the ones that were taken and not given yet   *)
(* are in the buffer of the read that waits, in order, behind those; and    *)
(* that buffer is never overrun.                                            *)
OctetsKept ==
  /\ Len(got) + (IF io.reading THEN io.cursor ELSE 0) = fed
  /\ \A i \in 1..Len(got) : got[i] = i
  /\ io.reading => /\ \A i \in 1..io.cursor : buf[i] = Len(got) + i
                   /\ io.cursor < io.needed /\ io.cursor <= io.len

(* Every read that was started is answered once, unless it still waits.     *)
ReadsAnsweredOnce == reads = answered + (IF io.reading THEN 1 ELSE 0)

(* complete_read() "MUST NOT be called when m_reading is false": it is in   *)
(* exactly one case, that of a stream that goes bad behind octets which     *)
(* were enough for the read; read() then completes it as failed and as      *)
(* done.                                                                    *)
CompletedUnasked ==
  unasked <=> streamBad /\ failedAt.cursor >= failedAt.needed

(* The octets of the stream reach the reads in order, each read is answered *)
(* once, and is completed again in the one case read() lets through.        *)
ReadsKept == OctetsKept /\ ReadsAnsweredOnce /\ CompletedUnasked
=============================================================================
