---------------------------- MODULE WebsocketProofs ----------------------------
(***************************************************************************)
(* A websocketpp connection between two ends, for any number of messages,  *)
(* pings, reads and faults: which handlers are called and in which order,  *)
(* what is on the wire behind a close frame, in which order messages       *)
(* arrive and that both ends know the same close code.                     *)
(***************************************************************************)
EXTENDS WsConnection, SequenceTheorems, TLAPS

-----------------------------------------------------------------------------
(* The inductive invariant.                                                 *)

CloseCode == Code \cup {"bad"}

\* The values of the other members.
Reason == {"none", "init", "write", "refused", "http_connection_ended", "extension_neg_failed",
           "invalid_http_status", "invalid_state", "eof", "read", "timeout"}
Timer == {"none", "open", "close"}
Reply == {"none", "request", "response"}
Status == {"none", "switching_protocols", "bad_request", "ok"}
Ending == {"failed", "closed"}
Call == {"open", "close", "fail", "terminated"}
App == {"idle", "send", "ping", "close", "done"}
Acking == {"no", "open", "closing", "ignored", "bad"}

\* Frames, whose code is a number in a message and a close code in a close
\* frame.
OtherKind == {"request", "response", "ping", "pong", "garbage"}
OtherCode == Status \cup {"ws", "plain"}
WsFrame ==
  [kind : {"data"}, code : Nat, terminal : BOOLEAN]
  \cup [kind : {"close"}, code : CloseCode, terminal : BOOLEAN]
  \cup [kind : OtherKind, code : OtherCode, terminal : BOOLEAN]

Connection ==
  [state : State, istate : InternalState, ec : Reason,
   timer : Timer, late : SUBSET Timer, reads : Int, readFlag : BOOLEAN, reply : Reply,
   queue : Seq(WsFrame), flag : BOOLEAN, writing : Seq(WsFrame), posted : BOOLEAN,
   clean : BOOLEAN, local : CloseCode, remote : CloseCode,
   http : HttpState, isHttp : BOOLEAN, status : Status,
   ending : Seq(Ending), called : Seq(Call), got : Seq(Nat), app : App, acking : Acking,
   pings : Int, doubled : BOOLEAN]

WsTypes ==
  /\ conn \in [End -> Connection] /\ up \in [End -> BOOLEAN]
  /\ to \in [End -> Seq(WsFrame)] /\ stale \in [End -> BOOLEAN]
  /\ sent \in [End -> Seq(WsFrame)] /\ accepted \in [End -> Seq(Nat)] /\ faults \in Nat

Began(c) == c.istate = "PROCESS_CONNECTION"

\* Who writes has the write flag; before the handshake is done there is
\* nothing to write, to acknowledge or to give to the application.
Shape(c) ==
  /\ c.writing # << >> => c.flag
  /\ ~Began(c) => /\ c.state \in {"connecting", "closed"}
                  /\ c.queue = << >> /\ c.writing = << >> /\ ~c.flag
                  /\ c.got = << >> /\ c.app = "idle" /\ c.acking = "no" /\ ~c.clean
  /\ Began(c) => c.state # "connecting"

\* What was called and what is still to be called, by m_state.
Story(c) ==
  \/ c.state = "connecting" /\ c.called = << >> /\ c.ending = << >>
  \/ c.state \in {"open", "closing"} /\ c.called = <<"open">> /\ c.ending = << >>
  \/ c.state = "closed" /\ c.called = << >> /\ c.ending = <<"failed">>
  \/ c.state = "closed" /\ c.called = <<"open">> /\ c.ending = <<"closed">>
  \/ /\ c.state = "closed" /\ c.ending = << >>
     /\ c.called \in {<< >>, <<"open", "close", "terminated">>,
                      <<"fail", "terminated">>, <<"terminated">>}

\* A connection whose write flag is set and that writes nothing never writes
\* again: handle_write_frame() ended with a terminal frame or an error.
Mute(c) == c.flag /\ c.writing = << >>

\* What the connection will still write.
Out(c) == IF Mute(c) THEN << >> ELSE c.writing \o c.queue

NoClose(s) == \A i \in 1..Len(s) : s[i].kind # "close"
CloseLast(s) == \A i \in 1..Len(s) : s[i].kind = "close" => i = Len(s)

\* What an end has written and will write: nothing behind a close frame, and
\* no close frame as long as it is open.
LineOK(c, line) ==
  /\ CloseLast(line)
  /\ c.state \in {"connecting", "open"} => NoClose(line)

Upto(n) == [i \in 1..n |-> i]
IsData(f) == f.kind = "data"

\* The messages in s follow number a without a gap and go no further than n.
Follows(s, a, n) ==
  /\ \A i \in 1..Len(s) : IsData(s[i]) => a < s[i].code /\ s[i].code <= n
  /\ \A i, j \in 1..Len(s) : i < j /\ IsData(s[i]) /\ IsData(s[j]) => s[i].code < s[j].code
  /\ \A i \in 1..Len(s) : IsData(s[i]) /\ s[i].code > a + 1 =>
       \E j \in 1..Len(s) : j < i /\ IsData(s[j]) /\ s[j].code = s[i].code - 1

Reaches(s, a, n) == a = n \/ \E i \in 1..Len(s) : IsData(s[i]) /\ s[i].code = n

\* The receiver r of p, what is on its way to it from a sender that is mute
\* or not and whose application had n messages taken, as long as the reads
\* of the receiver do not share its buffer.
InStep(r, p, mute, n) ==
  /\ r.got = Upto(Len(r.got)) /\ Len(r.got) <= n
  /\ r.state \in {"connecting", "open"} =>
       Follows(p, Len(r.got), n) /\ (~mute => Reaches(p, Len(r.got), n))

Carried(r, p, mute, n) == ~r.doubled => InStep(r, p, mute, n)

Told(c) == c.acking # "no" \/ c.clean

Parted(c) == c.state \in {"closing", "closed"}

\* The close frame in p, or the one the receiver r has seen, carries the code
\* the sender s keeps.
Codes(r, p, s) ==
  /\ CloseLast(p)
  /\ \A i \in 1..Len(p) : p[i].kind = "close" => p[i].code = s.local /\ Parted(s)
  /\ Told(r) => NoClose(p) /\ r.remote = s.local /\ Parted(s)

\* No fault, no error, no stale test and no shared buffer so far.
Undisturbed ==
  faults = 0 /\ \A e \in End : ~stale[e] /\ conn[e].ec = "none" /\ ~conn[e].doubled

\* What is on its way to e.
Pipe(e) == to[e] \o Out(conn[Other(e)])

\* One end by itself.
EndOK(c, written, taken, isStale) ==
  /\ Shape(c)
  /\ ~isStale => Story(c) /\ LineOK(c, written \o Out(c))
  /\ taken = Upto(Len(taken)) /\ (~Began(c) => taken = << >>)

WsInv ==
  /\ WsTypes
  /\ \A e \in End :
       /\ EndOK(conn[e], sent[e], accepted[e], stale[e])
       /\ Carried(conn[e], Pipe(e), Mute(conn[Other(e)]), Len(accepted[Other(e)]))
       /\ Undisturbed => Codes(conn[e], Pipe(e), conn[Other(e)])

-----------------------------------------------------------------------------
(* Lines of frames: what the parts of the invariant keep when a line loses  *)
(* its head or its end, or gets one more frame.                             *)

LEMMA FrameKinds ==
  ASSUME NEW f \in WsFrame
  PROVE  /\ f.kind = "data" => f.code \in Nat
         /\ f.kind = "close" => f.code \in CloseCode
BY DEF WsFrame, OtherKind

LEMMA TailFacts ==
  ASSUME NEW p \in Seq(WsFrame), p # << >>
  PROVE  /\ Tail(p) \in Seq(WsFrame) /\ Len(Tail(p)) = Len(p) - 1 /\ Len(p) \in Nat /\ Len(p) >= 1
         /\ \A i \in 1..(Len(p) - 1) : Tail(p)[i] = p[i + 1]
         /\ Head(p) = p[1] /\ Head(p) \in WsFrame
OBVIOUS

LEMMA AppendFacts ==
  ASSUME NEW p \in Seq(WsFrame), NEW f \in WsFrame
  PROVE  /\ Append(p, f) \in Seq(WsFrame) /\ Len(Append(p, f)) = Len(p) + 1 /\ Len(p) \in Nat
         /\ \A i \in 1..Len(p) : Append(p, f)[i] = p[i]
         /\ Append(p, f)[Len(p) + 1] = f
OBVIOUS

LEMMA ConcatFacts ==
  ASSUME NEW p \in Seq(WsFrame), NEW q \in Seq(WsFrame)
  PROVE  /\ p \o q \in Seq(WsFrame) /\ Len(p \o q) = Len(p) + Len(q)
         /\ Len(p) \in Nat /\ Len(q) \in Nat
         /\ \A i \in 1..Len(p) : (p \o q)[i] = p[i]
         /\ \A i \in 1..Len(q) : (p \o q)[Len(p) + i] = q[i]
BY ConcatProperties

\* r is how p begins.
Begins(r, p) == Len(r) <= Len(p) /\ \A i \in 1..Len(r) : r[i] = p[i]

LEMMA CloseTail ==
  ASSUME NEW p \in Seq(WsFrame), p # << >>
  PROVE  /\ CloseLast(p) => CloseLast(Tail(p))
         /\ NoClose(p) => NoClose(Tail(p))
         /\ CloseLast(p) /\ Head(p).kind = "close" => NoClose(Tail(p))
<1> DEFINE t == Tail(p)
<1>1. /\ Len(t) = Len(p) - 1 /\ Len(p) \in Nat /\ Len(p) >= 1
      /\ \A i \in 1..(Len(p) - 1) : t[i] = p[i + 1]
      /\ Head(p) = p[1]
  BY TailFacts
<1> HIDE DEF t
<1>2. \A i \in 1..Len(t) : i + 1 \in 2..Len(p) /\ t[i] = p[i + 1]
  BY <1>1
<1>3. CloseLast(p) => CloseLast(t)
  BY SMTT(30), <1>1, <1>2 DEF CloseLast
<1>4. NoClose(p) => NoClose(t)
  BY <1>1, <1>2 DEF NoClose
<1>5. ASSUME CloseLast(p), p[1].kind = "close" PROVE NoClose(t)
  <2>1. Len(p) = 1
    BY <1>1, <1>5 DEF CloseLast
  <2> QED
    BY <1>1, <2>1 DEF NoClose
<1> QED
  BY <1>1, <1>3, <1>4, <1>5 DEF t

LEMMA CloseAppend ==
  ASSUME NEW p \in Seq(WsFrame), NEW f \in WsFrame, NoClose(p)
  PROVE  /\ CloseLast(Append(p, f))
         /\ f.kind # "close" => NoClose(Append(p, f))
<1> DEFINE t == Append(p, f)
<1>1. /\ Len(t) = Len(p) + 1 /\ Len(p) \in Nat
      /\ \A i \in 1..Len(p) : t[i] = p[i]
      /\ t[Len(p) + 1] = f
  BY AppendFacts
<1> HIDE DEF t
<1>2. CloseLast(t) /\ (f.kind # "close" => NoClose(t))
  BY <1>1 DEF CloseLast, NoClose
<1> QED
  BY <1>2 DEF t

LEMMA CloseBegins ==
  ASSUME NEW p \in Seq(WsFrame), NEW r \in Seq(WsFrame), Begins(r, p)
  PROVE  /\ CloseLast(p) => CloseLast(r)
         /\ NoClose(p) => NoClose(r)
<1>1. Len(p) \in Nat /\ Len(r) \in Nat
  OBVIOUS
<1> QED
  BY <1>1 DEF CloseLast, NoClose, Begins

LEMMA FollowsAppend ==
  ASSUME NEW p \in Seq(WsFrame), NEW f \in WsFrame, NEW a \in Nat, NEW n \in Nat,
         Follows(p, a, n), a <= n
  PROVE  /\ f.kind # "data" => Follows(Append(p, f), a, n)
         /\ f.kind # "data" /\ Reaches(p, a, n) => Reaches(Append(p, f), a, n)
         /\ f.kind = "data" /\ f.code = n + 1 /\ Reaches(p, a, n) =>
              Follows(Append(p, f), a, n + 1) /\ Reaches(Append(p, f), a, n + 1)
<1> DEFINE t == Append(p, f)
<1>1. /\ Len(t) = Len(p) + 1 /\ Len(p) \in Nat
      /\ \A i \in 1..Len(p) : t[i] = p[i]
      /\ t[Len(p) + 1] = f
  BY AppendFacts
<1> HIDE DEF t
<1>2. \A i \in 1..Len(p) : IsData(p[i]) => p[i].code \in Nat
  BY FrameKinds, ElementOfSeq DEF IsData
<1>3. f.kind # "data" => Follows(t, a, n) /\ (Reaches(p, a, n) => Reaches(t, a, n))
  BY SMTT(30), <1>1 DEF Follows, Reaches, IsData
<1>4. ASSUME f.kind = "data", f.code = n + 1, Reaches(p, a, n)
      PROVE  Follows(t, a, n + 1) /\ Reaches(t, a, n + 1)
  <2>1. \A i \in 1..Len(t) : IsData(t[i]) => a < t[i].code /\ t[i].code <= n + 1
    BY <1>1, <1>2, <1>4 DEF Follows
  <2>2. \A i, j \in 1..Len(t) : i < j /\ IsData(t[i]) /\ IsData(t[j]) => t[i].code < t[j].code
    BY SMTT(30), <1>1, <1>2, <1>4 DEF Follows
  <2>3. ASSUME NEW i \in 1..Len(t), IsData(t[i]), t[i].code > a + 1
        PROVE  \E j \in 1..Len(t) : j < i /\ IsData(t[j]) /\ t[j].code = t[i].code - 1
    <3>1. CASE i \in 1..Len(p)
      <4>1. PICK j \in 1..Len(p) : j < i /\ IsData(p[j]) /\ p[j].code = p[i].code - 1
        BY <1>1, <2>3, <3>1 DEF Follows
      <4> QED
        BY <1>1, <3>1, <4>1
    <3>2. CASE i = Len(p) + 1
      <4>1. PICK j \in 1..Len(p) : IsData(p[j]) /\ p[j].code = n
        BY <1>1, <1>4, <2>3, <3>2 DEF Reaches
      <4> QED
        BY <1>1, <1>4, <3>2, <4>1
    <3> QED
      BY <1>1, <3>1, <3>2
  <2>4. Reaches(t, a, n + 1)
    BY <1>1, <1>4 DEF Reaches, IsData
  <2> QED
    BY <2>1, <2>2, <2>3, <2>4 DEF Follows
<1> QED
  BY <1>3, <1>4 DEF t

LEMMA FollowsTail ==
  ASSUME NEW p \in Seq(WsFrame), p # << >>, NEW a \in Nat, NEW n \in Nat, Follows(p, a, n)
  PROVE  /\ Head(p).kind # "data" => Follows(Tail(p), a, n)
         /\ Head(p).kind # "data" /\ Reaches(p, a, n) => Reaches(Tail(p), a, n)
         /\ Head(p).kind = "data" =>
              /\ Head(p).code = a + 1 /\ a + 1 <= n /\ Follows(Tail(p), a + 1, n)
              /\ Reaches(p, a, n) => Reaches(Tail(p), a + 1, n)
<1> DEFINE t == Tail(p)
<1>1. /\ Len(t) = Len(p) - 1 /\ Len(p) \in Nat /\ Len(p) >= 1
      /\ \A i \in 1..(Len(p) - 1) : t[i] = p[i + 1]
      /\ Head(p) = p[1]
  BY TailFacts
<1> HIDE DEF t
<1>2. \A i \in 1..Len(p) : IsData(p[i]) => p[i].code \in Nat
  BY FrameKinds, ElementOfSeq DEF IsData
<1>3. \A i \in 2..Len(p) : i - 1 \in 1..Len(t) /\ t[i - 1] = p[i]
  BY <1>1
<1>4. \A i \in 1..Len(t) : i + 1 \in 2..Len(p) /\ t[i] = p[i + 1]
  BY <1>1
<1>5. ASSUME p[1].kind # "data"
      PROVE  Follows(t, a, n) /\ (Reaches(p, a, n) => Reaches(t, a, n))
  <2>1. \A i \in 1..Len(t) : IsData(t[i]) => a < t[i].code /\ t[i].code <= n
    BY <1>1, <1>4 DEF Follows
  <2>2. \A i, j \in 1..Len(t) : i < j /\ IsData(t[i]) /\ IsData(t[j]) => t[i].code < t[j].code
    BY SMTT(30), <1>1, <1>4 DEF Follows
  <2>3. ASSUME NEW i \in 1..Len(t), IsData(t[i]), t[i].code > a + 1
        PROVE  \E j \in 1..Len(t) : j < i /\ IsData(t[j]) /\ t[j].code = t[i].code - 1
    <3>1. PICK j \in 1..Len(p) : j < i + 1 /\ IsData(p[j]) /\ p[j].code = p[i + 1].code - 1
      BY SMTT(30), <1>1, <1>4, <2>3 DEF Follows
    <3>2. j \in 2..Len(p)
      BY <1>1, <1>5, <3>1 DEF IsData
    <3>3. j - 1 \in 1..Len(t) /\ t[j - 1] = p[j] /\ t[i] = p[i + 1]
      BY <1>3, <1>4, <3>2
    <3>4. j - 1 < i /\ IsData(t[j - 1]) /\ t[j - 1].code = t[i].code - 1
      BY <3>1, <3>3
    <3> QED
      BY <3>3, <3>4
  <2>4. Reaches(p, a, n) => Reaches(t, a, n)
    <3>1. ASSUME NEW i \in 1..Len(p), IsData(p[i]), p[i].code = n PROVE Reaches(t, a, n)
      <4>1. i \in 2..Len(p)
        BY <1>1, <1>5, <3>1 DEF IsData
      <4> QED
        BY <1>3, <3>1, <4>1 DEF Reaches
    <3> QED
      BY <3>1 DEF Reaches
  <2> QED
    BY <2>1, <2>2, <2>3, <2>4 DEF Follows
<1>6. ASSUME p[1].kind = "data"
      PROVE  /\ p[1].code = a + 1 /\ a + 1 <= n /\ Follows(t, a + 1, n)
             /\ Reaches(p, a, n) => Reaches(t, a + 1, n)
  <2>0. 1 \in 1..Len(p) /\ IsData(p[1]) /\ p[1].code \in Nat
    BY <1>1, <1>2, <1>6 DEF IsData
  <2>1. p[1].code = a + 1 /\ a + 1 <= n
    <3>1. ~(p[1].code > a + 1)
      BY <2>0 DEF Follows
    <3>2. a < p[1].code /\ p[1].code <= n
      BY <2>0 DEF Follows
    <3> QED
      BY <2>0, <3>1, <3>2
  <2>2. \A i \in 1..Len(t) : IsData(t[i]) => a + 1 < t[i].code /\ t[i].code <= n
    <3>1. ASSUME NEW i \in 1..Len(t), IsData(t[i]) PROVE a + 1 < t[i].code /\ t[i].code <= n
      <4>1. t[i] = p[i + 1] /\ i + 1 \in 1..Len(p) /\ 1 < i + 1
        BY <1>1, <1>4
      <4>2. p[1].code < p[i + 1].code /\ p[i + 1].code <= n
        BY <2>0, <3>1, <4>1 DEF Follows
      <4> QED
        BY <2>1, <4>1, <4>2
    <3> QED
      BY <3>1
  <2>3. \A i, j \in 1..Len(t) : i < j /\ IsData(t[i]) /\ IsData(t[j]) => t[i].code < t[j].code
    BY SMTT(30), <1>1, <1>4 DEF Follows
  <2>4. ASSUME NEW i \in 1..Len(t), IsData(t[i]), t[i].code > a + 1 + 1
        PROVE  \E j \in 1..Len(t) : j < i /\ IsData(t[j]) /\ t[j].code = t[i].code - 1
    <3>0. t[i] = p[i + 1] /\ i + 1 \in 1..Len(p) /\ p[i + 1].code \in Nat
      BY <1>1, <1>2, <1>4, <2>4
    <3>1. PICK j \in 1..Len(p) : j < i + 1 /\ IsData(p[j]) /\ p[j].code = p[i + 1].code - 1
      BY <2>4, <3>0 DEF Follows
    <3>2. j \in 2..Len(p)
      BY <1>1, <2>1, <2>4, <3>0, <3>1
    <3>3. j - 1 \in 1..Len(t) /\ t[j - 1] = p[j] /\ t[i] = p[i + 1]
      BY <1>3, <1>4, <3>2
    <3>4. j - 1 < i /\ IsData(t[j - 1]) /\ t[j - 1].code = t[i].code - 1
      BY <3>1, <3>3
    <3> QED
      BY <3>3, <3>4
  <2>5. Reaches(p, a, n) => Reaches(t, a + 1, n)
    <3>1. ASSUME NEW i \in 1..Len(p), IsData(p[i]), p[i].code = n PROVE Reaches(t, a + 1, n)
      <4>1. CASE i = 1
        BY <2>1, <3>1, <4>1 DEF Reaches
      <4>2. CASE i \in 2..Len(p)
        BY <1>3, <3>1, <4>2 DEF Reaches
      <4> QED
        BY <1>1, <4>1, <4>2
    <3>2. a # n
      BY <2>1
    <3> QED
      BY <3>1, <3>2 DEF Reaches
  <2> QED
    BY <2>1, <2>2, <2>3, <2>4, <2>5 DEF Follows
<1> QED
  BY <1>1, <1>5, <1>6 DEF t

LEMMA FollowsBegins ==
  ASSUME NEW p \in Seq(WsFrame), NEW r \in Seq(WsFrame), Begins(r, p), NEW a, NEW n, Follows(p, a, n)
  PROVE  Follows(r, a, n)
<1>1. Len(p) \in Nat /\ Len(r) \in Nat
  OBVIOUS
<1>2. \A i \in 1..Len(r) : i \in 1..Len(p) /\ r[i] = p[i]
  BY <1>1 DEF Begins
<1>3. ASSUME NEW i \in 1..Len(r), IsData(r[i]), r[i].code > a + 1
      PROVE  \E j \in 1..Len(r) : j < i /\ IsData(r[j]) /\ r[j].code = r[i].code - 1
  <2>1. PICK j \in 1..Len(p) : j < i /\ IsData(p[j]) /\ p[j].code = p[i].code - 1
    BY <1>2, <1>3 DEF Follows
  <2>2. j \in 1..Len(r)
    BY <1>1, <2>1
  <2> QED
    BY <1>2, <2>1, <2>2
<1> QED
  BY <1>2, <1>3 DEF Follows

(* A frame that is not a message, put in the middle of a line: what BadPeer *)
(* does.                                                                    *)
LEMMA FollowsInsert ==
  ASSUME NEW p \in Seq(WsFrame), NEW q \in Seq(WsFrame), NEW f \in WsFrame, f.kind # "data",
         NEW a \in Nat, NEW n \in Nat, Follows(p \o q, a, n)
  PROVE  /\ Follows(Append(p, f) \o q, a, n)
         /\ Reaches(p \o q, a, n) => Reaches(Append(p, f) \o q, a, n)
<1> DEFINE s == p \o q
           t == Append(p, f) \o q
           m == Len(p)
           at(i) == IF i <= m THEN i ELSE i + 1
           from(i) == IF i <= m THEN i ELSE i - 1
<1>1. /\ m \in Nat /\ Len(s) = m + Len(q) /\ Len(q) \in Nat /\ Len(t) = m + 1 + Len(q)
      /\ \A i \in 1..m : s[i] = p[i]
      /\ \A i \in 1..Len(q) : s[m + i] = q[i]
  BY ConcatFacts, AppendFacts
<1>2. /\ \A i \in 1..m : t[i] = p[i]
      /\ t[m + 1] = f
      /\ \A i \in 1..Len(q) : t[m + 1 + i] = q[i]
  <2>1. Append(p, f) \in Seq(WsFrame) /\ Len(Append(p, f)) = m + 1
    BY AppendFacts
  <2>2. \A i \in 1..(m + 1) : t[i] = Append(p, f)[i]
    BY <2>1, ConcatFacts
  <2>3. \A i \in 1..Len(q) : t[m + 1 + i] = q[i]
    BY <2>1, ConcatFacts
  <2> QED
    BY <1>1, <2>2, <2>3, AppendFacts
<1> HIDE DEF s, t, m
<1>3. \A i \in 1..Len(s) : at(i) \in 1..Len(t) /\ t[at(i)] = s[i]
  <2> TAKE i \in 1..Len(s)
  <2>1. CASE i <= m
    BY <1>1, <1>2, <2>1
  <2>2. CASE i > m
    <3>1. i - m \in 1..Len(q) /\ m + (i - m) = i /\ m + 1 + (i - m) = i + 1
      BY <1>1, <2>2
    <3>2. s[m + (i - m)] = q[i - m] /\ t[m + 1 + (i - m)] = q[i - m]
      BY <1>1, <1>2, <3>1
    <3>3. s[i] = q[i - m] /\ t[i + 1] = q[i - m] /\ at(i) = i + 1 /\ i + 1 \in 1..Len(t)
      BY <1>1, <2>2, <3>1, <3>2
    <3> QED
      BY <3>3
  <2> QED
    BY <1>1, <2>1, <2>2
<1>4. \A i \in 1..Len(t) : IsData(t[i]) =>
        from(i) \in 1..Len(s) /\ at(from(i)) = i /\ t[i] = s[from(i)]
  <2> SUFFICES ASSUME NEW i \in 1..Len(t), IsData(t[i])
               PROVE  from(i) \in 1..Len(s) /\ at(from(i)) = i
    BY <1>3
  <2>1. i # m + 1
    BY <1>2 DEF IsData
  <2> QED
    BY <1>1, <2>1
<1>5. \A i, j \in 1..Len(s) : i < j <=> at(i) < at(j)
  BY <1>1
<1> HIDE DEF at, from
<1>6. \A i \in 1..Len(t) : IsData(t[i]) => a < t[i].code /\ t[i].code <= n
  BY <1>4 DEF Follows, s
<1>7. \A i, j \in 1..Len(t) : i < j /\ IsData(t[i]) /\ IsData(t[j]) => t[i].code < t[j].code
  <2> SUFFICES ASSUME NEW i \in 1..Len(t), NEW j \in 1..Len(t), i < j, IsData(t[i]), IsData(t[j])
               PROVE  t[i].code < t[j].code
    OBVIOUS
  <2>1. from(i) < from(j)
    BY <1>4, <1>5
  <2> QED
    BY <1>4, <2>1 DEF Follows, s
<1>8. ASSUME NEW i \in 1..Len(t), IsData(t[i]), t[i].code > a + 1
      PROVE  \E j \in 1..Len(t) : j < i /\ IsData(t[j]) /\ t[j].code = t[i].code - 1
  <2>1. PICK k \in 1..Len(s) : k < from(i) /\ IsData(s[k]) /\ s[k].code = s[from(i)].code - 1
    BY <1>4, <1>8 DEF Follows, s
  <2>2. at(k) < i /\ at(k) \in 1..Len(t) /\ t[at(k)] = s[k]
    BY <1>3, <1>4, <1>5, <1>8, <2>1
  <2> QED
    BY <1>4, <1>8, <2>1, <2>2
<1>9. Reaches(s, a, n) => Reaches(t, a, n)
  BY <1>3 DEF Reaches
<1> QED
  BY <1>6, <1>7, <1>8, <1>9 DEF Follows, s, t

(* How the line to an end is put together again when a frame goes in at its *)
(* end, leaves it at its head or moves from the sender to the transport.    *)
LEMMA LineGrows ==
  ASSUME NEW p \in Seq(WsFrame), NEW q \in Seq(WsFrame), NEW f \in WsFrame
  PROVE  p \o Append(q, f) = Append(p \o q, f)
OBVIOUS

LEMMA LineEnds ==
  ASSUME NEW p \in Seq(WsFrame), NEW f \in WsFrame
  PROVE  p \o <<f>> = Append(p, f) /\ <<f>> \in Seq(WsFrame)
OBVIOUS

LEMMA LineJoins ==
  ASSUME NEW p \in Seq(WsFrame), NEW q \in Seq(WsFrame), NEW r \in Seq(WsFrame)
  PROVE  (p \o q) \o r = p \o (q \o r)
OBVIOUS

LEMMA Lines ==
  ASSUME NEW p \in Seq(WsFrame), NEW q \in Seq(WsFrame), NEW r \in Seq(WsFrame)
  PROVE  /\ (p \o q) \o r = p \o (q \o r)
         /\ p \o << >> = p /\ << >> \o p = p /\ << >> \in Seq(WsFrame)
         /\ Begins(p, p \o q)
         /\ p # << >> => Tail(p) \o q = Tail(p \o q) /\ Head(p \o q) = Head(p) /\ p \o q # << >>
<1>2. (p \o q) \o r = p \o (q \o r)
  OBVIOUS
<1>3. p \o << >> = p /\ << >> \o p = p /\ << >> \in Seq(WsFrame)
  OBVIOUS
<1>4. Begins(p, p \o q)
  BY ConcatFacts DEF Begins
<1>5. p # << >> => Tail(p) \o q = Tail(p \o q) /\ Head(p \o q) = Head(p) /\ p \o q # << >>
  OBVIOUS
<1> QED
  BY <1>2, <1>3, <1>4, <1>5

-----------------------------------------------------------------------------
(* What the handlers' helpers return.                                       *)

\* The receiver's part of a connection is as it was, or it hears no more.
Hears(c, d) ==
  /\ d.got = c.got /\ (c.doubled => d.doubled) /\ d.remote = c.remote
  /\ d.state \in {"connecting", "open"} => c.state \in {"connecting", "open"}
  /\ Told(d) => Told(c)

\* The sender's part is as it was, up to an error it knows of.
Speaks(c, d) ==
  /\ d.queue = c.queue /\ d.writing = c.writing /\ d.flag = c.flag
  /\ Parted(c) => Parted(d)
  /\ d.ec = "none" => d.local = c.local

LEMMA Terminated ==
  ASSUME NEW c \in Connection, NEW ec \in Reason
  PROVE  LET d == terminate(c, ec)
         IN /\ d \in Connection /\ d.state = "closed" /\ d.istate = c.istate
            /\ d.ec = (IF ec = "none" THEN c.ec ELSE ec)
            /\ ec = "none" => d.local = c.local
            /\ d.queue = c.queue /\ d.writing = c.writing /\ d.flag = c.flag
            /\ d.clean = c.clean /\ d.remote = c.remote
            /\ d.called = c.called /\ d.got = c.got /\ (c.doubled => d.doubled) /\ d.app = c.app /\ d.acking = c.acking
            /\ c.state = "closed" => d.ending = c.ending
            /\ c.state = "connecting" => d.ending = Append(c.ending, "failed")
            /\ c.state \in {"open", "closing"} => d.ending = Append(c.ending, "closed")
<1> DEFINE d == terminate(c, ec)
           k == IF ec = "none" THEN c.ec ELSE ec
           l == IF ec = "none" THEN c.local ELSE "abnormal"
           h == IF c.isHttp THEN "closed" ELSE c.http
           m == [c EXCEPT !.timer = "none", !.ec = k, !.local = l, !.http = h]
           how == IF c.state = "connecting" THEN "failed" ELSE "closed"
           x == Append(c.ending, how)
<1>a. k \in Reason /\ l \in CloseCode /\ how \in Ending /\ "none" \in Timer
  BY DEF Connection, CloseCode, Code, Ending, Timer
<1>b. h \in HttpState
  <2>1. c.http \in HttpState /\ "closed" \in HttpState
    BY DEF Connection, HttpState
  <2> QED
    BY <2>1, Zenon
<1>c. c.ending \in Seq(Ending)
  BY DEF Connection
<1>3. x \in Seq(Ending)
  BY <1>a, <1>c, AppendProperties
<1>d. d = IF c.state = "closed" THEN m ELSE [m EXCEPT !.state = "closed", !.ending = Append(@, how)]
  BY DEF terminate
<1> HIDE DEF d, k, l, h, how
<1>1. m \in Connection
  BY <1>a, <1>b DEF Connection
<1>2. /\ m.state = c.state /\ m.istate = c.istate
      /\ m.ec = k /\ m.local = l
      /\ m.queue = c.queue /\ m.writing = c.writing /\ m.flag = c.flag
      /\ m.clean = c.clean /\ m.remote = c.remote /\ m.ending = c.ending
      /\ m.called = c.called /\ m.got = c.got /\ (c.doubled => m.doubled) /\ m.app = c.app /\ m.acking = c.acking
  BY DEF Connection
<1>4. d = IF c.state = "closed" THEN m ELSE [m EXCEPT !.state = "closed", !.ending = x]
  BY <1>2, <1>d
<1> HIDE DEF m, x
<1>5. CASE c.state = "closed"
  BY <1>1, <1>2, <1>4, <1>5 DEF d, k, l
<1>6. CASE c.state # "closed"
  <2>1. d = [m EXCEPT !.state = "closed", !.ending = x]
    BY <1>4, <1>6
  <2>2. d \in Connection
    BY <1>1, <1>3, <2>1 DEF Connection, State
  <2>3. /\ d.state = "closed" /\ d.istate = m.istate /\ d.ec = m.ec /\ d.local = m.local
        /\ d.queue = m.queue /\ d.writing = m.writing /\ d.flag = m.flag
        /\ d.clean = m.clean /\ d.remote = m.remote /\ d.ending = x
        /\ d.called = m.called /\ d.got = m.got /\ (m.doubled => d.doubled) /\ d.app = m.app /\ d.acking = m.acking
    BY <1>1, <2>1 DEF Connection
  <2>4. /\ c.state = "connecting" => x = Append(c.ending, "failed")
        /\ c.state \in {"open", "closing"} => x = Append(c.ending, "closed")
    BY DEF x, how
  <2> QED
    BY <1>2, <1>6, <2>2, <2>3, <2>4 DEF d, k, l
<1> QED
  BY <1>5, <1>6

LEMMA Pushed ==
  ASSUME NEW c \in Connection, NEW f \in WsFrame
  PROVE  LET d == write_push(c, f)
         IN /\ d \in Connection /\ d.state = c.state /\ d.istate = c.istate
            /\ d.ec = c.ec /\ d.local = c.local
            /\ d.queue = Append(c.queue, f) /\ d.writing = c.writing /\ d.flag = c.flag
            /\ d.clean = c.clean /\ d.remote = c.remote /\ d.ending = c.ending
            /\ d.called = c.called /\ d.got = c.got /\ (c.doubled => d.doubled) /\ d.app = c.app /\ d.acking = c.acking
<1> DEFINE d == write_push(c, f)
           q == Append(c.queue, f)
           b == c.posted \/ ~c.flag
<1>1. b \in BOOLEAN
  OBVIOUS
<1>2. q \in Seq(WsFrame)
  <2>1. c.queue \in Seq(WsFrame)
    BY DEF Connection
  <2> QED
    BY <2>1, AppendFacts
<1>3. d = [c EXCEPT !.queue = q, !.posted = b]
  BY DEF write_push
<1> HIDE DEF d, b, q
<1>4. d \in Connection
  BY <1>1, <1>2, <1>3 DEF Connection
<1>5. /\ d.state = c.state /\ d.istate = c.istate
      /\ d.ec = c.ec /\ d.local = c.local
      /\ d.queue = q /\ d.writing = c.writing /\ d.flag = c.flag
      /\ d.clean = c.clean /\ d.remote = c.remote /\ d.ending = c.ending
      /\ d.called = c.called /\ d.got = c.got /\ (c.doubled => d.doubled) /\ d.app = c.app /\ d.acking = c.acking
  BY <1>3 DEF Connection
<1> QED
  BY <1>4, <1>5 DEF d, q

LEMMA CloseSent ==
  ASSUME NEW c \in Connection, NEW code \in CloseCode \cup {"blank"}, NEW ack \in BOOLEAN,
         code = "blank" => ack, NEW terminal \in BOOLEAN
  PROVE  LET d == send_close_frame(c, code, ack, terminal)
         IN /\ d \in Connection /\ d.state = "closing" /\ d.istate = c.istate
            /\ d.ec = c.ec
            /\ \E f \in WsFrame : /\ f.kind = "close" /\ f.code = d.local
                                 /\ d.queue = Append(c.queue, f)
            /\ d.writing = c.writing /\ d.flag = c.flag
            /\ (d.clean <=> (c.clean \/ ack)) /\ d.remote = c.remote /\ d.ending = c.ending
            /\ d.called = c.called /\ d.got = c.got /\ (c.doubled => d.doubled) /\ d.app = c.app /\ d.acking = c.acking
<1> DEFINE d == send_close_frame(c, code, ack, terminal)
           l == IF ack /\ code = "blank"
                THEN IF c.remote = "no_status" THEN "normal" ELSE c.remote
                ELSE code
           k == c.clean \/ ack
           m == [c EXCEPT !.local = l, !.state = "closing", !.clean = k, !.timer = "close"]
           f == Frame("close", l, terminal)
<1>1. l \in CloseCode
  <2>1. c.remote \in CloseCode /\ "normal" \in CloseCode
    BY DEF Connection, CloseCode, Code
  <2> QED
    BY <2>1, Zenon
<1>2. k \in BOOLEAN /\ "closing" \in State /\ "close" \in Timer
  BY DEF State, Timer
<1>3. f \in WsFrame /\ f.kind = "close" /\ f.code = l
  BY <1>1 DEF WsFrame, Frame
<1>4. d = write_push(m, f)
  BY DEF send_close_frame
<1> HIDE DEF d, l, k, f
<1>5. m \in Connection
  BY <1>1, <1>2 DEF Connection
<1>6. /\ m.state = "closing" /\ m.istate = c.istate
      /\ m.ec = c.ec /\ m.local = l
      /\ m.queue = c.queue /\ m.writing = c.writing /\ m.flag = c.flag
      /\ m.clean = k /\ m.remote = c.remote /\ m.ending = c.ending
      /\ m.called = c.called /\ m.got = c.got /\ (c.doubled => m.doubled) /\ m.app = c.app /\ m.acking = c.acking
  BY DEF Connection
<1> HIDE DEF m
<1>7. /\ d \in Connection /\ d.state = m.state /\ d.istate = m.istate
      /\ d.ec = m.ec /\ d.local = m.local
      /\ d.queue = Append(m.queue, f) /\ d.writing = m.writing /\ d.flag = m.flag
      /\ d.clean = m.clean /\ d.remote = m.remote /\ d.ending = m.ending
      /\ d.called = m.called /\ d.got = m.got /\ (m.doubled => d.doubled) /\ d.app = m.app /\ d.acking = m.acking
  BY <1>3, <1>4, <1>5, Pushed
<1>8. \E g \in WsFrame : g.kind = "close" /\ g.code = d.local /\ d.queue = Append(c.queue, g)
  BY <1>3, <1>6, <1>7
<1> QED
  BY <1>6, <1>7, <1>8 DEF d, k

\* Everything the invariant speaks of is as it was.
Still(c, d) ==
  /\ d.state = c.state /\ (Began(d) <=> Began(c)) /\ d.ec = c.ec
  /\ d.queue = c.queue /\ d.flag = c.flag /\ d.writing = c.writing
  /\ d.clean = c.clean /\ d.local = c.local /\ d.remote = c.remote
  /\ d.ending = c.ending /\ d.called = c.called /\ d.got = c.got /\ (c.doubled => d.doubled)
  /\ d.app = c.app /\ d.acking = c.acking

LEMMA Reading ==
  ASSUME NEW c \in Connection
  PROVE  /\ read_frame(c) \in Connection /\ Still(c, read_frame(c))
         /\ read_frame(c).istate = c.istate
<1>1. CASE c.readFlag
  <2>1. read_frame(c) = [c EXCEPT !.reads = c.reads + 1]
    BY <1>1 DEF read_frame
  <2>2. c.reads + 1 \in Int
    BY DEF Connection
  <2> QED
    BY ZenonT(30), <2>1, <2>2 DEF Connection, Still, Began
<1>2. CASE ~c.readFlag
  BY <1>2 DEF read_frame, Still
<1> QED
  BY <1>1, <1>2

-----------------------------------------------------------------------------
(* The messages on their way to a receiver.                                 *)

LEMMA UptoFacts ==
  ASSUME NEW n \in Nat
  PROVE  /\ Upto(n) \in Seq(Nat) /\ Len(Upto(n)) = n
         /\ Append(Upto(n), n + 1) = Upto(n + 1)
<1>1. Upto(n) \in Seq(Nat) /\ Len(Upto(n)) = n
  BY DEF Upto
<1>2. Append(Upto(n), n + 1) = Upto(n + 1)
  BY DEF Upto
<1> QED
  BY <1>1, <1>2

\* The rule for a receiver that hears what it heard before.
LEMMA CarriedHears ==
  ASSUME NEW c, NEW d, NEW p, NEW mute, NEW n, Carried(c, p, mute, n), Hears(c, d)
  PROVE  Carried(d, p, mute, n)
BY DEF Carried, InStep, Hears

\* A receiver takes a frame that carries no message, or takes it too late.
LEMMA InStepTail ==
  ASSUME NEW c \in Connection, NEW p \in Seq(WsFrame), p # << >>, NEW mute \in BOOLEAN,
         NEW n \in Nat, InStep(c, p, mute, n),
         Head(p).kind # "data" \/ c.state \notin {"connecting", "open"}
  PROVE  InStep(c, Tail(p), mute, n)
<1>1. Len(c.got) \in Nat
  BY DEF Connection
<1>2. CASE c.state \notin {"connecting", "open"}
  BY <1>2 DEF InStep
<1>3. CASE c.state \in {"connecting", "open"} /\ Head(p).kind # "data"
  <2>1. Follows(p, Len(c.got), n) /\ (~mute => Reaches(p, Len(c.got), n))
    BY <1>3 DEF InStep
  <2>2. Follows(Tail(p), Len(c.got), n) /\ (~mute => Reaches(Tail(p), Len(c.got), n))
    BY <1>1, <1>3, <2>1, FollowsTail
  <2> QED
    BY <2>2 DEF InStep
<1> QED
  BY <1>2, <1>3

\* A receiver that is open takes a message.
LEMMA InStepData ==
  ASSUME NEW c \in Connection, NEW d, NEW p \in Seq(WsFrame), p # << >>, NEW mute \in BOOLEAN,
         NEW n \in Nat, InStep(c, p, mute, n), Head(p).kind = "data", c.state = "open",
         d.got = Append(c.got, Head(p).code)
  PROVE  InStep(d, Tail(p), mute, n)
<1> DEFINE a == Len(c.got)
<1>1. a \in Nat /\ c.got = Upto(a) /\ Follows(p, a, n) /\ (~mute => Reaches(p, a, n))
  BY DEF Connection, InStep
<1>2. /\ Head(p).code = a + 1 /\ a + 1 <= n /\ Follows(Tail(p), a + 1, n)
      /\ ~mute => Reaches(Tail(p), a + 1, n)
  BY <1>1, FollowsTail
<1>3. d.got = Upto(a + 1) /\ Len(d.got) = a + 1
  <2>1. d.got = Append(Upto(a), a + 1)
    BY <1>1, <1>2
  <2>2. d.got = Upto(a + 1)
    BY <1>1, <2>1, UptoFacts
  <2>3. a + 1 \in Nat
    BY <1>1
  <2>4. Len(Upto(a + 1)) = a + 1
    BY <2>3, UptoFacts
  <2> QED
    BY <2>2, <2>4
<1> HIDE DEF a
<1> QED
  BY <1>2, <1>3 DEF InStep

\* A frame that carries no message goes in at the end.
LEMMA InStepAppend ==
  ASSUME NEW c \in Connection, NEW p \in Seq(WsFrame), NEW f \in WsFrame, NEW mute \in BOOLEAN,
         NEW n \in Nat, InStep(c, p, mute, n), f.kind # "data"
  PROVE  InStep(c, Append(p, f), mute, n)
<1>1. Len(c.got) \in Nat /\ Len(c.got) <= n
  BY DEF Connection, InStep
<1>2. ASSUME c.state \in {"connecting", "open"}
      PROVE  Follows(Append(p, f), Len(c.got), n) /\ (~mute => Reaches(Append(p, f), Len(c.got), n))
  <2>1. Follows(p, Len(c.got), n) /\ (~mute => Reaches(p, Len(c.got), n))
    BY <1>2 DEF InStep
  <2> QED
    BY <1>1, <2>1, FollowsAppend
<1> QED
  BY <1>2 DEF InStep

\* The application's next message goes in at the end.
LEMMA InStepMessage ==
  ASSUME NEW c \in Connection, NEW p \in Seq(WsFrame), NEW f \in WsFrame,
         NEW n \in Nat, InStep(c, p, FALSE, n), f.kind = "data", f.code = n + 1
  PROVE  InStep(c, Append(p, f), FALSE, n + 1)
<1>1. Len(c.got) \in Nat /\ Len(c.got) <= n
  BY DEF Connection, InStep
<1>2. ASSUME c.state \in {"connecting", "open"}
      PROVE  /\ Follows(Append(p, f), Len(c.got), n + 1)
             /\ Reaches(Append(p, f), Len(c.got), n + 1)
  <2>1. Follows(p, Len(c.got), n) /\ Reaches(p, Len(c.got), n)
    BY <1>2 DEF InStep
  <2> QED
    BY <1>1, <2>1, FollowsAppend
<1>3. Len(c.got) <= n + 1
  BY <1>1
<1> QED
  BY <1>2, <1>3 DEF InStep

\* A message that a mute sender took is not on its way.
LEMMA InStepNot ==
  ASSUME NEW c \in Connection, NEW p \in Seq(WsFrame), NEW n \in Nat, InStep(c, p, TRUE, n)
  PROVE  InStep(c, p, TRUE, n + 1)
<1>1. Len(c.got) \in Nat /\ Len(c.got) <= n /\ Len(p) \in Nat
  BY DEF Connection, InStep
<1>2. \A i \in 1..Len(p) : IsData(p[i]) => p[i].code \in Nat
  BY FrameKinds, ElementOfSeq DEF IsData
<1>3. Follows(p, Len(c.got), n) => Follows(p, Len(c.got), n + 1)
  BY SMTT(30), <1>1, <1>2 DEF Follows
<1>4. Len(c.got) <= n + 1
  BY <1>1
<1> QED
  BY <1>3, <1>4 DEF InStep

\* The end of the line is lost, and the sender is mute.
LEMMA InStepCut ==
  ASSUME NEW c, NEW p \in Seq(WsFrame), NEW q \in Seq(WsFrame), Begins(q, p),
         NEW mute, NEW n, InStep(c, p, mute, n)
  PROVE  InStep(c, q, TRUE, n)
<1>1. Follows(p, Len(c.got), n) => Follows(q, Len(c.got), n)
  BY FollowsBegins
<1> QED
  BY <1>1 DEF InStep

LEMMA InStepInsert ==
  ASSUME NEW c \in Connection, NEW p \in Seq(WsFrame), NEW q \in Seq(WsFrame), NEW f \in WsFrame,
         NEW mute \in BOOLEAN, NEW n \in Nat, InStep(c, p \o q, mute, n), f.kind # "data"
  PROVE  InStep(c, Append(p, f) \o q, mute, n)
<1>1. Len(c.got) \in Nat
  BY DEF Connection
<1>2. ASSUME c.state \in {"connecting", "open"}
      PROVE  /\ Follows(Append(p, f) \o q, Len(c.got), n)
             /\ ~mute => Reaches(Append(p, f) \o q, Len(c.got), n)
  <2>1. Follows(p \o q, Len(c.got), n) /\ (~mute => Reaches(p \o q, Len(c.got), n))
    BY <1>2 DEF InStep
  <2> QED
    BY <1>1, <2>1, FollowsInsert
<1> QED
  BY <1>2 DEF InStep

\* The same for Carried, of which nothing is left once the reads shared a buffer.
LEMMA CarriedTail ==
  ASSUME NEW c \in Connection, NEW p \in Seq(WsFrame), p # << >>, NEW mute \in BOOLEAN,
         NEW n \in Nat, Carried(c, p, mute, n),
         Head(p).kind # "data" \/ c.state \notin {"connecting", "open"}
  PROVE  Carried(c, Tail(p), mute, n)
BY InStepTail DEF Carried

LEMMA CarriedData ==
  ASSUME NEW c \in Connection, NEW d, NEW p \in Seq(WsFrame), p # << >>, NEW mute \in BOOLEAN,
         NEW n \in Nat, Carried(c, p, mute, n), Head(p).kind = "data", c.state = "open",
         d.got = Append(c.got, Head(p).code), c.doubled => d.doubled
  PROVE  Carried(d, Tail(p), mute, n)
BY InStepData DEF Carried

LEMMA CarriedAppend ==
  ASSUME NEW c \in Connection, NEW p \in Seq(WsFrame), NEW f \in WsFrame, NEW mute \in BOOLEAN,
         NEW n \in Nat, Carried(c, p, mute, n), f.kind # "data"
  PROVE  Carried(c, Append(p, f), mute, n)
BY InStepAppend DEF Carried

LEMMA CarriedMessage ==
  ASSUME NEW c \in Connection, NEW p \in Seq(WsFrame), NEW f \in WsFrame,
         NEW n \in Nat, Carried(c, p, FALSE, n), f.kind = "data", f.code = n + 1
  PROVE  Carried(c, Append(p, f), FALSE, n + 1)
BY InStepMessage DEF Carried

LEMMA CarriedNot ==
  ASSUME NEW c \in Connection, NEW p \in Seq(WsFrame), NEW n \in Nat, Carried(c, p, TRUE, n)
  PROVE  Carried(c, p, TRUE, n + 1)
BY InStepNot DEF Carried

LEMMA CarriedCut ==
  ASSUME NEW c, NEW p \in Seq(WsFrame), NEW q \in Seq(WsFrame), Begins(q, p),
         NEW mute, NEW n, Carried(c, p, mute, n)
  PROVE  Carried(c, q, TRUE, n)
BY InStepCut DEF Carried

LEMMA CarriedInsert ==
  ASSUME NEW c \in Connection, NEW p \in Seq(WsFrame), NEW q \in Seq(WsFrame), NEW f \in WsFrame,
         NEW mute \in BOOLEAN, NEW n \in Nat, Carried(c, p \o q, mute, n), f.kind # "data"
  PROVE  Carried(c, Append(p, f) \o q, mute, n)
BY InStepInsert DEF Carried

-----------------------------------------------------------------------------
(* The close frame on its way to a receiver.                                *)

LEMMA CodesHears ==
  ASSUME NEW c, NEW d, NEW p, NEW s, Codes(c, p, s), d.remote = c.remote, Told(d) => Told(c)
  PROVE  Codes(d, p, s)
BY DEF Codes

LEMMA CodesTail ==
  ASSUME NEW c, NEW p \in Seq(WsFrame), p # << >>, NEW s, Codes(c, p, s)
  PROVE  Codes(c, Tail(p), s)
<1>1. CloseLast(Tail(p)) /\ (NoClose(p) => NoClose(Tail(p)))
  BY CloseTail DEF Codes
<1>2. \A i \in 1..Len(Tail(p)) : i + 1 \in 1..Len(p) /\ Tail(p)[i] = p[i + 1]
  BY TailFacts
<1>3. \A i \in 1..Len(Tail(p)) : Tail(p)[i].kind = "close" =>
        Tail(p)[i].code = s.local /\ Parted(s)
  <2> TAKE i \in 1..Len(Tail(p))
  <2>1. i + 1 \in 1..Len(p) /\ Tail(p)[i] = p[i + 1]
    BY <1>2
  <2>2. p[i + 1].kind = "close" => p[i + 1].code = s.local /\ Parted(s)
    BY <2>1 DEF Codes
  <2> QED
    BY <2>1, <2>2, Zenon
<1> QED
  BY <1>1, <1>3 DEF Codes

\* The receiver takes the close frame.
LEMMA CodesTold ==
  ASSUME NEW c, NEW d, NEW p \in Seq(WsFrame), p # << >>, NEW s, Codes(c, p, s),
         Head(p).kind = "close", d.remote = Head(p).code
  PROVE  Codes(d, Tail(p), s)
<1>1. NoClose(Tail(p)) /\ CloseLast(Tail(p))
  BY CloseTail DEF Codes
<1>2. Head(p) = p[1] /\ 1 \in 1..Len(p)
  BY TailFacts
<1>3. Head(p).code = s.local /\ Parted(s)
  BY <1>2 DEF Codes
<1> QED
  BY <1>1, <1>3 DEF Codes, NoClose

LEMMA CodesSpeaks ==
  ASSUME NEW r, NEW p, NEW c, NEW d, Codes(r, p, c), d.local = c.local, Parted(c) => Parted(d)
  PROVE  Codes(r, p, d)
BY DEF Codes

\* The sender has sent no close frame yet.
LEMMA CodesOpen ==
  ASSUME NEW r, NEW p \in Seq(WsFrame), NEW c, NEW d, Codes(r, p, c), ~Parted(c), NEW f \in WsFrame
  PROVE  /\ Codes(r, p, d)
         /\ f.kind # "close" => Codes(r, Append(p, f), d)
         /\ f.kind = "close" /\ f.code = d.local /\ Parted(d) => Codes(r, Append(p, f), d)
<1> DEFINE t == Append(p, f)
<1>1. NoClose(p) /\ CloseLast(p) /\ ~Told(r)
  BY DEF Codes, NoClose
<1>2. CloseLast(t) /\ (f.kind # "close" => NoClose(t))
  BY <1>1, CloseAppend
<1>3. Len(t) = Len(p) + 1 /\ Len(p) \in Nat
      /\ (\A i \in 1..Len(p) : t[i] = p[i]) /\ t[Len(p) + 1] = f
  BY AppendFacts
<1> HIDE DEF t
<1>4. Codes(r, p, d)
  BY <1>1 DEF Codes, NoClose
<1>5. f.kind # "close" => Codes(r, t, d)
  BY <1>1, <1>2 DEF Codes, NoClose
<1>6. ASSUME f.kind = "close", f.code = d.local, Parted(d) PROVE Codes(r, t, d)
  <2>1. \A i \in 1..Len(t) : t[i].kind = "close" => t[i].code = d.local
    BY <1>1, <1>3, <1>6 DEF NoClose
  <2> QED
    BY <1>1, <1>2, <1>6, <2>1 DEF Codes
<1> QED
  BY <1>4, <1>5, <1>6 DEF t

LEMMA CodesCut ==
  ASSUME NEW r, NEW p \in Seq(WsFrame), NEW q \in Seq(WsFrame), Begins(q, p), NEW s, Codes(r, p, s)
  PROVE  Codes(r, q, s)
<1>1. CloseLast(q) /\ (NoClose(p) => NoClose(q))
  BY CloseBegins DEF Codes
<1>2. Len(p) \in Nat /\ Len(q) \in Nat
  OBVIOUS
<1>3. \A i \in 1..Len(q) : i \in 1..Len(p) /\ q[i] = p[i]
  BY <1>2 DEF Begins
<1>4. \A i \in 1..Len(q) : q[i].kind = "close" => q[i].code = s.local /\ Parted(s)
  <2> TAKE i \in 1..Len(q)
  <2>1. i \in 1..Len(p) /\ q[i] = p[i]
    BY <1>3
  <2>2. p[i].kind = "close" => p[i].code = s.local /\ Parted(s)
    BY <2>1 DEF Codes
  <2> QED
    BY <2>1, <2>2, Zenon
<1> QED
  BY <1>1, <1>4 DEF Codes

-----------------------------------------------------------------------------
(* A step of one end e, whose connection becomes d.                         *)

LEMMA TwoEnds ==
  ASSUME NEW e \in End
  PROVE  /\ Other(e) \in End /\ Other(e) # e /\ Other(Other(e)) = e
         /\ \A x \in End : x = e \/ x = Other(e)
BY DEF End, Other

StepOf(e, d) ==
  /\ conn' = [conn EXCEPT ![e] = d] /\ d \in Connection /\ up' \in [End -> BOOLEAN]
  /\ to' \in [End -> Seq(WsFrame)] /\ stale' \in [End -> BOOLEAN]
  /\ sent' \in [End -> Seq(WsFrame)] /\ accepted' \in [End -> Seq(Nat)] /\ faults' \in Nat
  /\ d.ec = "none" => conn[e].ec = "none"
  /\ conn[e].doubled => d.doubled
  /\ faults' >= faults /\ (stale[e] => stale'[e]) /\ stale'[Other(e)] = stale[Other(e)]
  /\ sent'[Other(e)] = sent[Other(e)] /\ accepted'[Other(e)] = accepted[Other(e)]

\* What the invariant asks of the line to e, and of the line from e.
Incoming(e, d, line) ==
  LET p == line \o Out(conn[Other(e)])
  IN /\ Carried(d, p, Mute(conn[Other(e)]), Len(accepted[Other(e)]))
     /\ Undisturbed' => Codes(d, p, conn[Other(e)])

Outgoing(e, d, line, n) ==
  LET p == line \o Out(d)
  IN /\ Carried(conn[Other(e)], p, Mute(d), n)
     /\ Undisturbed' => Codes(conn[Other(e)], p, d)

LEMMA StepRule ==
  ASSUME WsInv, NEW e \in End, NEW d, StepOf(e, d),
         EndOK(d, sent'[e], accepted'[e], stale'[e]),
         Incoming(e, d, to'[e]), Outgoing(e, d, to'[Other(e)], Len(accepted'[e]))
  PROVE  WsInv'
<1> DEFINE o == Other(e)
<1>1. o \in End /\ o # e /\ Other(o) = e /\ \A x \in End : x = e \/ x = o
  BY TwoEnds
<1>2. conn'[e] = d /\ conn'[o] = conn[o] /\ conn' \in [End -> Connection]
  BY <1>1 DEF StepOf, WsInv, WsTypes
<1>3. WsTypes'
  BY <1>2 DEF StepOf, WsTypes
<1>4. /\ accepted'[o] = accepted[o] /\ sent'[o] = sent[o] /\ stale'[o] = stale[o]
  BY DEF StepOf
<1>5. EndOK(conn[o], sent[o], accepted[o], stale[o])
  BY <1>1 DEF WsInv
<1>6. Carried(d, to'[e] \o Out(conn[o]), Mute(conn[o]), Len(accepted[o]))
      /\ (Undisturbed' => Codes(d, to'[e] \o Out(conn[o]), conn[o]))
  BY DEF Incoming
<1>7. Carried(conn[o], to'[o] \o Out(d), Mute(d), Len(accepted'[e]))
      /\ (Undisturbed' => Codes(conn[o], to'[o] \o Out(d), d))
  BY DEF Outgoing
<1> HIDE DEF o
<1>8. /\ EndOK(conn'[e], sent'[e], accepted'[e], stale'[e])
      /\ Carried(conn'[e], to'[e] \o Out(conn'[o]), Mute(conn'[o]), Len(accepted'[o]))
      /\ Undisturbed' => Codes(conn'[e], to'[e] \o Out(conn'[o]), conn'[o])
  BY <1>2, <1>4, <1>6
<1>9. /\ EndOK(conn'[o], sent'[o], accepted'[o], stale'[o])
      /\ Carried(conn'[o], to'[o] \o Out(conn'[e]), Mute(conn'[e]), Len(accepted'[e]))
      /\ Undisturbed' => Codes(conn'[o], to'[o] \o Out(conn'[e]), conn'[e])
  BY <1>2, <1>4, <1>5, <1>7
<1>10. \A x \in End :
         /\ EndOK(conn'[x], sent'[x], accepted'[x], stale'[x])
         /\ Carried(conn'[x], to'[x] \o Out(conn'[Other(x)]), Mute(conn'[Other(x)]),
                    Len(accepted'[Other(x)]))
         /\ Undisturbed' => Codes(conn'[x], to'[x] \o Out(conn'[Other(x)]), conn'[Other(x)])
  <2>1. Other(e) = o
    BY DEF o
  <2> TAKE x \in End
  <2>2. CASE x = e
    BY <1>8, <2>1, <2>2
  <2>3. CASE x = o
    BY <1>1, <1>9, <2>3
  <2> QED
    BY <1>1, <2>2, <2>3
<1> QED
  BY <1>3, <1>10 DEF WsInv, Pipe

LEMMA Calm ==
  ASSUME WsInv, NEW e \in End, NEW d, StepOf(e, d), Undisturbed'
  PROVE  Undisturbed /\ d.ec = "none" /\ ~stale[e] /\ ~stale'[e]
<1>1. Other(e) \in End /\ Other(e) # e /\ \A x \in End : x = e \/ x = Other(e)
  BY TwoEnds
<1>2. conn'[e] = d /\ conn'[Other(e)] = conn[Other(e)]
  BY <1>1 DEF StepOf, WsInv, WsTypes
<1>3. faults = 0
  BY DEF Undisturbed, StepOf, WsInv, WsTypes
<1>4. d.ec = "none" /\ conn[e].ec = "none" /\ conn[Other(e)].ec = "none"
  BY <1>1, <1>2 DEF Undisturbed, StepOf
<1>5. ~stale[e] /\ ~stale'[e] /\ ~stale[Other(e)] /\ ~conn[e].doubled /\ ~conn[Other(e)].doubled
  BY <1>1, <1>2 DEF Undisturbed, StepOf
<1>6. \A x \in End : ~stale[x] /\ conn[x].ec = "none" /\ ~conn[x].doubled
  <2> TAKE x \in End
  <2>1. CASE x = e
    BY <1>4, <1>5, <2>1
  <2>2. CASE x = Other(e)
    BY <1>4, <1>5, <2>2
  <2> QED
    BY <1>1, <2>1, <2>2
<1> QED
  BY <1>3, <1>4, <1>5, <1>6 DEF Undisturbed

\* The invariant, as one end sees it.
LEMMA Seen ==
  ASSUME WsInv, NEW e \in End
  PROVE  /\ conn[e] \in Connection /\ conn[Other(e)] \in Connection
         /\ to[e] \in Seq(WsFrame) /\ to[Other(e)] \in Seq(WsFrame) /\ sent[e] \in Seq(WsFrame)
         /\ accepted[e] \in Seq(Nat) /\ accepted[Other(e)] \in Seq(Nat)
         /\ Len(accepted[e]) \in Nat /\ Len(accepted[Other(e)]) \in Nat
         /\ EndOK(conn[e], sent[e], accepted[e], stale[e])
         /\ Out(conn[e]) \in Seq(WsFrame) /\ Out(conn[Other(e)]) \in Seq(WsFrame)
         /\ Mute(conn[e]) \in BOOLEAN /\ Mute(conn[Other(e)]) \in BOOLEAN
         /\ Carried(conn[e], to[e] \o Out(conn[Other(e)]), Mute(conn[Other(e)]),
                    Len(accepted[Other(e)]))
         /\ Undisturbed => Codes(conn[e], to[e] \o Out(conn[Other(e)]), conn[Other(e)])
         /\ Carried(conn[Other(e)], to[Other(e)] \o Out(conn[e]), Mute(conn[e]), Len(accepted[e]))
         /\ Undisturbed => Codes(conn[Other(e)], to[Other(e)] \o Out(conn[e]), conn[e])
<1>1. Other(e) \in End /\ Other(Other(e)) = e
  BY TwoEnds
<1>2. \A x \in End : /\ conn[x] \in Connection /\ to[x] \in Seq(WsFrame)
                     /\ sent[x] \in Seq(WsFrame) /\ accepted[x] \in Seq(Nat)
  BY DEF WsInv, WsTypes
<1>3. \A x \in End : Len(accepted[x]) \in Nat
  BY <1>2
<1>4. \A x \in End : Out(conn[x]) \in Seq(WsFrame)
  <2> TAKE x \in End
  <2>1. conn[x].writing \in Seq(WsFrame) /\ conn[x].queue \in Seq(WsFrame)
    BY <1>2 DEF Connection
  <2>2. conn[x].writing \o conn[x].queue \in Seq(WsFrame) /\ << >> \in Seq(WsFrame)
    BY <2>1
  <2> QED
    BY <2>2, Zenon DEF Out
<1>5. \A x \in End : Mute(conn[x]) \in BOOLEAN
  BY DEF Mute
<1>6. \A x \in End :
        /\ EndOK(conn[x], sent[x], accepted[x], stale[x])
        /\ Carried(conn[x], to[x] \o Out(conn[Other(x)]), Mute(conn[Other(x)]),
                   Len(accepted[Other(x)]))
        /\ Undisturbed => Codes(conn[x], to[x] \o Out(conn[Other(x)]), conn[Other(x)])
  BY DEF WsInv, Pipe
<1>7. /\ Carried(conn[Other(e)], to[Other(e)] \o Out(conn[Other(Other(e))]),
                 Mute(conn[Other(Other(e))]), Len(accepted[Other(Other(e))]))
      /\ Undisturbed => Codes(conn[Other(e)], to[Other(e)] \o Out(conn[Other(Other(e))]),
                              conn[Other(Other(e))])
  BY <1>1, <1>6
<1>8. /\ Carried(conn[Other(e)], to[Other(e)] \o Out(conn[e]), Mute(conn[e]), Len(accepted[e]))
      /\ Undisturbed => Codes(conn[Other(e)], to[Other(e)] \o Out(conn[e]), conn[e])
  BY <1>1, <1>7
<1> QED
  BY <1>1, <1>2, <1>3, <1>4, <1>5, <1>6, <1>8

LEMMA IncomingSame ==
  ASSUME WsInv, NEW e \in End, NEW d, StepOf(e, d), Hears(conn[e], d)
  PROVE  Incoming(e, d, to[e])
<1> DEFINE p == to[e] \o Out(conn[Other(e)])
<1>1. Carried(d, p, Mute(conn[Other(e)]), Len(accepted[Other(e)]))
  BY Seen, CarriedHears
<1>2. ASSUME Undisturbed' PROVE Codes(d, p, conn[Other(e)])
  <2>1. Codes(conn[e], p, conn[Other(e)])
    BY <1>2, Seen, Calm
  <2>2. d.remote = conn[e].remote /\ (Told(d) => Told(conn[e]))
    BY DEF Hears
  <2> QED
    BY <2>1, <2>2, CodesHears
<1> QED
  BY <1>1, <1>2 DEF Incoming

LEMMA IncomingTail ==
  ASSUME WsInv, NEW e \in End, NEW d, StepOf(e, d), Hears(conn[e], d), to[e] # << >>,
         Head(to[e]).kind # "data" \/ conn[e].state \notin {"connecting", "open"}
  PROVE  Incoming(e, d, Tail(to[e]))
<1> DEFINE x == Out(conn[Other(e)])
           p == to[e] \o x
<1>1. p \in Seq(WsFrame) /\ p # << >> /\ Head(p) = Head(to[e]) /\ Tail(to[e]) \o x = Tail(p)
  <2>1. to[e] \in Seq(WsFrame) /\ x \in Seq(WsFrame)
    BY Seen
  <2> HIDE DEF x
  <2> QED
    BY <2>1
<1>2. Carried(conn[e], p, Mute(conn[Other(e)]), Len(accepted[Other(e)]))
  BY Seen
<1> HIDE DEF p
<1>3. Carried(conn[e], Tail(p), Mute(conn[Other(e)]), Len(accepted[Other(e)]))
  BY <1>1, <1>2, Seen, CarriedTail
<1>4. Carried(d, Tail(p), Mute(conn[Other(e)]), Len(accepted[Other(e)]))
  BY <1>3, CarriedHears
<1>5. ASSUME Undisturbed' PROVE Codes(d, Tail(p), conn[Other(e)])
  <2>1. Codes(conn[e], p, conn[Other(e)])
    BY <1>5, Seen, Calm DEF p
  <2>2. d.remote = conn[e].remote /\ (Told(d) => Told(conn[e]))
    BY DEF Hears
  <2>3. Codes(conn[e], Tail(p), conn[Other(e)])
    BY <1>1, <2>1, CodesTail
  <2> QED
    BY <2>2, <2>3, CodesHears
<1> QED
  BY <1>1, <1>4, <1>5 DEF Incoming

LEMMA IncomingData ==
  ASSUME WsInv, NEW e \in End, NEW d, StepOf(e, d), to[e] # << >>,
         Head(to[e]).kind = "data", conn[e].state = "open",
         d.got = Append(conn[e].got, Head(to[e]).code), d.remote = conn[e].remote,
         conn[e].doubled => d.doubled,
         Told(d) => Told(conn[e])
  PROVE  Incoming(e, d, Tail(to[e]))
<1> DEFINE x == Out(conn[Other(e)])
           p == to[e] \o x
<1>1. p \in Seq(WsFrame) /\ p # << >> /\ Head(p) = Head(to[e]) /\ Tail(to[e]) \o x = Tail(p)
  <2>1. to[e] \in Seq(WsFrame) /\ x \in Seq(WsFrame)
    BY Seen
  <2> HIDE DEF x
  <2> QED
    BY SMTT(30), <2>1
<1>2. Carried(conn[e], p, Mute(conn[Other(e)]), Len(accepted[Other(e)]))
  BY Seen
<1> HIDE DEF p
<1>3. Carried(d, Tail(p), Mute(conn[Other(e)]), Len(accepted[Other(e)]))
  <2>1. /\ conn[e] \in Connection /\ Mute(conn[Other(e)]) \in BOOLEAN
        /\ Len(accepted[Other(e)]) \in Nat
    BY Seen
  <2>2. Head(p).kind = "data" /\ d.got = Append(conn[e].got, Head(p).code)
    BY <1>1
  <2> QED
    BY <1>1, <1>2, <2>1, <2>2, CarriedData
<1>4. ASSUME Undisturbed' PROVE Codes(d, Tail(p), conn[Other(e)])
  <2>1. Codes(conn[e], p, conn[Other(e)])
    BY <1>4, Seen, Calm DEF p
  <2>2. Codes(conn[e], Tail(p), conn[Other(e)])
    BY <1>1, <2>1, CodesTail
  <2> QED
    BY <2>2, CodesHears
<1> QED
  BY <1>1, <1>3, <1>4 DEF Incoming

LEMMA IncomingClose ==
  ASSUME WsInv, NEW e \in End, NEW d, StepOf(e, d), to[e] # << >>,
         Head(to[e]).kind = "close", d.got = conn[e].got /\ (conn[e].doubled => d.doubled), d.state = conn[e].state,
         d.remote = Head(to[e]).code
  PROVE  Incoming(e, d, Tail(to[e]))
<1> DEFINE x == Out(conn[Other(e)])
           p == to[e] \o x
<1>1. p \in Seq(WsFrame) /\ p # << >> /\ Head(p) = Head(to[e]) /\ Tail(to[e]) \o x = Tail(p)
  <2>1. to[e] \in Seq(WsFrame) /\ x \in Seq(WsFrame)
    BY Seen
  <2> HIDE DEF x
  <2> QED
    BY SMTT(30), <2>1
<1>2. Carried(conn[e], p, Mute(conn[Other(e)]), Len(accepted[Other(e)]))
  BY Seen
<1> HIDE DEF p
<1>3. Carried(conn[e], Tail(p), Mute(conn[Other(e)]), Len(accepted[Other(e)]))
  BY <1>1, <1>2, Seen, CarriedTail
<1>4. Carried(d, Tail(p), Mute(conn[Other(e)]), Len(accepted[Other(e)]))
  BY <1>3 DEF Carried, InStep
<1>5. ASSUME Undisturbed' PROVE Codes(d, Tail(p), conn[Other(e)])
  <2>1. Codes(conn[e], p, conn[Other(e)])
    BY <1>5, Seen, Calm DEF p
  <2> QED
    BY <1>1, <2>1, CodesTold
<1> QED
  BY <1>1, <1>4, <1>5 DEF Incoming

-----------------------------------------------------------------------------
LEMMA OutSame ==
  ASSUME NEW c, NEW d, Speaks(c, d)
  PROVE  Out(d) = Out(c) /\ (Mute(d) <=> Mute(c)) /\ Mute(d) = Mute(c)
BY DEF Speaks, Out, Mute

LEMMA OutPushed ==
  ASSUME NEW c \in Connection, NEW d, NEW f \in WsFrame,
         d.queue = Append(c.queue, f), d.writing = c.writing, d.flag = c.flag
  PROVE  /\ Mute(d) = Mute(c)
         /\ Mute(c) => Out(d) = << >> /\ Out(c) = << >>
         /\ ~Mute(c) => Out(d) = Append(Out(c), f)
<1>1. c.queue \in Seq(WsFrame) /\ c.writing \in Seq(WsFrame)
  BY DEF Connection
<1>2. c.writing \o Append(c.queue, f) = Append(c.writing \o c.queue, f)
  BY <1>1, LineGrows
<1>3. Mute(d) = Mute(c)
  BY DEF Mute
<1> QED
  BY <1>2, <1>3 DEF Out

LEMMA OutgoingSame ==
  ASSUME WsInv, NEW e \in End, NEW d, StepOf(e, d), Speaks(conn[e], d)
  PROVE  Outgoing(e, d, to[Other(e)], Len(accepted[e]))
<1>1. Out(d) = Out(conn[e]) /\ Mute(d) = Mute(conn[e])
  BY OutSame
<1>2. Carried(conn[Other(e)], to[Other(e)] \o Out(d), Mute(d), Len(accepted[e]))
  BY <1>1, Seen
<1>3. ASSUME Undisturbed' PROVE Codes(conn[Other(e)], to[Other(e)] \o Out(d), d)
  <2>1. Codes(conn[Other(e)], to[Other(e)] \o Out(d), conn[e]) /\ d.ec = "none"
    BY <1>1, <1>3, Seen, Calm
  <2>2. d.local = conn[e].local /\ (Parted(conn[e]) => Parted(d))
    BY <2>1 DEF Speaks
  <2> QED
    BY <2>1, <2>2, CodesSpeaks
<1> QED
  BY <1>2, <1>3 DEF Outgoing

\* One more frame that is no message, by an end that has not sent a close
\* frame yet.
LEMMA OutgoingMore ==
  ASSUME WsInv, NEW e \in End, NEW d, StepOf(e, d), NEW f \in WsFrame, f.kind # "data",
         NEW line, line \o Out(d) = Append(to[Other(e)] \o Out(conn[e]), f),
         Mute(d) = Mute(conn[e]), Undisturbed' => ~Parted(conn[e]),
         f.kind = "close" => f.code = d.local /\ Parted(d)
  PROVE  Outgoing(e, d, line, Len(accepted[e]))
<1> DEFINE p == to[Other(e)] \o Out(conn[e])
<1>1. p \in Seq(WsFrame)
  BY Seen, Lines, ConcatFacts
<1>2. Carried(conn[Other(e)], Append(p, f), Mute(d), Len(accepted[e]))
  <2>1. /\ conn[Other(e)] \in Connection /\ Mute(d) \in BOOLEAN /\ Len(accepted[e]) \in Nat
        /\ Carried(conn[Other(e)], p, Mute(d), Len(accepted[e]))
    BY Seen
  <2> HIDE DEF p
  <2> QED
    BY <1>1, <2>1, CarriedAppend
<1>3. ASSUME Undisturbed' PROVE Codes(conn[Other(e)], Append(p, f), d)
  <2>1. Codes(conn[Other(e)], p, conn[e])
    BY <1>3, Seen, Calm
  <2> HIDE DEF p
  <2> QED
    BY <1>1, <1>3, <2>1, CodesOpen
<1> QED
  BY <1>2, <1>3 DEF Outgoing

\* The next message.
LEMMA OutgoingMessage ==
  ASSUME WsInv, NEW e \in End, NEW d, StepOf(e, d), NEW f \in WsFrame, f.kind = "data",
         f.code = Len(accepted[e]) + 1, Out(d) = Append(Out(conn[e]), f),
         ~Mute(d), ~Mute(conn[e]), Undisturbed' => ~Parted(conn[e])
  PROVE  Outgoing(e, d, to[Other(e)], Len(accepted[e]) + 1)
<1> DEFINE p == to[Other(e)] \o Out(conn[e])
<1>1. p \in Seq(WsFrame) /\ to[Other(e)] \o Out(d) = Append(p, f)
  <2>1. to[Other(e)] \in Seq(WsFrame) /\ Out(conn[e]) \in Seq(WsFrame)
    BY Seen
  <2>2. p \in Seq(WsFrame)
    BY <2>1, ConcatFacts
  <2>3. to[Other(e)] \o Append(Out(conn[e]), f) = Append(p, f)
    BY <2>1, LineGrows
  <2> QED
    BY <2>2, <2>3
<1>2. Mute(d) = FALSE /\ Mute(conn[e]) = FALSE
  BY Seen DEF Mute
<1>3. Carried(conn[Other(e)], p, FALSE, Len(accepted[e]))
  BY <1>2, Seen
<1> HIDE DEF p
<1>4. Carried(conn[Other(e)], Append(p, f), FALSE, Len(accepted[e]) + 1)
  BY <1>1, <1>3, Seen, CarriedMessage
<1>5. ASSUME Undisturbed' PROVE Codes(conn[Other(e)], Append(p, f), d)
  <2>1. Codes(conn[Other(e)], p, conn[e])
    BY <1>5, Seen, Calm DEF p
  <2> QED
    BY <1>1, <1>5, <2>1, CodesOpen
<1> QED
  BY <1>1, <1>2, <1>4, <1>5 DEF Outgoing

\* A mute end takes a frame it will not write.
LEMMA OutgoingMute ==
  ASSUME WsInv, NEW e \in End, NEW d, StepOf(e, d), Mute(conn[e]), Mute(d),
         Out(conn[e]) = << >>, Out(d) = << >>, Undisturbed' => ~Parted(conn[e])
  PROVE  /\ Outgoing(e, d, to[Other(e)], Len(accepted[e]))
         /\ Outgoing(e, d, to[Other(e)], Len(accepted[e]) + 1)
<1> DEFINE p == to[Other(e)] \o Out(conn[e])
<1>1. p \in Seq(WsFrame) /\ to[Other(e)] \o Out(d) = p
  BY Seen, ConcatFacts
<1>2. Mute(d) = TRUE /\ Mute(conn[e]) = TRUE
  BY Seen DEF Mute
<1>3. Carried(conn[Other(e)], p, TRUE, Len(accepted[e]))
  BY <1>2, Seen
<1> HIDE DEF p
<1>4. Carried(conn[Other(e)], p, TRUE, Len(accepted[e]) + 1)
  BY <1>1, <1>3, Seen, CarriedNot
<1>5. ASSUME Undisturbed' PROVE Codes(conn[Other(e)], p, d)
  <2>1. Codes(conn[Other(e)], p, conn[e])
    BY <1>5, Seen, Calm DEF p
  <2>2. Frame("ping", "none", FALSE) \in WsFrame
    BY DEF Frame, WsFrame, OtherKind, OtherCode, Status
  <2> QED
    BY <1>1, <1>5, <2>1, <2>2, CodesOpen
<1> QED
  BY <1>1, <1>2, <1>3, <1>4, <1>5 DEF Outgoing

\* Frames move from the connection to the transport.
LEMMA OutgoingMoved ==
  ASSUME WsInv, NEW e \in End, NEW d, StepOf(e, d), NEW line,
         line \o Out(d) = to[Other(e)] \o Out(conn[e]), Mute(d) = Mute(conn[e]),
         d.ec = "none" => d.local = conn[e].local, Parted(conn[e]) => Parted(d)
  PROVE  Outgoing(e, d, line, Len(accepted[e]))
<1>1. Carried(conn[Other(e)], line \o Out(d), Mute(d), Len(accepted[e]))
  BY Seen
<1>2. ASSUME Undisturbed' PROVE Codes(conn[Other(e)], line \o Out(d), d)
  <2>1. Codes(conn[Other(e)], line \o Out(d), conn[e]) /\ d.ec = "none"
    BY <1>2, Seen, Calm
  <2> QED
    BY <2>1, CodesSpeaks
<1> QED
  BY <1>1, <1>2 DEF Outgoing

\* The end of the line is lost with the end that becomes mute.
LEMMA OutgoingCut ==
  ASSUME WsInv, NEW e \in End, NEW d, StepOf(e, d), NEW line,
         line \o Out(d) \in Seq(WsFrame), Begins(line \o Out(d), to[Other(e)] \o Out(conn[e])),
         Mute(d), d.ec = "none" => d.local = conn[e].local, Parted(conn[e]) => Parted(d)
  PROVE  Outgoing(e, d, line, Len(accepted[e]))
<1> DEFINE p == to[Other(e)] \o Out(conn[e])
           q == line \o Out(d)
<1>1. p \in Seq(WsFrame) /\ q \in Seq(WsFrame) /\ Begins(q, p)
  BY Seen, ConcatFacts
<1>2. Carried(conn[Other(e)], p, Mute(conn[e]), Len(accepted[e]))
  BY Seen
<1>3. Mute(d) = TRUE
  BY DEF Mute
<1> HIDE DEF p, q
<1>4. Carried(conn[Other(e)], q, TRUE, Len(accepted[e]))
  BY <1>1, <1>2, CarriedCut
<1>5. ASSUME Undisturbed' PROVE Codes(conn[Other(e)], q, d)
  <2>1. Codes(conn[Other(e)], p, conn[e]) /\ d.ec = "none"
    BY <1>5, Seen, Calm DEF p
  <2>2. Codes(conn[Other(e)], q, conn[e])
    BY <1>1, <2>1, CodesCut
  <2> QED
    BY <2>1, <2>2, CodesSpeaks
<1> QED
  BY <1>3, <1>4, <1>5 DEF Outgoing, q

-----------------------------------------------------------------------------
(* The rules by which a step keeps the invariant.                           *)

\* What one end has said and will say stays, or its end is lost.
LEMMA EndLine ==
  ASSUME WsInv, NEW e \in End, NEW d, StepOf(e, d),
         sent'[e] \o Out(d) \in Seq(WsFrame),
         Begins(sent'[e] \o Out(d), sent[e] \o Out(conn[e])),
         d.state \in {"connecting", "open"} => conn[e].state \in {"connecting", "open"},
         Shape(d), ~stale'[e] => Story(d), Began(conn[e]) => Began(d),
         accepted'[e] = accepted[e]
  PROVE  EndOK(d, sent'[e], accepted'[e], stale'[e])
<1> DEFINE p == sent[e] \o Out(conn[e])
           q == sent'[e] \o Out(d)
<1>1. EndOK(conn[e], sent[e], accepted[e], stale[e]) /\ p \in Seq(WsFrame) /\ q \in Seq(WsFrame)
  BY Seen, ConcatFacts
<1>2. Begins(q, p)
  OBVIOUS
<1> HIDE DEF q
<1>3. ASSUME ~stale'[e] PROVE LineOK(d, q)
  <2>1. ~stale[e]
    BY <1>3 DEF StepOf
  <2>2. LineOK(conn[e], p)
    BY <1>1, <2>1 DEF EndOK
  <2> HIDE DEF p
  <2>3. (CloseLast(p) => CloseLast(q)) /\ (NoClose(p) => NoClose(q))
    BY <1>1, <1>2, CloseBegins
  <2> QED
    BY <2>2, <2>3 DEF LineOK
<1>4. /\ accepted'[e] = Upto(Len(accepted'[e]))
      /\ ~Began(d) => accepted'[e] = << >>
  BY <1>1 DEF EndOK
<1> QED
  BY <1>3, <1>4 DEF EndOK, q

LEMMA EndSame ==
  ASSUME WsInv, NEW e \in End, NEW d, StepOf(e, d), Speaks(conn[e], d),
         d.state \in {"connecting", "open"} => conn[e].state \in {"connecting", "open"},
         Shape(d), ~stale'[e] => Story(d), Began(conn[e]) => Began(d),
         sent'[e] = sent[e], accepted'[e] = accepted[e]
  PROVE  EndOK(d, sent'[e], accepted'[e], stale'[e])
<1>1. Out(d) = Out(conn[e])
  BY OutSame
<1>2. sent'[e] \o Out(d) \in Seq(WsFrame) /\ sent'[e] \o Out(d) = sent[e] \o Out(conn[e])
  BY <1>1, Seen, ConcatFacts
<1>3. Begins(sent'[e] \o Out(d), sent[e] \o Out(conn[e]))
  BY <1>2 DEF Begins
<1> QED
  BY <1>2, <1>3, EndLine

LEMMA QuietRule ==
  ASSUME WsInv, NEW e \in End, NEW d, StepOf(e, d), Hears(conn[e], d), Speaks(conn[e], d),
         Shape(d), ~stale'[e] => Story(d), Began(conn[e]) => Began(d),
         to' = to, sent' = sent, accepted' = accepted
  PROVE  WsInv'
<1>1. EndOK(d, sent'[e], accepted'[e], stale'[e])
  BY EndSame DEF Hears
<1>2. Incoming(e, d, to'[e])
  BY IncomingSame
<1>3. Outgoing(e, d, to'[Other(e)], Len(accepted'[e]))
  BY OutgoingSame
<1> QED
  BY <1>1, <1>2, <1>3, StepRule

LEMMA ReadRule ==
  ASSUME WsInv, NEW e \in End, NEW d, StepOf(e, d), Hears(conn[e], d), Speaks(conn[e], d),
         Shape(d), ~stale'[e] => Story(d), Began(conn[e]) => Began(d),
         to[e] # << >>, Head(to[e]).kind # "data" \/ conn[e].state \notin {"connecting", "open"},
         to' = [to EXCEPT ![e] = Tail(@)], sent' = sent, accepted' = accepted
  PROVE  WsInv'
<1>1. EndOK(d, sent'[e], accepted'[e], stale'[e])
  BY EndSame DEF Hears
<1>2. to'[e] = Tail(to[e]) /\ to'[Other(e)] = to[Other(e)]
  BY TwoEnds DEF WsInv, WsTypes
<1>3. Incoming(e, d, to'[e])
  BY <1>2, IncomingTail
<1>4. Outgoing(e, d, to'[Other(e)], Len(accepted'[e]))
  BY <1>2, OutgoingSame
<1> QED
  BY <1>1, <1>3, <1>4, StepRule

\* A line that gets one more frame from an end that is open.
LEMMA EndPushed ==
  ASSUME WsInv, NEW e \in End, NEW d, StepOf(e, d), NEW f \in WsFrame,
         d.queue = Append(conn[e].queue, f), d.writing = conn[e].writing, d.flag = conn[e].flag,
         Shape(d), Began(d), ~stale'[e] => conn[e].state = "open" /\ Story(d),
         f.kind = "close" => d.state = "closing", sent'[e] = sent[e],
         accepted'[e] = Upto(Len(accepted'[e]))
  PROVE  EndOK(d, sent'[e], accepted'[e], stale'[e])
<1>1. /\ EndOK(conn[e], sent[e], accepted[e], stale[e])
      /\ sent[e] \in Seq(WsFrame) /\ Out(conn[e]) \in Seq(WsFrame)
      /\ conn[e] \in Connection
  BY Seen
<1>2. ASSUME ~stale'[e] PROVE LineOK(d, sent'[e] \o Out(d))
  <2> DEFINE l == sent[e] \o Out(conn[e])
  <2>1. l \in Seq(WsFrame)
    BY <1>1, ConcatFacts
  <2>2. ~stale[e]
    BY <1>2 DEF StepOf
  <2>3. NoClose(l) /\ CloseLast(l)
    BY <1>1, <1>2, <2>2 DEF EndOK, LineOK
  <2>4. CASE Mute(conn[e])
    <3>1. Out(d) = Out(conn[e])
      BY <1>1, <2>4, OutPushed
    <3> QED
      BY <2>3, <3>1 DEF LineOK
  <2>5. CASE ~Mute(conn[e])
    <3>1. Out(d) = Append(Out(conn[e]), f)
      BY <1>1, <2>5, OutPushed
    <3>2. sent[e] \o Append(Out(conn[e]), f) = Append(l, f)
      BY <1>1, LineGrows
    <3> HIDE DEF l
    <3>3. CloseLast(Append(l, f)) /\ (f.kind # "close" => NoClose(Append(l, f)))
      BY <2>1, <2>3, CloseAppend
    <3> QED
      BY <3>1, <3>2, <3>3 DEF LineOK
  <2> QED
    BY <2>4, <2>5
<1> QED
  BY <1>2 DEF EndOK

LEMMA PushRule ==
  ASSUME WsInv, NEW e \in End, NEW d, StepOf(e, d), NEW f \in WsFrame, f.kind # "data",
         d.queue = Append(conn[e].queue, f), d.writing = conn[e].writing, d.flag = conn[e].flag,
         Shape(d), Began(d), ~stale'[e] => conn[e].state = "open" /\ Story(d),
         f.kind = "close" => d.state = "closing" /\ f.code = d.local,
         Incoming(e, d, to'[e]), to'[Other(e)] = to[Other(e)],
         sent' = sent, accepted' = accepted
  PROVE  WsInv'
<1>1. EndOK(d, sent'[e], accepted'[e], stale'[e])
  <2>1. accepted'[e] = Upto(Len(accepted'[e]))
    BY Seen DEF EndOK
  <2> QED
    BY <2>1, EndPushed
<1>2. Undisturbed' => ~Parted(conn[e])
  <2>1. Undisturbed' => ~stale'[e]
    BY Calm
  <2> QED
    BY <2>1 DEF Parted
<1>3. Outgoing(e, d, to[Other(e)], Len(accepted[e]))
  <2>0. conn[e] \in Connection /\ to[Other(e)] \in Seq(WsFrame) /\ Out(conn[e]) \in Seq(WsFrame)
    BY Seen
  <2>1. CASE Mute(conn[e])
    <3>1. Mute(d) /\ Out(d) = << >> /\ Out(conn[e]) = << >>
      BY <2>0, <2>1, OutPushed
    <3> QED
      BY <1>2, <2>1, <3>1, OutgoingMute
  <2>2. CASE ~Mute(conn[e])
    <3>1. Mute(d) = Mute(conn[e]) /\ Out(d) = Append(Out(conn[e]), f)
      BY <2>0, <2>2, OutPushed
    <3>2. to[Other(e)] \o Out(d) = Append(to[Other(e)] \o Out(conn[e]), f)
      BY <2>0, <3>1, LineGrows
    <3>3. f.kind = "close" => f.code = d.local /\ Parted(d)
      BY DEF Parted
    <3> QED
      BY <1>2, <3>1, <3>2, <3>3, OutgoingMore
  <2> QED
    BY <2>1, <2>2
<1> QED
  BY <1>1, <1>3, StepRule

LEMMA SendRule ==
  ASSUME WsInv, NEW e \in End, NEW d, StepOf(e, d), NEW f \in WsFrame, f.kind = "data",
         f.code = Len(accepted[e]) + 1,
         d.queue = Append(conn[e].queue, f), d.writing = conn[e].writing, d.flag = conn[e].flag,
         Shape(d), Began(d), ~stale'[e] => conn[e].state = "open" /\ Story(d),
         Hears(conn[e], d), to' = to, sent' = sent,
         accepted'[e] = Append(accepted[e], Len(accepted[e]) + 1)
  PROVE  WsInv'
<1> DEFINE n == Len(accepted[e])
<1>1. n \in Nat /\ accepted[e] = Upto(n)
  BY Seen DEF EndOK
<1>2. accepted'[e] = Upto(n + 1) /\ Len(accepted'[e]) = n + 1
  <2>1. accepted'[e] = Append(Upto(n), n + 1)
    BY <1>1
  <2>2. n + 1 \in Nat
    BY <1>1
  <2> HIDE DEF n
  <2>3. accepted'[e] = Upto(n + 1)
    BY <1>1, <2>1, UptoFacts
  <2>4. Len(Upto(n + 1)) = n + 1
    BY <2>2, UptoFacts
  <2> QED
    BY <2>3, <2>4
<1>3. EndOK(d, sent'[e], accepted'[e], stale'[e])
  <2>1. accepted'[e] = Upto(Len(accepted'[e]))
    BY <1>2
  <2> QED
    BY <2>1, EndPushed
<1>4. Undisturbed' => ~Parted(conn[e])
  <2>1. Undisturbed' => ~stale'[e]
    BY Calm
  <2> QED
    BY <2>1 DEF Parted
<1>5. Outgoing(e, d, to[Other(e)], Len(accepted[e]) + 1)
  <2>0. conn[e] \in Connection
    BY Seen
  <2>1. CASE Mute(conn[e])
    <3>1. Mute(d) /\ Out(d) = << >> /\ Out(conn[e]) = << >>
      BY <2>0, <2>1, OutPushed
    <3> QED
      BY <1>4, <2>1, <3>1, OutgoingMute
  <2>2. CASE ~Mute(conn[e])
    <3>1. ~Mute(d) /\ Out(d) = Append(Out(conn[e]), f)
      BY <2>0, <2>2, OutPushed
    <3> QED
      BY <1>4, <2>2, <3>1, OutgoingMessage
  <2> QED
    BY <2>1, <2>2
<1>6. Incoming(e, d, to'[e])
  BY IncomingSame
<1>7. Outgoing(e, d, to'[Other(e)], Len(accepted'[e]))
  BY <1>2, <1>5
<1> QED
  BY <1>3, <1>6, <1>7, StepRule

-----------------------------------------------------------------------------
(* Steps that change neither what an end hears nor what it says.            *)

LEMMA IsStep ==
  ASSUME WsInv, NEW e \in End, NEW d \in Connection, Becomes(e, d), up' \in [End -> BOOLEAN],
         to' = to \/ (to[e] # << >> /\ to' = [to EXCEPT ![e] = Tail(@)]),
         UNCHANGED <<sent, accepted>>,
         stale' = stale \/ \E b \in BOOLEAN : stale' = [stale EXCEPT ![e] = @ \/ b],
         faults' = faults \/ Fault,
         d.ec = "none" => conn[e].ec = "none", conn[e].doubled => d.doubled
  PROVE  StepOf(e, d)
<1>1. Other(e) \in End /\ Other(e) # e
  BY TwoEnds
<1>2. to' \in [End -> Seq(WsFrame)]
  <2>1. to \in [End -> Seq(WsFrame)] /\ to[e] \in Seq(WsFrame)
    BY DEF WsInv, WsTypes
  <2>2. to[e] # << >> => Tail(to[e]) \in Seq(WsFrame)
    BY <2>1, TailFacts
  <2> QED
    BY <2>1, <2>2
<1>3. /\ stale' \in [End -> BOOLEAN] /\ (stale[e] => stale'[e])
      /\ stale'[Other(e)] = stale[Other(e)]
  BY <1>1 DEF WsInv, WsTypes
<1>4. faults' \in Nat /\ faults' >= faults
  BY DEF WsInv, WsTypes, Fault
<1> QED
  BY <1>1, <1>2, <1>3, <1>4 DEF StepOf, Becomes, WsInv, WsTypes

LEMMA StillKeeps ==
  ASSUME NEW c, NEW d, Still(c, d)
  PROVE  /\ Hears(c, d) /\ Speaks(c, d)
         /\ Shape(c) => Shape(d)
         /\ Story(c) => Story(d)
<1>1. Hears(c, d)
  BY DEF Still, Hears, Told
<1>2. Speaks(c, d)
  BY DEF Still, Speaks, Parted
<1>3. Shape(c) => Shape(d)
  BY DEF Still, Shape
<1>4. Story(c) => Story(d)
  BY DEF Still, Story
<1> QED
  BY <1>1, <1>2, <1>3, <1>4

LEMMA TerminateKeeps ==
  ASSUME NEW c, NEW k \in Connection, Still(c, k), NEW ec \in Reason, Shape(c)
  PROVE  LET d == terminate(k, ec)
         IN /\ d \in Connection /\ Hears(c, d) /\ Speaks(c, d) /\ Shape(d)
            /\ Story(c) => Story(d)
            /\ Began(d) <=> Began(c)
            /\ d.ec = "none" => c.ec = "none" /\ d.local = c.local
            /\ d.state = "closed"
<1> DEFINE d == terminate(k, ec)
<1>1. /\ d \in Connection /\ d.state = "closed" /\ d.istate = k.istate
      /\ d.ec = (IF ec = "none" THEN k.ec ELSE ec)
      /\ ec = "none" => d.local = k.local
      /\ d.queue = k.queue /\ d.writing = k.writing /\ d.flag = k.flag
      /\ d.clean = k.clean /\ d.remote = k.remote
      /\ d.called = k.called /\ d.got = k.got /\ (k.doubled => d.doubled) /\ d.app = k.app /\ d.acking = k.acking
      /\ k.state = "closed" => d.ending = k.ending
      /\ k.state = "connecting" => d.ending = Append(k.ending, "failed")
      /\ k.state \in {"open", "closing"} => d.ending = Append(k.ending, "closed")
  BY Terminated
<1> HIDE DEF d
<1>2. Began(d) <=> Began(c)
  BY <1>1 DEF Still, Began
<1>3. Hears(c, d)
  BY <1>1 DEF Still, Hears, Told
<1>4. d.ec = "none" => c.ec = "none" /\ d.local = c.local
  BY <1>1 DEF Still
<1>5. Speaks(c, d)
  BY <1>1, <1>4 DEF Still, Speaks, Parted
<1>6. Shape(d)
  BY <1>1, <1>2 DEF Still, Shape
<1>7. Story(c) => Story(d)
  <2>1. Append(<< >>, "failed") = <<"failed">> /\ Append(<< >>, "closed") = <<"closed">>
    OBVIOUS
  <2>2. CASE c.state = "connecting"
    BY <1>1, <2>1, <2>2 DEF Still, Story
  <2>3. CASE c.state \in {"open", "closing"}
    BY <1>1, <2>1, <2>3 DEF Still, Story
  <2>4. CASE c.state = "closed"
    BY <1>1, <2>4 DEF Still, Story
  <2> QED
    BY <2>2, <2>3, <2>4 DEF Story
<1> QED
  BY <1>1, <1>2, <1>3, <1>4, <1>5, <1>6, <1>7 DEF d

\* The rule for a step that leaves alone what the invariant speaks of.
LEMMA StillRule ==
  ASSUME WsInv, NEW e \in End, NEW d \in Connection, Becomes(e, d), Still(conn[e], d),
         Quiet, faults' = faults \/ Fault
  PROVE  WsInv'
<1>1. up' \in [End -> BOOLEAN] /\ to' = to /\ stale' = stale /\ sent' = sent /\ accepted' = accepted
  BY DEF Quiet, WsInv, WsTypes
<1>2. StepOf(e, d)
  BY <1>1, IsStep DEF Still
<1>3. /\ Hears(conn[e], d) /\ Speaks(conn[e], d) /\ Shape(d) /\ (~stale'[e] => Story(d))
      /\ Began(conn[e]) => Began(d)
  BY <1>1, Seen, StillKeeps DEF EndOK, Still
<1> QED
  BY <1>1, <1>2, <1>3, QuietRule

\* The rule for a step that ends in terminate().
LEMMA TerminateRule ==
  ASSUME WsInv, NEW e \in End, NEW k \in Connection, Still(conn[e], k), NEW ec \in Reason,
         Becomes(e, terminate(k, ec)), Quiet, faults' = faults \/ Fault
  PROVE  WsInv'
<1> DEFINE d == terminate(k, ec)
<1>1. up' \in [End -> BOOLEAN] /\ to' = to /\ stale' = stale /\ sent' = sent /\ accepted' = accepted
  BY DEF Quiet, WsInv, WsTypes
<1>2. Shape(conn[e]) /\ (~stale[e] => Story(conn[e]))
  BY Seen DEF EndOK
<1>3. /\ d \in Connection /\ Hears(conn[e], d) /\ Speaks(conn[e], d) /\ Shape(d)
      /\ Story(conn[e]) => Story(d)
      /\ Began(d) <=> Began(conn[e])
      /\ d.ec = "none" => conn[e].ec = "none"
  BY <1>2, TerminateKeeps
<1> HIDE DEF d
<1>4. Becomes(e, d)
  BY DEF d
<1>5. StepOf(e, d)
  BY <1>1, <1>3, <1>4, IsStep DEF Hears
<1> QED
  BY <1>1, <1>2, <1>3, <1>5, QuietRule

LEMMA StartKeeps ==
  ASSUME WsInv, NEW e \in End, start(e)
  PROVE  WsInv'
<1> DEFINE d == [conn[e] EXCEPT !.istate = "TRANSPORT_INIT"]
<1>1. conn[e] \in Connection /\ conn[e].istate = "USER_INIT" /\ Quiet /\ faults' = faults
  BY Seen DEF start
<1>2. d \in Connection /\ Still(conn[e], d)
  BY <1>1 DEF Connection, InternalState, Still, Began
<1>3. Becomes(e, d)
  BY DEF start
<1> HIDE DEF d
<1> QED
  BY <1>1, <1>2, <1>3, StillRule

LEMMA TransportInitKeeps ==
  ASSUME WsInv, NEW e \in End, handle_transport_init(e)
  PROVE  WsInv'
<1> DEFINE s == [conn[e] EXCEPT !.istate = "READ_HTTP_REQUEST", !.timer = "open", !.reads = 1]
           c == [conn[e] EXCEPT !.istate = "WRITE_HTTP_REQUEST", !.timer = "open",
                                !.reply = "request"]
<1>1. conn[e] \in Connection /\ conn[e].istate = "TRANSPORT_INIT" /\ Quiet
  BY Seen DEF handle_transport_init
<1>2. s \in Connection /\ Still(conn[e], s)
  <2>1. "READ_HTTP_REQUEST" \in InternalState /\ "open" \in Timer /\ 1 \in Int
    BY DEF InternalState, Timer
  <2>2. s \in Connection
    BY <1>1, <2>1 DEF Connection
  <2>3. Still(conn[e], s)
    BY <1>1 DEF Connection, Still, Began
  <2> QED
    BY <2>2, <2>3
<1>3. c \in Connection /\ Still(conn[e], c)
  BY <1>1 DEF Connection, InternalState, Timer, Reply, Still, Began
<1>4. \/ Becomes(e, s) /\ faults' = faults
      \/ Becomes(e, c) /\ faults' = faults
      \/ Fault /\ Becomes(e, terminate(conn[e], "init"))
  BY DEF handle_transport_init
<1>5. Still(conn[e], conn[e]) /\ "init" \in Reason
  BY DEF Still, Reason
<1> HIDE DEF s, c
<1>6. CASE Becomes(e, s) /\ faults' = faults
  BY <1>1, <1>2, <1>6, StillRule
<1>7. CASE Becomes(e, c) /\ faults' = faults
  BY <1>1, <1>3, <1>7, StillRule
<1>8. CASE Fault /\ Becomes(e, terminate(conn[e], "init"))
  BY <1>1, <1>5, <1>8, TerminateRule
<1> QED
  BY <1>4, <1>6, <1>7, <1>8

LEMMA SendResponseKeeps ==
  ASSUME WsInv, send_http_response
  PROVE  WsInv'
<1> DEFINE e == "server"
           d == [conn[e] EXCEPT !.http = "body_written", !.reply = "response"]
<1>1. e \in End
  BY DEF End
<1>2. conn[e] \in Connection /\ Quiet /\ faults' = faults
  BY <1>1, Seen DEF send_http_response
<1>3. d \in Connection /\ Still(conn[e], d)
  BY <1>2 DEF Connection, HttpState, Reply, Still, Began
<1>4. Becomes(e, d)
  BY DEF send_http_response
<1> HIDE DEF d
<1> QED
  BY <1>1, <1>2, <1>3, <1>4, StillRule

LEMMA TimerKeeps ==
  ASSUME WsInv, NEW e \in End, TimerExpires(e)
  PROVE  WsInv'
<1> DEFINE d == [conn[e] EXCEPT !.timer = "none", !.late = @ \cup {conn[e].timer}]
<1>1. conn[e] \in Connection /\ Quiet /\ faults' = faults
  BY Seen DEF TimerExpires
<1>2. conn[e].late \cup {conn[e].timer} \in SUBSET Timer /\ "none" \in Timer
  BY <1>1 DEF Connection, Timer
<1>3. d \in Connection /\ Still(conn[e], d)
  BY <1>1, <1>2 DEF Connection, Still, Began
<1>4. Becomes(e, d)
  BY DEF TimerExpires
<1> HIDE DEF d
<1> QED
  BY <1>1, <1>3, <1>4, StillRule

LEMMA TimeoutKeeps ==
  ASSUME WsInv, NEW e \in End, handle_timeout(e)
  PROVE  WsInv'
<1>1. conn[e] \in Connection
  BY Seen
<1>2. PICK t \in conn[e].late : /\ Becomes(e, terminate([conn[e] EXCEPT !.late = @ \ {t}], "timeout"))
                                /\ Quiet /\ faults' = faults
  BY DEF handle_timeout
<1> DEFINE k == [conn[e] EXCEPT !.late = @ \ {t}]
<1>3. conn[e].late \ {t} \in SUBSET Timer /\ "timeout" \in Reason
  BY <1>1 DEF Connection, Reason
<1>4. k \in Connection /\ Still(conn[e], k)
  BY <1>1, <1>3 DEF Connection, Still, Began
<1> HIDE DEF k
<1>5. Becomes(e, terminate(k, "timeout"))
  BY <1>2 DEF k
<1> QED
  BY <1>2, <1>3, <1>4, <1>5, TerminateRule

LEMMA ReceivedStill ==
  ASSUME WsInv, NEW e \in End
  PROVE  Received(e) \in Connection /\ Still(conn[e], Received(e)) /\ Received(e).istate = conn[e].istate
<1>1. conn[e] \in Connection
  BY Seen
<1>2. conn[e].reads - 1 \in Int
  BY <1>1 DEF Connection
<1> QED
  BY <1>1, <1>2 DEF Received, Connection, Still, Began

LEMMA ReadEndKeeps ==
  ASSUME WsInv, NEW e \in End, HandleReadEnd(e)
  PROVE  WsInv'
<1> DEFINE c == Received(e)
<1>1. c \in Connection /\ Still(conn[e], c) /\ {"none", "eof", "read"} \subseteq Reason /\ Quiet
  BY ReceivedStill DEF Reason, HandleReadEnd
<1>2. \/ Becomes(e, c) /\ faults' = faults
      \/ Becomes(e, terminate(c, "none")) /\ faults' = faults
      \/ Becomes(e, terminate(c, "eof")) /\ faults' = faults
      \/ Fault /\ Becomes(e, terminate(c, "read"))
  BY DEF HandleReadEnd
<1> HIDE DEF c
<1>3. CASE Becomes(e, c) /\ faults' = faults
  BY <1>1, <1>3, StillRule
<1>4. ASSUME NEW ec \in {"none", "eof", "read"}, Becomes(e, terminate(c, ec)),
             faults' = faults \/ Fault
      PROVE  WsInv'
  BY <1>1, <1>4, TerminateRule
<1> QED
  BY <1>2, <1>3, <1>4

LEMMA PauseKeeps ==
  ASSUME WsInv, NEW e \in End, handle_pause_reading(e) \/ handle_resume_reading(e)
  PROVE  WsInv'
<1> DEFINE p == [conn[e] EXCEPT !.readFlag = FALSE]
           r == [conn[e] EXCEPT !.readFlag = TRUE, !.doubled = @ \/ conn[e].reads > 0]
<1>1. conn[e] \in Connection /\ Quiet /\ faults' = faults
  BY Seen DEF handle_pause_reading, handle_resume_reading
<1>2. p \in Connection /\ Still(conn[e], p) /\ r \in Connection /\ Still(conn[e], r)
  <2>1. p \in Connection /\ Still(conn[e], p)
    BY <1>1 DEF Connection, Still, Began
  <2>2. PICK b \in BOOLEAN : b = (conn[e].doubled \/ conn[e].reads > 0)
    OBVIOUS
  <2>3. PICK m : m = [conn[e] EXCEPT !.readFlag = TRUE]
    OBVIOUS
  <2>4. m \in Connection /\ Still(conn[e], m) /\ m.doubled = conn[e].doubled
    BY <1>1, <2>3 DEF Connection, Still, Began
  <2>5. r = [m EXCEPT !.doubled = b]
    BY <2>2, <2>3
  <2>6. r \in Connection /\ Still(conn[e], r)
    BY <2>2, <2>4, <2>5 DEF Connection, Still, Began
  <2> QED
    BY <2>1, <2>6
<1>3. Becomes(e, p) \/ Becomes(e, read_frame(r))
  BY DEF handle_pause_reading, handle_resume_reading
<1> HIDE DEF p, r
<1>4. read_frame(r) \in Connection /\ Still(conn[e], read_frame(r))
  BY <1>2, Reading DEF Still
<1> QED
  BY <1>1, <1>2, <1>3, <1>4, StillRule

LEMMA BeginKeeps ==
  ASSUME WsInv, NEW e \in End, NEW what \in {"send", "ping", "close"}, Begin(e, what)
  PROVE  WsInv'
<1> DEFINE n == IF what = "ping" THEN conn[e].pings + 1 ELSE conn[e].pings
           d == [conn[e] EXCEPT !.app = what, !.pings = n]
<1>1. conn[e] \in Connection /\ Quiet /\ faults' = faults /\ conn[e].state = "open"
  BY Seen DEF Begin
<1>2. n \in Int /\ what \in App
  BY <1>1 DEF Connection, App
<1>3. Becomes(e, d)
  BY DEF Begin
<1> HIDE DEF n
<1>4. d \in Connection
  BY <1>1, <1>2 DEF Connection
<1>5. /\ d.state = conn[e].state /\ d.istate = conn[e].istate /\ d.ec = conn[e].ec
      /\ d.queue = conn[e].queue /\ d.flag = conn[e].flag /\ d.writing = conn[e].writing
      /\ d.clean = conn[e].clean /\ d.local = conn[e].local /\ d.remote = conn[e].remote
      /\ d.ending = conn[e].ending /\ d.called = conn[e].called /\ d.got = conn[e].got /\ (conn[e].doubled => d.doubled)
      /\ d.acking = conn[e].acking
  BY <1>1 DEF Connection
<1> HIDE DEF d
<1>6. up' \in [End -> BOOLEAN] /\ to' = to /\ stale' = stale /\ sent' = sent /\ accepted' = accepted
  BY <1>1 DEF Quiet, WsInv, WsTypes
<1>7. StepOf(e, d)
  BY <1>1, <1>3, <1>4, <1>5, <1>6, IsStep
<1>8. Shape(conn[e]) /\ (~stale[e] => Story(conn[e]))
  BY Seen DEF EndOK
<1>9. Hears(conn[e], d) /\ Speaks(conn[e], d) /\ (Began(conn[e]) => Began(d))
  BY <1>5 DEF Hears, Speaks, Told, Parted, Began
<1>10. Shape(d) /\ (Story(conn[e]) => Story(d))
  BY <1>1, <1>5, <1>8 DEF Shape, Story, Began
<1> QED
  BY <1>6, <1>7, <1>8, <1>9, <1>10, QuietRule

LEMMA Joined ==
  ASSUME NEW a, NEW b, NEW c
  PROVE  <<a>> \o <<b>> = <<a, b>> /\ <<a, b>> \o <<c>> = <<a, b, c>>
<1> DEFINE S == {a, b, c}
           p == <<a>> \o <<b>>
           q == <<a, b>> \o <<c>>
<1>1. <<a>> \in Seq(S) /\ <<b>> \in Seq(S) /\ <<c>> \in Seq(S)
      /\ <<a, b>> \in Seq(S) /\ <<a, b, c>> \in Seq(S)
  OBVIOUS
<1>2. p = <<a, b>>
  <2>1. p \in Seq(S) /\ Len(p) = 2 /\ p[1] = a /\ p[2] = b
    BY <1>1, ConcatProperties
  <2> HIDE DEF p, S
  <2> QED
    BY <1>1, <2>1, SeqEqual
<1>3. q = <<a, b, c>>
  <2>1. q \in Seq(S) /\ Len(q) = 3 /\ q[1] = a /\ q[2] = b /\ q[3] = c
    BY <1>1, ConcatProperties
  <2> HIDE DEF q, S
  <2> QED
    BY <1>1, <2>1, SeqEqual
<1> QED
  BY <1>2, <1>3

LEMMA Handlers ==
  /\ << >> \o << >> \o <<"terminated">> = <<"terminated">>
  /\ << >> \o <<"fail">> \o <<"terminated">> = <<"fail", "terminated">>
  /\ <<"open">> \o <<"close">> \o <<"terminated">> = <<"open", "close", "terminated">>
<1>1. << >> \o << >> \o <<"terminated">> = <<"terminated">> /\ << >> \o <<"fail">> = <<"fail">>
  OBVIOUS
<1> QED
  BY <1>1, Joined

LEMMA EndedKeeps ==
  ASSUME WsInv, NEW e \in End, handle_terminate(e)
  PROVE  WsInv'
<1> DEFINE c == conn[e]
           how == IF Head(c.ending) = "closed" THEN <<"close">>
                  ELSE IF c.ec = "http_connection_ended" THEN << >> ELSE <<"fail">>
           g == Tail(c.ending)
           h == c.called \o how \o <<"terminated">>
           d == [c EXCEPT !.ending = g, !.called = h]
<1>1. c \in Connection /\ c.ending # << >> /\ Becomes(e, d)
      /\ UNCHANGED <<to, stale, sent, accepted, faults>>
  BY Seen DEF handle_terminate
<1>2. c.ending \in Seq(Ending) /\ c.called \in Seq(Call)
  BY <1>1 DEF Connection
<1>3. g \in Seq(Ending)
  BY <1>1, <1>2
<1>4. how \in {<< >>, <<"close">>, <<"fail">>}
  OBVIOUS
<1>5. h \in Seq(Call)
  <2>1. << >> \in Seq(Call) /\ <<"close">> \in Seq(Call) /\ <<"fail">> \in Seq(Call)
        /\ <<"terminated">> \in Seq(Call)
    BY DEF Call
  <2>2. how \in Seq(Call)
    BY <1>4, <2>1
  <2> HIDE DEF how
  <2> QED
    BY <1>2, <2>1, <2>2
<1>6. up' \in [End -> BOOLEAN]
  BY DEF handle_terminate, WsInv, WsTypes
<1>7. Shape(c) /\ (~stale[e] => Story(c))
  BY Seen DEF EndOK
<1>8. ASSUME Story(c)
      PROVE  /\ c.state = "closed" /\ g = << >>
             /\ h \in {<<"open", "close", "terminated">>, <<"fail", "terminated">>, <<"terminated">>}
  <2>1. CASE c.ending = <<"failed">> /\ c.called = << >>
    <3>1. c.state = "closed" /\ g = << >> /\ how \in {<< >>, <<"fail">>}
      BY <1>8, <2>1 DEF Story
    <3>2. CASE how = << >>
      BY <2>1, <3>1, <3>2, Handlers
    <3>3. CASE how = <<"fail">>
      BY <2>1, <3>1, <3>3, Handlers
    <3> QED
      BY <3>1, <3>2, <3>3
  <2>2. CASE c.ending = <<"closed">> /\ c.called = <<"open">>
    <3>1. c.state = "closed" /\ g = << >> /\ how = <<"close">>
      BY <1>8, <2>2 DEF Story
    <3>2. h = <<"open", "close", "terminated">>
      BY <2>2, <3>1, Handlers
    <3> QED
      BY <3>1, <3>2
  <2> QED
    BY <1>1, <1>8, <2>1, <2>2 DEF Story
<1> HIDE DEF g, h
<1>9. d \in Connection
  BY <1>1, <1>3, <1>5 DEF Connection
<1>10. /\ d.state = c.state /\ d.istate = c.istate /\ d.ec = c.ec
       /\ d.queue = c.queue /\ d.flag = c.flag /\ d.writing = c.writing
       /\ d.clean = c.clean /\ d.local = c.local /\ d.remote = c.remote
       /\ d.ending = g /\ d.called = h /\ d.got = c.got /\ (c.doubled => d.doubled) /\ d.app = c.app
       /\ d.acking = c.acking
  BY <1>1 DEF Connection
<1> HIDE DEF d, c
<1>11. Hears(c, d) /\ Speaks(c, d) /\ (Began(c) => Began(d)) /\ Shape(d)
  BY <1>7, <1>10 DEF Hears, Speaks, Told, Parted, Began, Shape
<1>12. Story(c) => Story(d)
  BY <1>8, <1>10 DEF Story
<1>13. StepOf(e, d)
  BY <1>1, <1>6, <1>9, <1>10, IsStep DEF c
<1> QED
  BY <1>1, <1>7, <1>11, <1>12, <1>13, QuietRule DEF c

-----------------------------------------------------------------------------
(* Steps that take a frame from the transport.                              *)

LEMMA OpenedFacts ==
  ASSUME NEW k \in Connection
  PROVE  LET d == Opened(k)
         IN /\ d \in Connection /\ Began(d) /\ d.state = "open"
            /\ d.called = Append(k.called, "open") /\ d.ec = k.ec
            /\ d.queue = k.queue /\ d.writing = k.writing /\ d.flag = k.flag
            /\ d.clean = k.clean /\ d.local = k.local /\ d.remote = k.remote
            /\ d.ending = k.ending /\ d.got = k.got /\ (k.doubled => d.doubled) /\ d.app = k.app /\ d.acking = k.acking
<1> DEFINE h == Append(k.called, "open")
           m == [k EXCEPT !.istate = "PROCESS_CONNECTION", !.state = "open", !.called = h]
           d == Opened(k)
<1>1. h \in Seq(Call)
  BY DEF Connection, Call
<1>2. "PROCESS_CONNECTION" \in InternalState /\ "open" \in State
  BY DEF InternalState, State
<1>3. d = read_frame(m)
  BY DEF Opened
<1> HIDE DEF h
<1>4. m \in Connection
  BY <1>1, <1>2 DEF Connection
<1>5. /\ Began(m) /\ m.state = "open"
      /\ m.called = h /\ m.ec = k.ec
      /\ m.queue = k.queue /\ m.writing = k.writing /\ m.flag = k.flag
      /\ m.clean = k.clean /\ m.local = k.local /\ m.remote = k.remote
      /\ m.ending = k.ending /\ m.got = k.got /\ (k.doubled => m.doubled) /\ m.app = k.app /\ m.acking = k.acking
  BY DEF Connection, Began
<1> HIDE DEF m, d
<1>6. d \in Connection /\ Still(m, d)
  BY <1>3, <1>4, Reading
<1> QED
  BY <1>5, <1>6 DEF Still, d, h

LEMMA OpenedKeeps ==
  ASSUME NEW c, NEW k \in Connection, Still(c, k), Shape(c), c.state = "connecting"
  PROVE  LET d == Opened(k)
         IN /\ d \in Connection /\ Hears(c, d) /\ Speaks(c, d) /\ Shape(d) /\ Began(d)
            /\ Story(c) => Story(d)
            /\ d.ec = c.ec
<1> DEFINE d == Opened(k)
<1>1. /\ d \in Connection /\ Began(d) /\ d.state = "open"
      /\ d.called = Append(k.called, "open") /\ d.ec = k.ec
      /\ d.queue = k.queue /\ d.writing = k.writing /\ d.flag = k.flag
      /\ d.clean = k.clean /\ d.local = k.local /\ d.remote = k.remote
      /\ d.ending = k.ending /\ d.got = k.got /\ (k.doubled => d.doubled) /\ d.app = k.app /\ d.acking = k.acking
  BY OpenedFacts
<1> HIDE DEF d
<1>2. Append(<< >>, "open") = <<"open">>
  OBVIOUS
<1>3. Hears(c, d) /\ Speaks(c, d)
  BY <1>1 DEF Still, Hears, Speaks, Told, Parted
<1>4. Shape(d)
  BY <1>1 DEF Still, Shape
<1>5. Story(c) => Story(d)
  BY ZenonT(30), <1>1, <1>2 DEF Still, Story
<1> QED
  BY <1>1, <1>3, <1>4, <1>5 DEF Still, d

LEMMA StillReads ==
  ASSUME WsInv, NEW e \in End, NEW d \in Connection, Becomes(e, d), Still(conn[e], d),
         to[e] # << >>, Head(to[e]).kind # "data" \/ conn[e].state \notin {"connecting", "open"},
         to' = [to EXCEPT ![e] = Tail(@)], UNCHANGED <<up, stale, sent, accepted>>,
         faults' = faults \/ Fault
  PROVE  WsInv'
<1>1. up' \in [End -> BOOLEAN] /\ stale' = stale /\ sent' = sent /\ accepted' = accepted
  BY DEF WsInv, WsTypes
<1>2. StepOf(e, d)
  BY <1>1, IsStep DEF Still
<1>3. /\ Hears(conn[e], d) /\ Speaks(conn[e], d) /\ Shape(d) /\ (~stale'[e] => Story(d))
      /\ Began(conn[e]) => Began(d)
  BY <1>1, Seen, StillKeeps DEF EndOK, Still
<1> QED
  BY <1>1, <1>2, <1>3, ReadRule

LEMMA TerminateReads ==
  ASSUME WsInv, NEW e \in End, NEW k \in Connection, Still(conn[e], k), NEW ec \in Reason,
         Becomes(e, terminate(k, ec)),
         to[e] # << >>, Head(to[e]).kind # "data",
         to' = [to EXCEPT ![e] = Tail(@)], UNCHANGED <<up, stale, sent, accepted>>,
         faults' = faults \/ Fault
  PROVE  WsInv'
<1> DEFINE d == terminate(k, ec)
<1>1. up' \in [End -> BOOLEAN] /\ stale' = stale /\ sent' = sent /\ accepted' = accepted
  BY DEF WsInv, WsTypes
<1>2. Shape(conn[e]) /\ (~stale[e] => Story(conn[e]))
  BY Seen DEF EndOK
<1>3. /\ d \in Connection /\ Hears(conn[e], d) /\ Speaks(conn[e], d) /\ Shape(d)
      /\ Story(conn[e]) => Story(d)
      /\ Began(d) <=> Began(conn[e])
      /\ d.ec = "none" => conn[e].ec = "none"
  BY <1>2, TerminateKeeps
<1>4. Becomes(e, d)
  OBVIOUS
<1> HIDE DEF d
<1>5. StepOf(e, d)
  BY <1>1, <1>3, <1>4, IsStep DEF Hears
<1> QED
  BY <1>1, <1>2, <1>3, <1>5, ReadRule

LEMMA ReadHandshakeKeeps ==
  ASSUME WsInv, handle_read_handshake
  PROVE  WsInv'
<1> DEFINE e == "server"
           c == [conn[e] EXCEPT !.reads = 0]
           st(s) == [c EXCEPT !.istate = "PROCESS_HTTP_REQUEST", !.status = s, !.reply = "response"]
           h1 == [st("ok") EXCEPT !.isHttp = TRUE]
           h2 == [st("ok") EXCEPT !.isHttp = TRUE, !.reply = "none", !.http = "deferred",
                                  !.timer = "none"]
<1>1. e \in End
  BY DEF End
<1>2. conn[e] \in Connection
  BY <1>1, Seen
<1>3. /\ to[e] # << >> /\ Head(to[e]).kind # "data" /\ to' = [to EXCEPT ![e] = Tail(@)]
      /\ UNCHANGED <<up, stale, sent, accepted>> /\ (faults' = faults \/ Fault)
      /\ c.istate = "READ_HTTP_REQUEST"
  BY DEF handle_read_handshake, Arrives
<1>4. \/ Becomes(e, st("switching_protocols")) \/ Becomes(e, st("bad_request"))
      \/ Becomes(e, h1) \/ Becomes(e, h2) \/ Becomes(e, c)
  BY DEF handle_read_handshake
<1>5. 0 \in Int /\ "PROCESS_HTTP_REQUEST" \in InternalState /\ "response" \in Reply
      /\ "none" \in Reply /\ "deferred" \in HttpState /\ "none" \in Timer
      /\ {"switching_protocols", "bad_request", "ok"} \subseteq Status
  BY DEF InternalState, Reply, HttpState, Timer, Status
<1>6. c \in Connection /\ Still(conn[e], c)
  BY <1>2, <1>5 DEF Connection, Still, Began
<1>7. ~Began(c)
  BY <1>3 DEF Began
<1> HIDE DEF c
<1>8. \A s \in {"switching_protocols", "bad_request", "ok"} : st(s) \in Connection /\ Still(c, st(s))
  <2> TAKE s \in {"switching_protocols", "bad_request", "ok"}
  <2>1. st(s) \in Connection
    BY <1>5, <1>6 DEF Connection
  <2>2. Still(c, st(s))
    BY <1>6, <1>7 DEF Connection, Still, Began
  <2> QED
    BY <2>1, <2>2
<1> DEFINE k == st("ok")
<1>9. k \in Connection /\ Still(c, k)
  BY <1>8
<1>10. h1 = [k EXCEPT !.isHttp = TRUE]
       /\ h2 = [k EXCEPT !.isHttp = TRUE, !.reply = "none", !.http = "deferred", !.timer = "none"]
  OBVIOUS
<1> HIDE DEF k, h1, h2, st
<1>11. h1 \in Connection /\ Still(k, h1)
  BY <1>9, <1>10 DEF Connection, Still, Began
<1>12. h2 \in Connection
  BY <1>5, <1>9, <1>10 DEF Connection
<1>13. Still(k, h2)
  BY <1>9, <1>10 DEF Connection, Still, Began
<1>14. /\ Still(conn[e], st("switching_protocols")) /\ Still(conn[e], st("bad_request"))
       /\ Still(conn[e], h1) /\ Still(conn[e], h2)
  BY <1>6, <1>8, <1>9, <1>11, <1>13 DEF Still
<1> QED
  BY <1>1, <1>3, <1>4, <1>6, <1>8, <1>11, <1>12, <1>14, StillReads

LEMMA ReadResponseKeeps ==
  ASSUME WsInv, handle_read_http_response
  PROVE  WsInv'
<1> DEFINE e == "client"
           c == [conn[e] EXCEPT !.reads = 0, !.timer = "none"]
           r == [conn[e] EXCEPT !.reads = 0]
<1>1. e \in End
  BY DEF End
<1>2. conn[e] \in Connection
  BY <1>1, Seen
<1>3. /\ to[e] # << >> /\ Head(to[e]).kind # "data" /\ to' = [to EXCEPT ![e] = Tail(@)]
      /\ UNCHANGED <<up, sent, accepted>> /\ (faults' = faults \/ Fault)
  BY DEF handle_read_http_response, Arrives
<1>4. \/ Becomes(e, Opened(c)) /\ c.state = "connecting" /\ stale' = stale
      \/ /\ Becomes(e, Opened(terminate(c, "extension_neg_failed"))) /\ c.state = "connecting"
         /\ stale' = [stale EXCEPT ![e] = TRUE]
      \/ Becomes(e, terminate(c, "invalid_http_status")) /\ stale' = stale
      \/ Becomes(e, r) /\ stale' = stale
  BY DEF handle_read_http_response
<1>5. 0 \in Int /\ "none" \in Timer /\ "extension_neg_failed" \in Reason
      /\ "invalid_http_status" \in Reason
  BY DEF Timer, Reason
<1>6. c \in Connection /\ r \in Connection
  BY <1>2, <1>5 DEF Connection
<1>7. Still(conn[e], c) /\ Still(conn[e], r)
  BY <1>2 DEF Connection, Still, Began
<1>8. Shape(conn[e]) /\ (~stale[e] => Story(conn[e]))
  BY <1>1, Seen DEF EndOK
<1>9. up' \in [End -> BOOLEAN]
  BY <1>3 DEF WsInv, WsTypes
<1> HIDE DEF c, r
<1>10. CASE Becomes(e, Opened(c)) /\ c.state = "connecting" /\ stale' = stale
  <2> DEFINE d == Opened(c)
  <2>1. conn[e].state = "connecting"
    BY <1>7, <1>10 DEF Still
  <2>2. /\ d \in Connection /\ Hears(conn[e], d) /\ Speaks(conn[e], d) /\ Shape(d) /\ Began(d)
        /\ Story(conn[e]) => Story(d)
        /\ d.ec = conn[e].ec
    BY <1>6, <1>7, <1>8, <2>1, OpenedKeeps
  <2>3. Becomes(e, d)
    BY <1>10
  <2> HIDE DEF d
  <2>4. StepOf(e, d)
    BY <1>1, <1>3, <1>9, <1>10, <2>2, <2>3, IsStep DEF Hears
  <2> QED
    BY <1>1, <1>3, <1>8, <1>10, <2>2, <2>4, ReadRule
<1>11. CASE /\ Becomes(e, Opened(terminate(c, "extension_neg_failed"))) /\ c.state = "connecting"
            /\ stale' = [stale EXCEPT ![e] = TRUE]
  <2> DEFINE t == terminate(c, "extension_neg_failed")
             d == Opened(t)
  <2>1. conn[e].state = "connecting"
    BY <1>7, <1>11 DEF Still
  <2>2. /\ t \in Connection /\ Hears(conn[e], t) /\ Speaks(conn[e], t) /\ Shape(t)
        /\ t.ec = "extension_neg_failed"
    BY <1>5, <1>6, <1>7, <1>8, TerminateKeeps, Terminated
  <2>3. Becomes(e, d)
    BY <1>11
  <2> HIDE DEF t
  <2>4. /\ d \in Connection /\ Began(d) /\ d.state = "open" /\ d.ec = t.ec
        /\ d.queue = t.queue /\ d.writing = t.writing /\ d.flag = t.flag
        /\ d.clean = t.clean /\ d.local = t.local /\ d.remote = t.remote
        /\ d.got = t.got /\ (t.doubled => d.doubled) /\ d.app = t.app /\ d.acking = t.acking
    BY <2>2, OpenedFacts
  <2> HIDE DEF d
  <2>5. Hears(conn[e], d) /\ Speaks(conn[e], d)
    BY <2>1, <2>2, <2>4 DEF Hears, Speaks, Told, Parted
  <2>6. Shape(d)
    BY <2>2, <2>4 DEF Shape
  <2>7. d.ec # "none"
    BY <2>2, <2>4
  <2>8. stale' = [stale EXCEPT ![e] = @ \/ TRUE] /\ stale'[e]
    BY <1>1, <1>11 DEF WsInv, WsTypes
  <2>9. StepOf(e, d)
    BY <1>1, <1>3, <1>9, <2>3, <2>4, <2>5, <2>7, <2>8, IsStep DEF Hears
  <2> QED
    BY <1>1, <1>3, <2>4, <2>5, <2>6, <2>8, <2>9, ReadRule
<1>12. CASE Becomes(e, terminate(c, "invalid_http_status")) /\ stale' = stale
  BY <1>1, <1>3, <1>5, <1>6, <1>7, <1>12, TerminateReads
<1>13. CASE Becomes(e, r) /\ stale' = stale
  BY <1>1, <1>3, <1>6, <1>7, <1>13, StillReads
<1> QED
  BY <1>4, <1>10, <1>11, <1>12, <1>13

LEMMA HandleMessageKeeps ==
  ASSUME WsInv, NEW e \in End, HandleMessage(e)
  PROVE  WsInv'
<1> DEFINE c == Received(e)
           f == Head(to[e])
           m == [c EXCEPT !.got = Append(@, f.code)]
<1>1. /\ to[e] # << >> /\ f.kind = "data" /\ to' = [to EXCEPT ![e] = Tail(@)]
      /\ UNCHANGED <<up, stale, sent, accepted, faults>> /\ Began(conn[e])
      /\ Becomes(e, read_frame(IF c.state = "open" THEN m ELSE c))
  BY DEF HandleMessage, Arrives, ReadsFrames, Began
<1>2. c \in Connection /\ Still(conn[e], c)
  BY ReceivedStill
<1>3. /\ to[e] \in Seq(WsFrame) /\ Shape(conn[e]) /\ (~stale[e] => Story(conn[e]))
  BY Seen DEF EndOK
<1>4. f \in WsFrame /\ f.code \in Nat
  BY <1>1, <1>3, TailFacts, FrameKinds
<1>5. up' \in [End -> BOOLEAN]
  BY <1>1 DEF WsInv, WsTypes
<1> HIDE DEF c, f
<1>6. CASE c.state = "open"
  <2> DEFINE d == read_frame(m)
             g == Append(c.got, f.code)
  <2>1. g \in Seq(Nat)
    BY <1>2, <1>4 DEF Connection
  <2>2. m = [c EXCEPT !.got = g]
    OBVIOUS
  <2> HIDE DEF g, m
  <2>3. m \in Connection
    BY <1>2, <2>1, <2>2 DEF Connection
  <2>4. /\ m.state = c.state /\ (Began(m) <=> Began(c)) /\ m.ec = c.ec
        /\ m.queue = c.queue /\ m.flag = c.flag /\ m.writing = c.writing
        /\ m.clean = c.clean /\ m.local = c.local /\ m.remote = c.remote
        /\ m.ending = c.ending /\ m.called = c.called /\ m.got = g /\ (c.doubled => m.doubled)
        /\ m.app = c.app /\ m.acking = c.acking
    BY <1>2, <2>2 DEF Connection, Began
  <2>5. d \in Connection /\ Still(m, d) /\ Becomes(e, d)
    BY <1>1, <1>6, <2>3, Reading
  <2> HIDE DEF d
  <2>6. /\ d.state = conn[e].state /\ d.ec = conn[e].ec /\ conn[e].state = "open"
        /\ (Began(d) <=> Began(conn[e]))
        /\ d.queue = conn[e].queue /\ d.flag = conn[e].flag /\ d.writing = conn[e].writing
        /\ d.clean = conn[e].clean /\ d.local = conn[e].local /\ d.remote = conn[e].remote
        /\ d.ending = conn[e].ending /\ d.called = conn[e].called
        /\ d.got = Append(conn[e].got, Head(to[e]).code) /\ (conn[e].doubled => d.doubled)
        /\ d.app = conn[e].app /\ d.acking = conn[e].acking
    BY <1>2, <1>6, <2>4, <2>5 DEF Still, g, f
  <2>7. StepOf(e, d)
    BY <1>1, <1>5, <2>5, <2>6, IsStep
  <2>8. Incoming(e, d, Tail(to[e]))
    BY <1>1, <2>6, <2>7, IncomingData DEF Told, f
  <2>9. Speaks(conn[e], d)
    BY <2>6 DEF Speaks, Parted
  <2>10. Outgoing(e, d, to[Other(e)], Len(accepted[e]))
    BY <2>7, <2>9, OutgoingSame
  <2>11. Shape(d) /\ (Story(conn[e]) => Story(d))
    BY <1>1, <1>3, <2>6 DEF Shape, Story
  <2>12. EndOK(d, sent'[e], accepted'[e], stale'[e])
    BY <1>1, <1>3, <2>6, <2>7, <2>9, <2>11, EndSame
  <2>13. to'[e] = Tail(to[e]) /\ to'[Other(e)] = to[Other(e)]
    BY <1>1, TwoEnds DEF WsInv, WsTypes
  <2> QED
    BY <1>1, <2>7, <2>8, <2>10, <2>12, <2>13, StepRule
<1>7. CASE c.state # "open"
  <2>1. read_frame(c) \in Connection /\ Still(conn[e], read_frame(c)) /\ Becomes(e, read_frame(c))
    BY <1>1, <1>2, <1>7, Reading DEF Still
  <2>2. conn[e].state \notin {"connecting", "open"}
    BY <1>1, <1>2, <1>3, <1>7 DEF Still, Shape
  <2> QED
    BY <1>1, <2>1, <2>2, StillReads
<1> QED
  BY <1>6, <1>7

LEMMA HandlePingKeeps ==
  ASSUME WsInv, NEW e \in End, HandlePing(e)
  PROVE  WsInv'
<1> DEFINE c == Received(e)
           f == Frame("pong", "none", FALSE)
           push == c.state = "open" /\ Head(to[e]).kind = "ping"
<1>1. /\ to[e] # << >> /\ Head(to[e]).kind # "data" /\ to' = [to EXCEPT ![e] = Tail(@)]
      /\ UNCHANGED <<up, stale, sent, accepted, faults>> /\ Began(conn[e])
      /\ Becomes(e, read_frame(IF push THEN write_push(c, f) ELSE c))
  BY DEF HandlePing, Arrives, ReadsFrames, Began
<1>2. c \in Connection /\ Still(conn[e], c)
  BY ReceivedStill
<1>3. Shape(conn[e]) /\ (~stale[e] => Story(conn[e]))
  BY Seen DEF EndOK
<1>4. f \in WsFrame /\ f.kind = "pong"
  BY DEF Frame, WsFrame, OtherKind, OtherCode, Status
<1>5. up' \in [End -> BOOLEAN]
  BY <1>1 DEF WsInv, WsTypes
<1>p. push => c.state = "open"
  OBVIOUS
<1> HIDE DEF c, f, push
<1>6. CASE push
  <2> DEFINE m == write_push(c, f)
             d == read_frame(m)
  <2>1. /\ m \in Connection /\ m.state = c.state /\ m.istate = c.istate
        /\ m.ec = c.ec /\ m.local = c.local
        /\ m.queue = Append(c.queue, f) /\ m.writing = c.writing /\ m.flag = c.flag
        /\ m.clean = c.clean /\ m.remote = c.remote /\ m.ending = c.ending
        /\ m.called = c.called /\ m.got = c.got /\ (c.doubled => m.doubled) /\ m.app = c.app /\ m.acking = c.acking
    BY <1>2, <1>4, Pushed
  <2>2. Becomes(e, d)
    BY <1>1, <1>6
  <2> HIDE DEF m
  <2>3. d \in Connection /\ Still(m, d)
    BY <2>1, Reading
  <2> HIDE DEF d
  <2>4. /\ d.state = conn[e].state /\ d.ec = conn[e].ec /\ conn[e].state = "open"
        /\ (Began(d) <=> Began(conn[e]))
        /\ d.queue = Append(conn[e].queue, f) /\ d.flag = conn[e].flag
        /\ d.writing = conn[e].writing
        /\ d.clean = conn[e].clean /\ d.local = conn[e].local /\ d.remote = conn[e].remote
        /\ d.ending = conn[e].ending /\ d.called = conn[e].called
        /\ d.got = conn[e].got /\ (conn[e].doubled => d.doubled) /\ d.app = conn[e].app /\ d.acking = conn[e].acking
    BY <1>2, <1>6, <1>p, <2>1, <2>3 DEF Still, Began
  <2>5. StepOf(e, d)
    BY <1>1, <1>5, <2>2, <2>3, <2>4, IsStep
  <2>6. to'[e] = Tail(to[e]) /\ to'[Other(e)] = to[Other(e)]
    BY <1>1, TwoEnds DEF WsInv, WsTypes
  <2>7. Hears(conn[e], d)
    BY <2>4 DEF Hears, Told
  <2>8. Incoming(e, d, to'[e])
    BY <1>1, <2>5, <2>6, <2>7, IncomingTail
  <2>9. Shape(d) /\ Began(d) /\ (Story(conn[e]) => Story(d))
    BY <1>1, <1>3, <2>4 DEF Shape, Story
  <2> QED
    BY <1>1, <1>3, <1>4, <2>4, <2>5, <2>6, <2>8, <2>9, PushRule
<1>7. CASE ~push
  <2>1. read_frame(c) \in Connection /\ Still(conn[e], read_frame(c)) /\ Becomes(e, read_frame(c))
    BY <1>1, <1>2, <1>7, Reading DEF Still
  <2> QED
    BY <1>1, <2>1, StillReads
<1> QED
  BY <1>6, <1>7

LEMMA HandleCloseKeeps ==
  ASSUME WsInv, NEW e \in End, HandleClose(e)
  PROVE  WsInv'
<1> DEFINE c == Received(e)
           code == Head(to[e]).code
           d(a) == [c EXCEPT !.remote = code, !.acking = a]
<1>1. /\ to[e] # << >> /\ Head(to[e]).kind = "close" /\ to' = [to EXCEPT ![e] = Tail(@)]
      /\ UNCHANGED <<up, stale, sent, accepted, faults>> /\ Began(conn[e])
  BY DEF HandleClose, Arrives, ReadsFrames, Began
<1>a. \/ Becomes(e, read_frame(c)) \/ Becomes(e, d("bad")) \/ Becomes(e, d("open"))
      \/ Becomes(e, d("closing")) \/ Becomes(e, d("ignored"))
  BY DEF HandleClose
<1>2. c \in Connection /\ Still(conn[e], c)
  BY ReceivedStill
<1>3. to[e] \in Seq(WsFrame) /\ Shape(conn[e]) /\ (~stale[e] => Story(conn[e]))
  BY Seen DEF EndOK
<1>4. code \in CloseCode
  BY <1>1, <1>3, TailFacts, FrameKinds
<1>5. up' \in [End -> BOOLEAN]
  BY <1>1 DEF WsInv, WsTypes
<1> HIDE DEF c, code
<1>6. CASE Becomes(e, read_frame(c))
  <2>1. read_frame(c) \in Connection /\ Still(conn[e], read_frame(c))
    BY <1>2, Reading DEF Still
  <2>2. Head(to[e]).kind # "data"
    BY <1>1
  <2> QED
    BY <1>1, <1>6, <2>1, <2>2, StillReads
<1>7. ASSUME NEW a \in Acking, Becomes(e, d(a))
      PROVE  WsInv'
  <2> DEFINE x == d(a)
  <2>1. x \in Connection
    BY <1>2, <1>4 DEF Connection
  <2>2. /\ x.state = conn[e].state /\ x.ec = conn[e].ec /\ (Began(x) <=> Began(conn[e]))
        /\ x.queue = conn[e].queue /\ x.flag = conn[e].flag /\ x.writing = conn[e].writing
        /\ x.clean = conn[e].clean /\ x.local = conn[e].local /\ x.remote = code
        /\ x.ending = conn[e].ending /\ x.called = conn[e].called
        /\ x.got = conn[e].got /\ (conn[e].doubled => x.doubled) /\ x.app = conn[e].app
    BY <1>2 DEF Connection, Still, Began
  <2>3. Becomes(e, x)
    BY <1>7
  <2> HIDE DEF x
  <2>4. StepOf(e, x)
    BY <1>1, <1>5, <2>1, <2>2, <2>3, IsStep
  <2>5. Incoming(e, x, Tail(to[e]))
    BY <1>1, <2>2, <2>4, IncomingClose DEF code
  <2>6. Speaks(conn[e], x)
    BY <2>2 DEF Speaks, Parted
  <2>7. Outgoing(e, x, to[Other(e)], Len(accepted[e]))
    BY <2>4, <2>6, OutgoingSame
  <2>8. Shape(x) /\ (Story(conn[e]) => Story(x))
    BY <1>1, <1>3, <2>2 DEF Shape, Story
  <2>9. EndOK(x, sent'[e], accepted'[e], stale'[e])
    BY <1>1, <1>3, <2>2, <2>4, <2>6, <2>8, EndSame
  <2>10. to'[e] = Tail(to[e]) /\ to'[Other(e)] = to[Other(e)]
    BY <1>1, TwoEnds DEF WsInv, WsTypes
  <2> QED
    BY <1>1, <2>4, <2>5, <2>7, <2>9, <2>10, StepRule
<1>8. {"bad", "open", "closing", "ignored"} \subseteq Acking
  BY DEF Acking
<1> QED
  BY <1>a, <1>6, <1>7, <1>8

LEMMA HandleGarbageKeeps ==
  ASSUME WsInv, NEW e \in End, HandleGarbage(e)
  PROVE  WsInv'
<1> DEFINE c == Received(e)
           d == send_close_frame(c, "protocol_error", FALSE, TRUE)
<1>1. /\ to[e] # << >> /\ Head(to[e]).kind # "data" /\ to' = [to EXCEPT ![e] = Tail(@)]
      /\ UNCHANGED <<up, stale, sent, accepted, faults>> /\ Began(conn[e])
      /\ Becomes(e, IF c.state = "open" THEN d ELSE terminate(c, "invalid_state"))
  BY DEF HandleGarbage, Arrives, ReadsFrames, Began
<1>2. c \in Connection /\ Still(conn[e], c)
  BY ReceivedStill
<1>3. Shape(conn[e]) /\ (~stale[e] => Story(conn[e]))
  BY Seen DEF EndOK
<1>4. /\ "protocol_error" \in CloseCode \cup {"blank"} /\ "invalid_state" \in Reason
      /\ "protocol_error" = "blank" => FALSE
  BY DEF CloseCode, Code, Reason
<1>5. up' \in [End -> BOOLEAN]
  BY <1>1 DEF WsInv, WsTypes
<1> HIDE DEF c
<1>6. CASE c.state = "open"
  <2>1. /\ d \in Connection /\ d.state = "closing" /\ d.istate = c.istate
        /\ d.ec = c.ec
        /\ \E f \in WsFrame : /\ f.kind = "close" /\ f.code = d.local
                              /\ d.queue = Append(c.queue, f)
        /\ d.writing = c.writing /\ d.flag = c.flag
        /\ (d.clean <=> (c.clean \/ FALSE)) /\ d.remote = c.remote /\ d.ending = c.ending
        /\ d.called = c.called /\ d.got = c.got /\ (c.doubled => d.doubled) /\ d.app = c.app /\ d.acking = c.acking
    BY <1>2, <1>4, CloseSent
  <2>2. PICK f \in WsFrame : f.kind = "close" /\ f.code = d.local /\ d.queue = Append(c.queue, f)
    BY <2>1
  <2>3. Becomes(e, d)
    BY <1>1, <1>6
  <2> HIDE DEF d
  <2>4. /\ d.ec = conn[e].ec /\ conn[e].state = "open" /\ (Began(d) <=> Began(conn[e]))
        /\ d.queue = Append(conn[e].queue, f) /\ d.flag = conn[e].flag
        /\ d.writing = conn[e].writing
        /\ (d.clean <=> conn[e].clean) /\ d.remote = conn[e].remote
        /\ d.ending = conn[e].ending /\ d.called = conn[e].called
        /\ d.got = conn[e].got /\ (conn[e].doubled => d.doubled) /\ d.app = conn[e].app /\ d.acking = conn[e].acking
    BY <1>2, <1>6, <2>1, <2>2 DEF Still, Began
  <2>5. StepOf(e, d)
    BY <1>1, <1>5, <2>1, <2>3, <2>4, IsStep
  <2>6. to'[e] = Tail(to[e]) /\ to'[Other(e)] = to[Other(e)]
    BY <1>1, TwoEnds DEF WsInv, WsTypes
  <2>7. Hears(conn[e], d)
    BY <2>1, <2>4 DEF Hears, Told
  <2>8. Incoming(e, d, to'[e])
    BY <1>1, <2>5, <2>6, <2>7, IncomingTail
  <2>9. Shape(d) /\ Began(d) /\ (Story(conn[e]) => Story(d))
    BY <1>1, <1>3, <2>1, <2>4 DEF Shape, Story
  <2>10. f.kind # "data"
    BY <2>2
  <2> QED
    BY <1>1, <1>3, <2>1, <2>2, <2>4, <2>5, <2>6, <2>8, <2>9, <2>10, PushRule
<1>7. CASE c.state # "open"
  BY <1>1, <1>2, <1>4, <1>7, TerminateReads
<1> QED
  BY <1>6, <1>7

LEMMA Answered ==
  ASSUME NEW m \in Connection
  PROVE  LET d == read_frame([m EXCEPT !.acking = "no"])
         IN /\ d \in Connection /\ d.state = m.state /\ (Began(d) <=> Began(m)) /\ d.ec = m.ec
            /\ d.queue = m.queue /\ d.flag = m.flag /\ d.writing = m.writing
            /\ d.clean = m.clean /\ d.local = m.local /\ d.remote = m.remote
            /\ d.ending = m.ending /\ d.called = m.called /\ d.got = m.got /\ (m.doubled => d.doubled)
            /\ d.app = m.app /\ d.acking = "no"
<1> DEFINE k == [m EXCEPT !.acking = "no"]
<1>1. k \in Connection
  BY DEF Connection, Acking
<1>2. /\ k.state = m.state /\ (Began(k) <=> Began(m)) /\ k.ec = m.ec
      /\ k.queue = m.queue /\ k.flag = m.flag /\ k.writing = m.writing
      /\ k.clean = m.clean /\ k.local = m.local /\ k.remote = m.remote
      /\ k.ending = m.ending /\ k.called = m.called /\ k.got = m.got /\ (m.doubled => k.doubled)
      /\ k.app = m.app /\ k.acking = "no"
  BY DEF Connection, Began
<1> HIDE DEF k
<1>3. read_frame(k) \in Connection /\ Still(k, read_frame(k))
  BY <1>1, Reading
<1>4. LET d == read_frame(k)
      IN /\ d \in Connection /\ d.state = m.state /\ (Began(d) <=> Began(m)) /\ d.ec = m.ec
         /\ d.queue = m.queue /\ d.flag = m.flag /\ d.writing = m.writing
         /\ d.clean = m.clean /\ d.local = m.local /\ d.remote = m.remote
         /\ d.ending = m.ending /\ d.called = m.called /\ d.got = m.got /\ (m.doubled => d.doubled)
         /\ d.app = m.app /\ d.acking = "no"
  BY <1>2, <1>3 DEF Still
<1> QED
  BY <1>4 DEF k

LEMMA AcknowledgeKeeps ==
  ASSUME WsInv, NEW e \in End, Acknowledge(e)
  PROVE  WsInv'
<1> DEFINE c == conn[e]
           last == e = "server"
           ack(code) == send_close_frame(c, code, TRUE, last)
           k == [c EXCEPT !.clean = TRUE]
           done(m) == read_frame([m EXCEPT !.acking = "no"])
           b == (c.acking = "open" /\ c.state # "open") \/ (c.acking = "bad" /\ c.state # "open")
<1>1. c.acking # "no" /\ UNCHANGED <<up, to, sent, accepted, faults>>
  BY DEF Acknowledge
<1>2. \/ c.acking = "bad" /\ Becomes(e, done(ack("protocol_error")))
      \/ c.acking = "open" /\ Becomes(e, done(ack("blank")))
      \/ c.acking = "closing" /\ Becomes(e, done(terminate(k, "none")))
      \/ c.acking = "closing" /\ Becomes(e, done(k))
      \/ c.acking \notin {"open", "bad"} /\ Becomes(e, done(c))
  BY DEF Acknowledge, AnswerClose, send_close_ack
<1>3. c \in Connection /\ Shape(c) /\ (~stale[e] => Story(c))
  BY Seen DEF EndOK
<1>4. Began(c)
  BY <1>1, <1>3 DEF Shape
<1>5. up' \in [End -> BOOLEAN] /\ stale \in [End -> BOOLEAN]
  BY <1>1 DEF WsInv, WsTypes
<1>6. /\ b \in BOOLEAN /\ stale' = [stale EXCEPT ![e] = @ \/ b]
      /\ stale'[e] = (stale[e] \/ b)
  <2>1. stale' = [stale EXCEPT ![e] = stale[e] \/ b]
    BY DEF Acknowledge
  <2>2. b \in BOOLEAN
    OBVIOUS
  <2> HIDE DEF b
  <2> QED
    BY <1>5, <2>1, <2>2
<1>7. b <=> c.acking \in {"open", "bad"} /\ c.state # "open"
  OBVIOUS
<1> HIDE DEF c, b
<1>8. ASSUME NEW code \in CloseCode \cup {"blank"}, c.acking \in {"open", "bad"},
             Becomes(e, done(ack(code)))
      PROVE  WsInv'
  <2> DEFINE m == ack(code)
             d == done(m)
  <2>1. /\ m \in Connection /\ m.state = "closing" /\ m.istate = c.istate /\ m.ec = c.ec
        /\ \E f \in WsFrame : /\ f.kind = "close" /\ f.code = m.local
                              /\ m.queue = Append(c.queue, f)
        /\ m.writing = c.writing /\ m.flag = c.flag
        /\ m.remote = c.remote /\ m.ending = c.ending
        /\ m.called = c.called /\ m.got = c.got /\ (c.doubled => m.doubled) /\ m.app = c.app
    <3>1. \/ m = send_close_frame(c, code, TRUE, TRUE)
          \/ m = send_close_frame(c, code, TRUE, FALSE)
      <4>1. last = TRUE \/ last = FALSE
        OBVIOUS
      <4> HIDE DEF last
      <4> QED
        BY <4>1
    <3> HIDE DEF m
    <3>2. CASE m = send_close_frame(c, code, TRUE, TRUE)
      <4>1. LET x == send_close_frame(c, code, TRUE, TRUE)
            IN /\ x \in Connection /\ x.state = "closing" /\ x.istate = c.istate
               /\ x.ec = c.ec
               /\ \E f \in WsFrame : /\ f.kind = "close" /\ f.code = x.local
                                    /\ x.queue = Append(c.queue, f)
               /\ x.writing = c.writing /\ x.flag = c.flag
               /\ (x.clean <=> (c.clean \/ TRUE)) /\ x.remote = c.remote /\ x.ending = c.ending
               /\ x.called = c.called /\ x.got = c.got /\ (c.doubled => x.doubled) /\ x.app = c.app /\ x.acking = c.acking
        BY <1>3, CloseSent
      <4> QED
        BY <3>2, <4>1
    <3>3. CASE m = send_close_frame(c, code, TRUE, FALSE)
      <4>1. LET x == send_close_frame(c, code, TRUE, FALSE)
            IN /\ x \in Connection /\ x.state = "closing" /\ x.istate = c.istate
               /\ x.ec = c.ec
               /\ \E f \in WsFrame : /\ f.kind = "close" /\ f.code = x.local
                                    /\ x.queue = Append(c.queue, f)
               /\ x.writing = c.writing /\ x.flag = c.flag
               /\ (x.clean <=> (c.clean \/ TRUE)) /\ x.remote = c.remote /\ x.ending = c.ending
               /\ x.called = c.called /\ x.got = c.got /\ (c.doubled => x.doubled) /\ x.app = c.app /\ x.acking = c.acking
        BY <1>3, CloseSent
      <4> QED
        BY <3>3, <4>1
    <3> QED
      BY <3>1, <3>2, <3>3
  <2>2. PICK f \in WsFrame : f.kind = "close" /\ f.code = m.local /\ m.queue = Append(c.queue, f)
    BY <2>1
  <2> HIDE DEF m
  <2>3. /\ d \in Connection /\ d.state = m.state /\ (Began(d) <=> Began(m)) /\ d.ec = m.ec
        /\ d.queue = m.queue /\ d.flag = m.flag /\ d.writing = m.writing
        /\ d.clean = m.clean /\ d.local = m.local /\ d.remote = m.remote
        /\ d.ending = m.ending /\ d.called = m.called /\ d.got = m.got /\ (m.doubled => d.doubled)
        /\ d.app = m.app /\ d.acking = "no"
    BY <2>1, Answered
  <2>4. Becomes(e, d)
    BY <1>8 DEF m
  <2> HIDE DEF d
  <2>5. /\ d.ec = c.ec /\ Began(d) /\ d.state = "closing"
        /\ d.queue = Append(c.queue, f) /\ d.flag = c.flag /\ d.writing = c.writing
        /\ d.remote = c.remote /\ d.ending = c.ending /\ d.called = c.called /\ d.got = c.got /\ (c.doubled => d.doubled)
    BY <1>4, <2>1, <2>2, <2>3 DEF Began
  <2>6. StepOf(e, d)
    BY <1>1, <1>5, <1>6, <2>3, <2>4, <2>5, IsStep DEF c
  <2>7. ~stale'[e] => ~stale[e] /\ c.state = "open"
    BY <1>6, <1>7, <1>8
  <2>8. Hears(c, d)
    BY <1>1, <2>5 DEF Hears, Told
  <2>9. Incoming(e, d, to'[e])
    BY <1>1, <2>6, <2>8, IncomingSame DEF c
  <2>10. Shape(d)
    BY <1>3, <2>5 DEF Shape
  <2>11. ~stale'[e] => Story(d)
    BY <1>3, <2>5, <2>7 DEF Story
  <2>12. f.kind # "data" /\ f.code = d.local
    BY <2>2, <2>3
  <2> QED
    BY <1>1, <2>2, <2>5, <2>6, <2>7, <2>9, <2>10, <2>11, <2>12, PushRule DEF c
<1>9. ASSUME NEW m \in Connection, m.state = c.state \/ m.state = "closed",
             Began(m), m.ec = c.ec, m.queue = c.queue, m.flag = c.flag, m.writing = c.writing,
             m.local = c.local, m.remote = c.remote, m.got = c.got /\ (c.doubled => m.doubled), m.app = c.app,
             Story(c) => Story(m), Becomes(e, done(m))
      PROVE  WsInv'
  <2> DEFINE d == done(m)
  <2>1. /\ d \in Connection /\ d.state = m.state /\ (Began(d) <=> Began(m)) /\ d.ec = m.ec
        /\ d.queue = m.queue /\ d.flag = m.flag /\ d.writing = m.writing
        /\ d.clean = m.clean /\ d.local = m.local /\ d.remote = m.remote
        /\ d.ending = m.ending /\ d.called = m.called /\ d.got = m.got /\ (m.doubled => d.doubled)
        /\ d.app = m.app /\ d.acking = "no"
    BY Answered
  <2>2. Becomes(e, d)
    BY <1>9
  <2> HIDE DEF d
  <2>3. StepOf(e, d)
    BY <1>1, <1>5, <1>6, <1>9, <2>1, <2>2, IsStep DEF c
  <2>4. Hears(c, d) /\ Speaks(c, d)
    BY <1>1, <1>9, <2>1 DEF Hears, Speaks, Told, Parted
  <2>5. Shape(d) /\ (Story(m) => Story(d))
    BY <1>3, <1>4, <1>9, <2>1 DEF Shape, Story
  <2>6. ~stale'[e] => Story(d)
    BY <1>3, <1>6, <1>9, <2>5
  <2> QED
    BY <1>1, <1>4, <1>9, <2>1, <2>3, <2>4, <2>5, <2>6, QuietRule DEF c
<1>10. k \in Connection
  BY <1>3 DEF Connection
<1>11. /\ k.state = c.state /\ Began(k) /\ k.ec = c.ec /\ k.istate = c.istate
       /\ k.queue = c.queue /\ k.flag = c.flag /\ k.writing = c.writing
       /\ k.local = c.local /\ k.remote = c.remote /\ k.got = c.got /\ (c.doubled => k.doubled) /\ k.app = c.app
       /\ k.ending = c.ending /\ k.called = c.called
  BY <1>3, <1>4 DEF Connection, Began
<1>12. Story(c) => Story(k)
  BY <1>11 DEF Story
<1> HIDE DEF k
<1> DEFINE t == terminate(k, "none")
<1>13. /\ t \in Connection /\ t.state = "closed" /\ t.istate = k.istate /\ t.ec = k.ec
       /\ t.local = k.local
       /\ t.queue = k.queue /\ t.writing = k.writing /\ t.flag = k.flag
       /\ t.remote = k.remote /\ t.got = k.got /\ (k.doubled => t.doubled) /\ t.app = k.app
  BY <1>10, Terminated DEF Reason
<1>14. Story(k) => Story(t)
  <2>1. Shape(k) /\ Still(k, k) /\ "none" \in Reason
    BY <1>3, <1>4, <1>11 DEF Shape, Still, Reason
  <2> QED
    BY <1>10, <2>1, TerminateKeeps
<1> HIDE DEF t
<1>15. Began(t)
  BY <1>11, <1>13 DEF Began
<1>16. Becomes(e, done(t)) => WsInv'
  BY <1>9, <1>11, <1>12, <1>13, <1>14, <1>15
<1>17. Becomes(e, done(k)) => WsInv'
  BY <1>9, <1>10, <1>11, <1>12
<1>18. Becomes(e, done(c)) => WsInv'
  BY <1>3, <1>4, <1>9
<1>19. "blank" \in CloseCode \cup {"blank"} /\ "protocol_error" \in CloseCode \cup {"blank"}
  BY DEF CloseCode, Code
<1> HIDE DEF done, ack
<1> QED
  BY <1>2, <1>8, <1>16, <1>17, <1>18, <1>19 DEF t

-----------------------------------------------------------------------------
(* The application's calls.                                                 *)

LEMMA AppReturns ==
  ASSUME WsInv, NEW e \in End, conn[e].app # "idle", NEW a \in App
  PROVE  LET k == [conn[e] EXCEPT !.app = a]
         IN /\ k \in Connection /\ k.state = conn[e].state /\ Began(k) /\ k.ec = conn[e].ec
            /\ k.istate = conn[e].istate
            /\ k.queue = conn[e].queue /\ k.flag = conn[e].flag /\ k.writing = conn[e].writing
            /\ k.clean = conn[e].clean /\ k.local = conn[e].local /\ k.remote = conn[e].remote
            /\ k.ending = conn[e].ending /\ k.called = conn[e].called /\ k.got = conn[e].got /\ (conn[e].doubled => k.doubled)
            /\ k.acking = conn[e].acking
<1>1. conn[e] \in Connection /\ Shape(conn[e])
  BY Seen DEF EndOK
<1>2. Began(conn[e])
  BY <1>1 DEF Shape
<1> QED
  BY <1>1, <1>2 DEF Connection, Began

LEMMA StaleTest ==
  ASSUME WsInv, NEW e \in End, stale' = [stale EXCEPT ![e] = @ \/ conn[e].state # "open"]
  PROVE  /\ \E b \in BOOLEAN : stale' = [stale EXCEPT ![e] = @ \/ b]
         /\ ~stale'[e] => ~stale[e] /\ conn[e].state = "open"
         /\ stale' \in [End -> BOOLEAN] /\ stale'[Other(e)] = stale[Other(e)]
         /\ stale[e] => stale'[e]
<1> DEFINE b == conn[e].state # "open"
<1>1. b \in BOOLEAN /\ stale' = [stale EXCEPT ![e] = @ \/ b] /\ stale \in [End -> BOOLEAN]
  BY DEF WsInv, WsTypes
<1>2. b \/ conn[e].state = "open"
  OBVIOUS
<1> HIDE DEF b
<1>3. stale'[e] = (stale[e] \/ b)
  BY <1>1
<1> QED
  BY <1>1, <1>2, <1>3, TwoEnds

LEMMA SendKeeps ==
  ASSUME WsInv, NEW e \in End, send(e)
  PROVE  WsInv'
<1> DEFINE n == Len(accepted[e]) + 1
           k == [conn[e] EXCEPT !.app = "idle"]
           f == Frame("data", n, FALSE)
           d == write_push(k, f)
<1>1. /\ conn[e].app # "idle" /\ Becomes(e, d) /\ accepted' = [accepted EXCEPT ![e] = Append(@, n)]
      /\ stale' = [stale EXCEPT ![e] = @ \/ conn[e].state # "open"]
      /\ UNCHANGED <<up, to, sent, faults>>
  BY DEF send
<1>2. /\ k \in Connection /\ k.state = conn[e].state /\ Began(k) /\ k.ec = conn[e].ec
      /\ k.queue = conn[e].queue /\ k.flag = conn[e].flag /\ k.writing = conn[e].writing
      /\ k.clean = conn[e].clean /\ k.local = conn[e].local /\ k.remote = conn[e].remote
      /\ k.ending = conn[e].ending /\ k.called = conn[e].called /\ k.got = conn[e].got /\ (conn[e].doubled => k.doubled)
      /\ k.acking = conn[e].acking /\ k.istate = conn[e].istate
  BY <1>1, AppReturns DEF App
<1>3. accepted[e] \in Seq(Nat) /\ Len(accepted[e]) \in Nat /\ Shape(conn[e])
      /\ (~stale[e] => Story(conn[e]))
  BY Seen DEF EndOK
<1>4. f \in WsFrame /\ f.kind = "data" /\ f.code = n
  BY <1>3 DEF Frame, WsFrame
<1> HIDE DEF f, k
<1>5. /\ d \in Connection /\ d.state = k.state /\ d.istate = k.istate
      /\ d.ec = k.ec /\ d.local = k.local
      /\ d.queue = Append(k.queue, f) /\ d.writing = k.writing /\ d.flag = k.flag
      /\ d.clean = k.clean /\ d.remote = k.remote /\ d.ending = k.ending
      /\ d.called = k.called /\ d.got = k.got /\ (k.doubled => d.doubled) /\ d.app = k.app /\ d.acking = k.acking
  BY <1>2, <1>4, Pushed
<1> HIDE DEF d
<1>6. /\ accepted' \in [End -> Seq(Nat)] /\ accepted'[e] = Append(accepted[e], n)
      /\ accepted'[Other(e)] = accepted[Other(e)]
  <2>1. accepted \in [End -> Seq(Nat)] /\ Append(accepted[e], n) \in Seq(Nat)
    BY <1>3 DEF WsInv, WsTypes
  <2> QED
    BY <1>1, <2>1, TwoEnds
<1>7. StepOf(e, d)
  <2>1. /\ stale' \in [End -> BOOLEAN] /\ stale'[Other(e)] = stale[Other(e)]
        /\ stale[e] => stale'[e]
    BY <1>1, StaleTest
  <2>2. /\ up' \in [End -> BOOLEAN] /\ to' \in [End -> Seq(WsFrame)]
        /\ sent' \in [End -> Seq(WsFrame)] /\ faults' \in Nat /\ faults' >= faults
        /\ sent'[Other(e)] = sent[Other(e)]
    BY <1>1 DEF WsInv, WsTypes
  <2>3. conn' = [conn EXCEPT ![e] = d] /\ d.ec = conn[e].ec /\ (conn[e].doubled => d.doubled)
    BY <1>1, <1>2, <1>5 DEF Becomes
  <2> QED
    BY <1>5, <1>6, <2>1, <2>2, <2>3 DEF StepOf
<1>8. Hears(conn[e], d)
  BY <1>2, <1>5 DEF Hears, Told
<1>9. Began(d) /\ Shape(d) /\ (Story(conn[e]) => Story(d))
  <2>1. Began(d)
    BY <1>2, <1>5 DEF Began
  <2>2. Shape(d)
    <3>1. Began(conn[e])
      BY <1>2 DEF Began
    <3> QED
      BY <1>2, <1>3, <1>5, <2>1, <3>1 DEF Shape
  <2>3. Story(conn[e]) => Story(d)
    BY <1>2, <1>5 DEF Story
  <2> QED
    BY <2>1, <2>2, <2>3
<1>10. ~stale'[e] => conn[e].state = "open" /\ Story(d)
  BY <1>1, <1>3, <1>9, StaleTest
<1> QED
  BY <1>1, <1>2, <1>4, <1>5, <1>6, <1>7, <1>8, <1>9, <1>10, SendRule

LEMMA PingKeeps ==
  ASSUME WsInv, NEW e \in End, ping(e)
  PROVE  WsInv'
<1> DEFINE k == [conn[e] EXCEPT !.app = "idle"]
           f == Frame("ping", "none", FALSE)
           d == write_push(k, f)
<1>1. /\ conn[e].app # "idle" /\ Becomes(e, d)
      /\ stale' = [stale EXCEPT ![e] = @ \/ conn[e].state # "open"]
      /\ UNCHANGED <<up, to, sent, accepted, faults>>
  BY DEF ping
<1>2. /\ k \in Connection /\ k.state = conn[e].state /\ Began(k) /\ k.ec = conn[e].ec
      /\ k.queue = conn[e].queue /\ k.flag = conn[e].flag /\ k.writing = conn[e].writing
      /\ k.clean = conn[e].clean /\ k.local = conn[e].local /\ k.remote = conn[e].remote
      /\ k.ending = conn[e].ending /\ k.called = conn[e].called /\ k.got = conn[e].got /\ (conn[e].doubled => k.doubled)
      /\ k.acking = conn[e].acking /\ k.istate = conn[e].istate
  BY <1>1, AppReturns DEF App
<1>3. Shape(conn[e]) /\ (~stale[e] => Story(conn[e]))
  BY Seen DEF EndOK
<1>4. f \in WsFrame /\ f.kind = "ping"
  BY DEF Frame, WsFrame, OtherKind, OtherCode, Status
<1> HIDE DEF f, k
<1>5. /\ d \in Connection /\ d.state = k.state /\ d.istate = k.istate
      /\ d.ec = k.ec /\ d.local = k.local
      /\ d.queue = Append(k.queue, f) /\ d.writing = k.writing /\ d.flag = k.flag
      /\ d.clean = k.clean /\ d.remote = k.remote /\ d.ending = k.ending
      /\ d.called = k.called /\ d.got = k.got /\ (k.doubled => d.doubled) /\ d.app = k.app /\ d.acking = k.acking
  BY <1>2, <1>4, Pushed
<1> HIDE DEF d
<1>6. up' \in [End -> BOOLEAN]
  BY <1>1 DEF WsInv, WsTypes
<1>7. StepOf(e, d)
  BY <1>1, <1>2, <1>5, <1>6, StaleTest, IsStep
<1>8. Hears(conn[e], d)
  BY <1>2, <1>5 DEF Hears, Told
<1>9. Began(d) /\ Shape(d) /\ (Story(conn[e]) => Story(d))
  <2>1. Began(d)
    BY <1>2, <1>5 DEF Began
  <2>2. Shape(d)
    <3>1. Began(conn[e])
      BY <1>2 DEF Began
    <3> QED
      BY <1>2, <1>3, <1>5, <2>1, <3>1 DEF Shape
  <2>3. Story(conn[e]) => Story(d)
    BY <1>2, <1>5 DEF Story
  <2> QED
    BY <2>1, <2>2, <2>3
<1>10. ~stale'[e] => conn[e].state = "open" /\ Story(d)
  BY <1>1, <1>3, <1>9, StaleTest
<1>11. Incoming(e, d, to'[e])
  BY <1>1, <1>7, <1>8, IncomingSame
<1> QED
  BY <1>1, <1>2, <1>4, <1>5, <1>7, <1>9, <1>10, <1>11, PushRule

LEMMA CloseKeeps ==
  ASSUME WsInv, NEW e \in End, NEW code \in {"normal", "no_status"}, close(e, code)
  PROVE  WsInv'
<1> DEFINE k == [conn[e] EXCEPT !.app = "done"]
           d == send_close_frame(k, code, FALSE, FALSE)
<1>1. /\ conn[e].app # "idle" /\ Becomes(e, d)
      /\ stale' = [stale EXCEPT ![e] = @ \/ conn[e].state # "open"]
      /\ UNCHANGED <<up, to, sent, accepted, faults>>
  <2>1. (code = "protocol_error") = FALSE
    OBVIOUS
  <2> QED
    BY <2>1 DEF close
<1>2. /\ k \in Connection /\ k.state = conn[e].state /\ Began(k) /\ k.ec = conn[e].ec
      /\ k.queue = conn[e].queue /\ k.flag = conn[e].flag /\ k.writing = conn[e].writing
      /\ k.clean = conn[e].clean /\ k.local = conn[e].local /\ k.remote = conn[e].remote
      /\ k.ending = conn[e].ending /\ k.called = conn[e].called /\ k.got = conn[e].got /\ (conn[e].doubled => k.doubled)
      /\ k.acking = conn[e].acking /\ k.istate = conn[e].istate
  BY <1>1, AppReturns DEF App
<1>3. Shape(conn[e]) /\ (~stale[e] => Story(conn[e]))
  BY Seen DEF EndOK
<1>4. /\ code \in CloseCode \cup {"blank"} /\ (code = "blank" => FALSE)
  BY DEF CloseCode, Code
<1> HIDE DEF k
<1>5. /\ d \in Connection /\ d.state = "closing" /\ d.istate = k.istate
      /\ d.ec = k.ec
      /\ \E f \in WsFrame : /\ f.kind = "close" /\ f.code = d.local
                            /\ d.queue = Append(k.queue, f)
      /\ d.writing = k.writing /\ d.flag = k.flag
      /\ (d.clean <=> (k.clean \/ FALSE)) /\ d.remote = k.remote /\ d.ending = k.ending
      /\ d.called = k.called /\ d.got = k.got /\ (k.doubled => d.doubled) /\ d.app = k.app /\ d.acking = k.acking
  BY <1>2, <1>4, CloseSent
<1> HIDE DEF d
<1>6. PICK f \in WsFrame : f.kind = "close" /\ f.code = d.local /\ d.queue = Append(k.queue, f)
  BY <1>5
<1>7. up' \in [End -> BOOLEAN]
  BY <1>1 DEF WsInv, WsTypes
<1>8. StepOf(e, d)
  BY <1>1, <1>2, <1>5, <1>7, StaleTest, IsStep
<1>9. Hears(conn[e], d)
  BY <1>2, <1>5 DEF Hears, Told
<1>10. Began(d) /\ Shape(d)
  BY <1>2, <1>3, <1>5 DEF Began, Shape
<1>11. ~stale'[e] => conn[e].state = "open" /\ Story(d)
  <2>1. ~stale'[e] => conn[e].state = "open" /\ Story(conn[e])
    BY <1>1, <1>3, StaleTest
  <2> QED
    BY <1>2, <1>5, <2>1 DEF Story
<1>12. Incoming(e, d, to'[e])
  BY <1>1, <1>8, <1>9, IncomingSame
<1>13. f.kind # "data"
  BY <1>6
<1> QED
  BY <1>1, <1>2, <1>5, <1>6, <1>8, <1>10, <1>11, <1>12, <1>13, PushRule

-----------------------------------------------------------------------------
(* Writing.                                                                 *)

LEMMA SplitLine ==
  ASSUME NEW q \in Seq(WsFrame), NEW n \in 1..Len(q)
  PROVE  /\ SubSeq(q, 1, n) \in Seq(WsFrame) /\ SubSeq(q, 1, n) # << >>
         /\ SubSeq(q, n + 1, Len(q)) \in Seq(WsFrame)
         /\ SubSeq(q, 1, n) \o SubSeq(q, n + 1, Len(q)) = q
<1> DEFINE a == SubSeq(q, 1, n)
           b == SubSeq(q, n + 1, Len(q))
<1>1. Len(q) \in Nat /\ n \in Nat /\ n >= 1 /\ n <= Len(q)
  OBVIOUS
<1>2. /\ a \in Seq(WsFrame) /\ Len(a) = n /\ b \in Seq(WsFrame) /\ Len(b) = Len(q) - n
      /\ \A i \in 1..n : a[i] = q[i]
      /\ \A i \in 1..(Len(q) - n) : b[i] = q[n + i]
  BY <1>1
<1> HIDE DEF a, b
<1>3. a \o b \in Seq(WsFrame) /\ Len(a \o b) = Len(q)
  <2>1. a \o b \in Seq(WsFrame) /\ Len(a \o b) = Len(a) + Len(b)
    BY <1>2, ConcatFacts
  <2>2. Len(a) + Len(b) = Len(q)
    BY <1>1, <1>2
  <2> QED
    BY <2>1, <2>2
<1>4. \A i \in 1..Len(q) : (a \o b)[i] = q[i]
  <2> TAKE i \in 1..Len(q)
  <2>1. CASE i <= n
    BY <1>1, <1>2, <2>1, ConcatFacts
  <2>2. CASE i > n
    <3>1. i - n \in 1..Len(b) /\ n + (i - n) = i
      BY <1>1, <1>2, <2>2
    <3>2. (a \o b)[Len(a) + (i - n)] = b[i - n]
      BY <1>2, <3>1, ConcatFacts
    <3>3. b[i - n] = q[n + (i - n)]
      BY <1>1, <1>2, <3>1
    <3> QED
      BY <1>2, <3>1, <3>2, <3>3
  <2>3. i \in Nat /\ (i <= n \/ i > n)
    BY <1>1
  <2> QED
    BY <2>1, <2>2, <2>3
<1>5. a \o b = q
  BY <1>3, <1>4, SeqEqual
<1>6. a # << >>
  BY <1>1, <1>2
<1> QED
  BY <1>2, <1>5, <1>6 DEF a, b

LEMMA WriteFrameKeeps ==
  ASSUME WsInv, NEW e \in End, write_frame(e)
  PROVE  WsInv'
<1> DEFINE c == [conn[e] EXCEPT !.posted = FALSE]
<1>1. Quiet /\ faults' = faults
  BY DEF write_frame
<1>2. conn[e] \in Connection /\ Shape(conn[e]) /\ (~stale[e] => Story(conn[e]))
      /\ sent[e] \in Seq(WsFrame) /\ Out(conn[e]) \in Seq(WsFrame)
  BY Seen DEF EndOK
<1>3. c \in Connection /\ Still(conn[e], c)
  BY <1>2 DEF Connection, Still, Began
<1>4. \/ Becomes(e, c)
      \/ /\ ~c.flag
         /\ \E n \in 1..Len(c.queue) :
              Becomes(e, [c EXCEPT !.flag = TRUE, !.writing = SubSeq(c.queue, 1, n),
                                   !.queue = SubSeq(c.queue, n + 1, Len(c.queue))])
  BY DEF write_frame
<1> HIDE DEF c
<1>5. CASE Becomes(e, c)
  BY <1>1, <1>3, <1>5, StillRule
<1>6. ASSUME ~c.flag, NEW n \in 1..Len(c.queue),
             Becomes(e, [c EXCEPT !.flag = TRUE, !.writing = SubSeq(c.queue, 1, n),
                                  !.queue = SubSeq(c.queue, n + 1, Len(c.queue))])
      PROVE  WsInv'
  <2> DEFINE a == SubSeq(c.queue, 1, n)
             b == SubSeq(c.queue, n + 1, Len(c.queue))
             d == [c EXCEPT !.flag = TRUE, !.writing = a, !.queue = b]
  <2>1. /\ c.queue \in Seq(WsFrame) /\ a \in Seq(WsFrame) /\ b \in Seq(WsFrame) /\ a # << >>
        /\ a \o b = c.queue
    <3>1. c.queue \in Seq(WsFrame)
      BY <1>3 DEF Connection
    <3> QED
      BY <3>1, SplitLine
  <2>2. Becomes(e, d)
    BY <1>6
  <2> HIDE DEF a, b
  <2>3. d \in Connection
    BY <1>3, <2>1 DEF Connection
  <2>4. /\ d.state = conn[e].state /\ (Began(d) <=> Began(conn[e])) /\ d.ec = conn[e].ec
        /\ d.queue = b /\ d.flag = TRUE /\ d.writing = a
        /\ d.clean = conn[e].clean /\ d.local = conn[e].local /\ d.remote = conn[e].remote
        /\ d.ending = conn[e].ending /\ d.called = conn[e].called /\ d.got = conn[e].got /\ (conn[e].doubled => d.doubled)
        /\ d.app = conn[e].app /\ d.acking = conn[e].acking
    BY <1>3 DEF Connection, Still, Began
  <2> HIDE DEF d
  <2>5. c.flag = conn[e].flag /\ conn[e].writing = << >> /\ c.queue = conn[e].queue
    BY <1>2, <1>3, <1>6 DEF Still, Shape
  <2>6. ~Mute(conn[e]) /\ ~Mute(d) /\ Mute(d) = Mute(conn[e])
    BY <1>6, <2>1, <2>4, <2>5 DEF Mute
  <2>7. Out(conn[e]) = c.queue /\ Out(d) = c.queue
    <3>1. Out(conn[e]) = << >> \o c.queue /\ Out(d) = a \o b
      BY <2>4, <2>5, <2>6 DEF Out
    <3> QED
      BY <2>1, <3>1
  <2>8. Began(conn[e])
    <3>1. conn[e].queue # << >>
      BY <1>6, <2>1, <2>5
    <3> QED
      BY <1>2, <3>1 DEF Shape
  <2>9. up' \in [End -> BOOLEAN] /\ to' = to /\ stale' = stale /\ sent' = sent
        /\ accepted' = accepted
    BY <1>1 DEF Quiet, WsInv, WsTypes
  <2>10. StepOf(e, d)
    BY <1>1, <2>2, <2>3, <2>4, <2>9, IsStep
  <2>11. Hears(conn[e], d)
    BY <2>4 DEF Hears, Told
  <2>12. Incoming(e, d, to'[e])
    BY <2>9, <2>10, <2>11, IncomingSame
  <2>13. Parted(conn[e]) => Parted(d)
    BY <2>4 DEF Parted
  <2>14. Outgoing(e, d, to'[Other(e)], Len(accepted'[e]))
    BY <2>4, <2>6, <2>7, <2>9, <2>10, <2>13, OutgoingMoved
  <2>15. Shape(d) /\ (Story(conn[e]) => Story(d))
    BY <1>2, <2>4, <2>8 DEF Shape, Story
  <2>16. sent'[e] \o Out(d) \in Seq(WsFrame) /\ sent'[e] \o Out(d) = sent[e] \o Out(conn[e])
    BY <1>2, <2>7, <2>9, ConcatFacts
  <2>17. Begins(sent'[e] \o Out(d), sent[e] \o Out(conn[e]))
    BY <2>16 DEF Begins
  <2>18. EndOK(d, sent'[e], accepted'[e], stale'[e])
    BY <1>2, <2>4, <2>8, <2>9, <2>10, <2>15, <2>16, <2>17, EndLine
  <2> QED
    BY <2>10, <2>12, <2>14, <2>18, StepRule
<1> QED
  BY <1>4, <1>5, <1>6

LEMMA IsWrite ==
  ASSUME WsInv, NEW e \in End, NEW d \in Connection, Becomes(e, d), NEW w \in Seq(WsFrame),
         async_write(e, w), UNCHANGED <<up, stale, accepted, faults>>,
         d.ec = "none" => conn[e].ec = "none", conn[e].doubled => d.doubled
  PROVE  /\ StepOf(e, d)
         /\ to'[e] = to[e] /\ to'[Other(e)] = to[Other(e)] \o w /\ sent'[e] = sent[e] \o w
<1>1. Other(e) \in End /\ Other(e) # e
  BY TwoEnds
<1>2. /\ to \in [End -> Seq(WsFrame)] /\ sent \in [End -> Seq(WsFrame)]
      /\ to' = [to EXCEPT ![Other(e)] = @ \o w] /\ sent' = [sent EXCEPT ![e] = @ \o w]
  BY DEF async_write, WsInv, WsTypes
<1>3. to[Other(e)] \o w \in Seq(WsFrame) /\ sent[e] \o w \in Seq(WsFrame)
  BY <1>1, <1>2, ConcatFacts
<1>4. /\ to' \in [End -> Seq(WsFrame)] /\ sent' \in [End -> Seq(WsFrame)]
      /\ to'[e] = to[e] /\ to'[Other(e)] = to[Other(e)] \o w
      /\ sent'[e] = sent[e] \o w /\ sent'[Other(e)] = sent[Other(e)]
  BY <1>1, <1>2, <1>3
<1>5. /\ up' \in [End -> BOOLEAN] /\ stale' \in [End -> BOOLEAN] /\ stale' = stale
      /\ accepted' \in [End -> Seq(Nat)] /\ accepted' = accepted
      /\ faults' \in Nat /\ faults' >= faults
  BY DEF WsInv, WsTypes
<1>6. StepOf(e, d)
  BY <1>4, <1>5 DEF StepOf, Becomes
<1> QED
  BY <1>4, <1>6

LEMMA HandleWriteKeeps ==
  ASSUME WsInv, NEW e \in End, handle_write_frame(e)
  PROVE  WsInv'
<1> DEFINE w == conn[e].writing
           q == conn[e].queue
           k == [conn[e] EXCEPT !.writing = << >>]
           b == k.posted \/ q # << >>
           d1 == [k EXCEPT !.flag = FALSE, !.posted = b]
<1>1. w # << >> /\ UNCHANGED <<up, stale, accepted>>
  BY DEF handle_write_frame
<1>2. /\ conn[e] \in Connection /\ Shape(conn[e]) /\ (~stale[e] => Story(conn[e]))
      /\ sent[e] \in Seq(WsFrame) /\ to[Other(e)] \in Seq(WsFrame)
      /\ Out(conn[e]) \in Seq(WsFrame)
  BY Seen DEF EndOK
<1>3. w \in Seq(WsFrame) /\ q \in Seq(WsFrame) /\ << >> \in Seq(WsFrame)
  BY <1>2 DEF Connection
<1>4. conn[e].flag /\ Began(conn[e]) /\ ~Mute(conn[e]) /\ Out(conn[e]) = w \o q
  BY <1>1, <1>2 DEF Shape, Mute, Out
<1>5. k \in Connection
  BY <1>2, <1>3 DEF Connection
<1>6. /\ k.state = conn[e].state /\ k.istate = conn[e].istate /\ k.ec = conn[e].ec
      /\ k.queue = q /\ k.flag = conn[e].flag /\ k.writing = << >>
      /\ k.clean = conn[e].clean /\ k.local = conn[e].local /\ k.remote = conn[e].remote
      /\ k.ending = conn[e].ending /\ k.called = conn[e].called /\ k.got = conn[e].got /\ (conn[e].doubled => k.doubled)
      /\ k.app = conn[e].app /\ k.acking = conn[e].acking
  BY <1>2 DEF Connection
<1>7. \/ /\ async_write(e, w) /\ faults' = faults
         /\ Becomes(e, d1) \/ Becomes(e, terminate(k, "none"))
      \/ /\ UNCHANGED <<to, sent>> /\ (faults' = faults \/ Fault)
         /\ Becomes(e, terminate(k, "write"))
  BY <1>6 DEF handle_write_frame
<1>8. /\ (to[Other(e)] \o w) \o q = to[Other(e)] \o (w \o q)
      /\ (sent[e] \o w) \o q = sent[e] \o (w \o q)
      /\ to[Other(e)] \o w \in Seq(WsFrame) /\ sent[e] \o w \in Seq(WsFrame)
      /\ << >> \o q = q
  <2> HIDE DEF w, q
  <2>1. (to[Other(e)] \o w) \o q = to[Other(e)] \o (w \o q)
    BY <1>2, <1>3, LineJoins
  <2>2. (sent[e] \o w) \o q = sent[e] \o (w \o q)
    BY ZenonT(30), <1>2, <1>3, LineJoins
  <2>3. to[Other(e)] \o w \in Seq(WsFrame) /\ sent[e] \o w \in Seq(WsFrame)
    BY <1>2, <1>3, ConcatFacts
  <2>4. << >> \o q = q
    BY <1>3
  <2> QED
    BY <2>1, <2>2, <2>3, <2>4
<1>9. b \in BOOLEAN
  OBVIOUS
<1> HIDE DEF w, q, k, b
<1>10. CASE async_write(e, w) /\ faults' = faults /\ Becomes(e, d1)
  <2>1. d1 \in Connection
    BY <1>5, <1>9 DEF Connection
  <2>2. /\ d1.state = k.state /\ d1.istate = k.istate /\ d1.ec = k.ec
        /\ d1.queue = q /\ d1.flag = FALSE /\ d1.writing = << >>
        /\ d1.clean = k.clean /\ d1.local = k.local /\ d1.remote = k.remote
        /\ d1.ending = k.ending /\ d1.called = k.called /\ d1.got = k.got /\ (k.doubled => d1.doubled)
        /\ d1.app = k.app /\ d1.acking = k.acking
    BY <1>5, <1>6 DEF Connection
  <2>3. Becomes(e, d1)
    BY <1>10
  <2> HIDE DEF d1
  <2>4. /\ StepOf(e, d1) /\ to'[e] = to[e] /\ to'[Other(e)] = to[Other(e)] \o w
        /\ sent'[e] = sent[e] \o w
    BY <1>1, <1>3, <1>6, <1>10, <2>1, <2>2, <2>3, IsWrite
  <2>5. ~Mute(d1) /\ Mute(d1) = Mute(conn[e]) /\ Out(d1) = q
    <3>1. ~Mute(d1)
      BY <2>2 DEF Mute
    <3>2. Out(d1) = << >> \o q
      BY <2>2, <3>1 DEF Out
    <3>3. Mute(d1) \in BOOLEAN /\ Mute(conn[e]) \in BOOLEAN
      BY DEF Mute
    <3> QED
      BY <1>4, <1>8, <3>1, <3>2, <3>3
  <2>6. Hears(conn[e], d1) /\ (Parted(conn[e]) => Parted(d1)) /\ Began(d1)
    BY <1>4, <1>6, <2>2 DEF Hears, Told, Parted, Began
  <2>7. Incoming(e, d1, to'[e])
    BY <2>4, <2>6, IncomingSame
  <2>8. Outgoing(e, d1, to'[Other(e)], Len(accepted'[e]))
    <3>1. to'[Other(e)] \o Out(d1) = to[Other(e)] \o Out(conn[e])
      BY <1>4, <1>8, <2>4, <2>5
    <3>2. accepted' = accepted /\ d1.local = conn[e].local
      BY <1>1, <1>6, <2>2
    <3> QED
      BY <2>4, <2>5, <2>6, <3>1, <3>2, OutgoingMoved
  <2>9. Shape(d1) /\ (Story(conn[e]) => Story(d1))
    BY <1>2, <1>4, <1>6, <2>2, <2>6 DEF Shape, Story
  <2>10. sent'[e] \o Out(d1) \in Seq(WsFrame) /\ sent'[e] \o Out(d1) = sent[e] \o Out(conn[e])
    <3>1. sent'[e] \o Out(d1) = sent[e] \o Out(conn[e])
      BY <1>4, <1>8, <2>4, <2>5
    <3>2. sent[e] \o Out(conn[e]) \in Seq(WsFrame)
      BY <1>2, ConcatFacts
    <3> QED
      BY <3>1, <3>2
  <2>11. Begins(sent'[e] \o Out(d1), sent[e] \o Out(conn[e]))
    BY <2>10 DEF Begins
  <2>12. EndOK(d1, sent'[e], accepted'[e], stale'[e])
    BY <1>1, <1>2, <1>6, <2>2, <2>4, <2>6, <2>9, <2>10, <2>11, EndLine
  <2> QED
    BY <2>4, <2>7, <2>8, <2>12, StepRule
<1>11. ASSUME NEW ec \in {"none", "write"}, Becomes(e, terminate(k, ec)),
              StepOf(e, terminate(k, ec)), to'[e] = to[e],
              to'[Other(e)] \in Seq(WsFrame), sent'[e] \in Seq(WsFrame),
              Begins(to'[Other(e)], to[Other(e)] \o Out(conn[e])),
              Begins(sent'[e], sent[e] \o Out(conn[e]))
       PROVE  WsInv'
  <2> DEFINE d == terminate(k, ec)
  <2>1. Shape(k) /\ Still(k, k) /\ ec \in Reason
    BY <1>2, <1>4, <1>6 DEF Shape, Still, Reason, Began
  <2>2. /\ d \in Connection /\ Hears(k, d) /\ Speaks(k, d) /\ Shape(d)
        /\ Story(k) => Story(d)
        /\ Began(d) <=> Began(k)
        /\ d.ec = "none" => k.ec = "none" /\ d.local = k.local
        /\ d.state = "closed"
    BY <1>5, <2>1, TerminateKeeps
  <2>3. StepOf(e, d)
    BY <1>11
  <2> HIDE DEF d
  <2>4. Mute(d) /\ Out(d) = << >>
    BY <1>4, <1>6, <2>2 DEF Speaks, Mute, Out
  <2>5. Hears(conn[e], d)
    BY <1>6, <2>2 DEF Hears, Told
  <2>6. Incoming(e, d, to'[e])
    BY <1>11, <2>3, <2>5, IncomingSame
  <2>7. /\ to'[Other(e)] \o Out(d) = to'[Other(e)] /\ sent'[e] \o Out(d) = sent'[e]
    BY <1>11, <2>4
  <2>8. Outgoing(e, d, to'[Other(e)], Len(accepted'[e]))
    <3>1. accepted' = accepted /\ (d.ec = "none" => d.local = conn[e].local)
          /\ (Parted(conn[e]) => Parted(d))
      BY <1>1, <1>6, <2>2 DEF Parted
    <3> QED
      BY <1>11, <2>3, <2>4, <2>7, <3>1, OutgoingCut
  <2>9. (Story(conn[e]) => Story(d)) /\ Began(d)
    <3>1. Story(conn[e]) => Story(k)
      BY <1>6 DEF Story
    <3>2. Began(k)
      BY <1>4, <1>6 DEF Began
    <3> QED
      BY <2>2, <3>1, <3>2
  <2>10. EndOK(d, sent'[e], accepted'[e], stale'[e])
    BY <1>1, <1>2, <1>11, <2>2, <2>3, <2>7, <2>9, EndLine
  <2> QED
    BY <2>3, <2>6, <2>8, <2>10, StepRule
<1>12. CASE async_write(e, w) /\ faults' = faults /\ Becomes(e, terminate(k, "none"))
  <2> DEFINE d == terminate(k, "none")
  <2>1. d \in Connection /\ (d.ec = "none" => conn[e].ec = "none") /\ (conn[e].doubled => d.doubled)
    BY <1>5, <1>6, Terminated DEF Reason
  <2>2. Becomes(e, d)
    BY <1>12
  <2> HIDE DEF d
  <2>3. /\ StepOf(e, d) /\ to'[e] = to[e] /\ to'[Other(e)] = to[Other(e)] \o w
        /\ sent'[e] = sent[e] \o w
    BY <1>1, <1>3, <1>12, <2>1, <2>2, IsWrite
  <2>4. Begins(to[Other(e)] \o w, (to[Other(e)] \o w) \o q)
    BY <1>3, <1>8, Lines
  <2>5. Begins(sent[e] \o w, (sent[e] \o w) \o q)
    BY <1>3, <1>8, Lines
  <2>6. /\ Begins(to'[Other(e)], to[Other(e)] \o Out(conn[e]))
        /\ Begins(sent'[e], sent[e] \o Out(conn[e]))
        /\ to'[Other(e)] \in Seq(WsFrame) /\ sent'[e] \in Seq(WsFrame)
    BY <1>4, <1>8, <2>3, <2>4, <2>5
  <2> QED
    BY <1>11, <2>2, <2>3, <2>6 DEF d
<1>13. CASE /\ UNCHANGED <<to, sent>> /\ (faults' = faults \/ Fault)
            /\ Becomes(e, terminate(k, "write"))
  <2> DEFINE d == terminate(k, "write")
  <2>1. d \in Connection /\ (d.ec = "none" => conn[e].ec = "none") /\ (conn[e].doubled => d.doubled)
    BY <1>5, <1>6, Terminated DEF Reason
  <2>2. Becomes(e, d)
    BY <1>13
  <2> HIDE DEF d
  <2>3. up' \in [End -> BOOLEAN]
    BY <1>1 DEF WsInv, WsTypes
  <2>4. StepOf(e, d)
    BY <1>1, <1>13, <2>1, <2>2, <2>3, IsStep
  <2>5. /\ Begins(to'[Other(e)], to[Other(e)] \o Out(conn[e]))
        /\ Begins(sent'[e], sent[e] \o Out(conn[e]))
    BY <1>2, <1>13, Lines
  <2>6. to'[Other(e)] \in Seq(WsFrame) /\ sent'[e] \in Seq(WsFrame) /\ to'[e] = to[e]
    BY <1>2, <1>13
  <2> QED
    BY <1>11, <2>2, <2>4, <2>5, <2>6 DEF d
<1> QED
  BY <1>7, <1>10, <1>12, <1>13

-----------------------------------------------------------------------------
(* The handshake is written, and what a peer that is not websocketpp sends. *)

LEMMA Handshaking ==
  ASSUME NEW c, Shape(c), ~Began(c)
  PROVE  Out(c) = << >> \o << >> /\ ~Mute(c) /\ c.queue = << >> /\ c.writing = << >>
BY DEF Shape, Mute, Out

\* An end that has not opened yet puts a frame that is no message and no
\* close frame on the transport, behind what is there.
LEMMA HandshakeSaid ==
  ASSUME WsInv, NEW e \in End, NEW d, StepOf(e, d), Speaks(conn[e], d),
         conn[e].state = "connecting", NEW f \in WsFrame, f.kind \notin {"data", "close"}
  PROVE  Outgoing(e, d, Append(to[Other(e)], f), Len(accepted[e])) /\ Out(d) = << >>
         /\ Out(conn[e]) = << >>
<1>1. Shape(conn[e]) /\ to[Other(e)] \in Seq(WsFrame)
  BY Seen DEF EndOK
<1>2. ~Began(conn[e])
  BY <1>1 DEF Shape
<1>3. Out(conn[e]) = << >>
  <2>1. Out(conn[e]) = << >> \o << >>
    BY <1>1, <1>2, Handshaking
  <2> QED
    BY <2>1
<1>4. Out(d) = << >> /\ Mute(d) = Mute(conn[e])
  BY <1>3, OutSame
<1>5. Append(to[Other(e)], f) \o Out(d) = Append(to[Other(e)] \o Out(conn[e]), f)
  <2>1. Append(to[Other(e)], f) \in Seq(WsFrame)
    BY <1>1, AppendFacts
  <2> QED
    BY <1>1, <1>3, <1>4, <2>1
<1>6. Undisturbed' => ~Parted(conn[e])
  BY DEF Parted
<1>7. Outgoing(e, d, Append(to[Other(e)], f), Len(accepted[e]))
  BY <1>4, <1>5, <1>6, OutgoingMore
<1> QED
  BY <1>3, <1>4, <1>7

LEMMA SendRequestKeeps ==
  ASSUME WsInv, handle_send_http_request
  PROVE  WsInv'
<1> DEFINE e == "client"
           c == [conn[e] EXCEPT !.reply = "none"]
           d == [c EXCEPT !.istate = "READ_HTTP_RESPONSE", !.reads = 1]
           f == Frame("request", "ws", FALSE)
<1>1. e \in End /\ Other(e) = "server"
  BY DEF End, Other
<1>2. conn[e] \in Connection /\ UNCHANGED <<up, stale, sent, accepted>>
      /\ Shape(conn[e]) /\ (~stale[e] => Story(conn[e])) /\ to["server"] \in Seq(WsFrame)
  BY <1>1, Seen DEF handle_send_http_request, EndOK
<1>3. c \in Connection /\ Still(conn[e], c)
  BY <1>2 DEF Connection, Reply, Still, Began
<1>4. \/ /\ c.state = "connecting" /\ c.istate = "WRITE_HTTP_REQUEST"
         /\ to' = [to EXCEPT !["server"] = Append(@, f)]
         /\ Becomes(e, d) /\ faults' = faults
      \/ Becomes(e, c) /\ to' = to /\ faults' = faults
      \/ Fault /\ Becomes(e, terminate(c, "write")) /\ to' = to
  BY DEF handle_send_http_request
<1>5. f \in WsFrame /\ f.kind \notin {"data", "close"}
  BY DEF Frame, WsFrame, OtherKind, OtherCode
<1> HIDE DEF f, c
<1>6. CASE /\ c.state = "connecting" /\ c.istate = "WRITE_HTTP_REQUEST"
           /\ to' = [to EXCEPT !["server"] = Append(@, f)]
           /\ Becomes(e, d) /\ faults' = faults
  <2>1. 1 \in Int /\ "READ_HTTP_RESPONSE" \in InternalState
    BY DEF InternalState
  <2>2. d \in Connection
    BY <1>3, <2>1 DEF Connection
  <2>3. Still(c, d)
    BY <1>3, <1>6 DEF Connection, Still, Began
  <2>4. Becomes(e, d)
    BY <1>6
  <2> HIDE DEF d
  <2>5. Still(conn[e], d)
    BY <1>3, <2>3 DEF Still
  <2>6. to' \in [End -> Seq(WsFrame)] /\ to'["server"] = Append(to["server"], f) /\ to'[e] = to[e]
    <3>1. Append(to["server"], f) \in Seq(WsFrame) /\ to \in [End -> Seq(WsFrame)]
          /\ "server" \in End
      BY <1>2, <1>5, AppendFacts DEF WsInv, WsTypes, End
    <3> QED
      BY <1>1, <1>6, <3>1
  <2>7. StepOf(e, d)
    <3>1. /\ up' \in [End -> BOOLEAN] /\ stale' \in [End -> BOOLEAN] /\ stale' = stale
          /\ sent' \in [End -> Seq(WsFrame)] /\ sent' = sent
          /\ accepted' \in [End -> Seq(Nat)] /\ accepted' = accepted
          /\ faults' \in Nat /\ faults' >= faults
      BY <1>2, <1>6 DEF WsInv, WsTypes
    <3> QED
      BY <2>2, <2>4, <2>5, <2>6, <3>1 DEF StepOf, Becomes, Still
  <2>8. /\ Hears(conn[e], d) /\ Speaks(conn[e], d) /\ Shape(d)
        /\ (Story(conn[e]) => Story(d)) /\ (Began(conn[e]) => Began(d))
    BY <1>2, <2>5, StillKeeps DEF Still
  <2>9. EndOK(d, sent'[e], accepted'[e], stale'[e])
    BY <1>1, <1>2, <2>7, <2>8, EndSame DEF Hears
  <2>10. Incoming(e, d, to'[e])
    BY <1>1, <2>6, <2>7, <2>8, IncomingSame
  <2>11. conn[e].state = "connecting"
    BY <1>3, <1>6 DEF Still
  <2>12. Outgoing(e, d, Append(to[Other(e)], f), Len(accepted[e]))
    BY <1>1, <1>5, <2>7, <2>8, <2>11, HandshakeSaid
  <2>13. Outgoing(e, d, to'[Other(e)], Len(accepted'[e]))
    BY <1>1, <1>2, <2>6, <2>12
  <2> QED
    BY <1>1, <2>7, <2>9, <2>10, <2>13, StepRule
<1>7. CASE Becomes(e, c) /\ to' = to /\ faults' = faults
  BY <1>1, <1>2, <1>3, <1>7, StillRule DEF Quiet
<1>8. CASE Fault /\ Becomes(e, terminate(c, "write")) /\ to' = to
  <2>1. "write" \in Reason /\ Quiet
    BY <1>2, <1>8 DEF Reason, Quiet
  <2> QED
    BY <1>1, <1>3, <1>8, <2>1, TerminateRule
<1> QED
  BY <1>4, <1>6, <1>7, <1>8

LEMMA WriteResponseKeeps ==
  ASSUME WsInv, handle_write_http_response
  PROVE  WsInv'
<1> DEFINE e == "server"
           c == [conn[e] EXCEPT !.reply = "none", !.timer = "none"]
           r == [conn[e] EXCEPT !.reply = "none"]
           f == Frame("response", conn[e].status, FALSE)
<1>1. e \in End
  BY DEF End
<1>2. conn[e] \in Connection /\ UNCHANGED <<up, stale, accepted>>
      /\ Shape(conn[e]) /\ (~stale[e] => Story(conn[e])) /\ to[Other(e)] \in Seq(WsFrame)
      /\ sent[e] \in Seq(WsFrame)
  BY <1>1, Seen DEF handle_write_http_response, EndOK
<1>3. c \in Connection /\ r \in Connection
  BY <1>2 DEF Connection, Reply, Timer
<1>4. Still(conn[e], c) /\ Still(conn[e], r)
  BY <1>2 DEF Connection, Still, Began
<1>5. \/ /\ c.state = "connecting" /\ faults' = faults /\ async_write(e, <<f>>)
         /\ \/ Becomes(e, Opened(c))
            \/ Becomes(e, terminate(c, "http_connection_ended"))
            \/ Becomes(e, terminate(c, "refused"))
      \/ Becomes(e, r) /\ UNCHANGED <<to, sent, faults>>
      \/ Fault /\ Becomes(e, terminate(r, "write")) /\ UNCHANGED <<to, sent>>
  BY DEF handle_write_http_response
<1>6. f \in WsFrame /\ f.kind = "response"
  BY <1>2 DEF Frame, WsFrame, OtherKind, OtherCode, Connection
<1> HIDE DEF f, c, r
<1>7. <<f>> \in Seq(WsFrame) /\ to[Other(e)] \o <<f>> = Append(to[Other(e)], f)
      /\ sent[e] \o <<f>> = Append(sent[e], f)
  BY <1>2, <1>6, LineEnds
<1>8. ASSUME NEW d \in Connection, Becomes(e, d), c.state = "connecting", faults' = faults,
             async_write(e, <<f>>), Hears(conn[e], d), Speaks(conn[e], d), Shape(d),
             Story(conn[e]) => Story(d), Began(conn[e]) => Began(d),
             d.ec = "none" => conn[e].ec = "none"
      PROVE  WsInv'
  <2>1. /\ StepOf(e, d) /\ to'[e] = to[e] /\ to'[Other(e)] = Append(to[Other(e)], f)
        /\ sent'[e] = Append(sent[e], f)
    <3>1. /\ StepOf(e, d) /\ to'[e] = to[e] /\ to'[Other(e)] = to[Other(e)] \o <<f>>
          /\ sent'[e] = sent[e] \o <<f>>
      <4>1. conn[e].doubled => d.doubled
        BY <1>8 DEF Hears
      <4> QED
        BY <1>1, <1>2, <1>7, <1>8, <4>1, IsWrite
    <3> QED
      BY <1>7, <3>1
  <2>2. conn[e].state = "connecting" /\ f.kind \notin {"data", "close"}
    BY <1>4, <1>6, <1>8 DEF Still
  <2>3. Incoming(e, d, to'[e])
    BY <1>1, <1>8, <2>1, IncomingSame
  <2>4. Outgoing(e, d, Append(to[Other(e)], f), Len(accepted[e])) /\ Out(d) = << >>
        /\ Out(conn[e]) = << >>
    BY <1>1, <1>6, <1>8, <2>1, <2>2, HandshakeSaid
  <2>5. Outgoing(e, d, to'[Other(e)], Len(accepted'[e]))
    BY <1>2, <2>1, <2>4
  <2>6. EndOK(d, sent'[e], accepted'[e], stale'[e])
    <3>1. EndOK(conn[e], sent[e], accepted[e], stale[e])
      BY <1>1, Seen
    <3>2. sent[e] \o Out(conn[e]) = sent[e] /\ sent'[e] \o Out(d) = Append(sent[e], f)
      BY <1>2, <1>6, <2>1, <2>4, AppendFacts
    <3>3. ASSUME ~stale'[e] PROVE LineOK(d, sent'[e] \o Out(d))
      <4>1. NoClose(sent[e])
        BY <1>2, <2>2, <3>1, <3>2, <3>3 DEF EndOK, LineOK
      <4>2. CloseLast(Append(sent[e], f)) /\ NoClose(Append(sent[e], f))
        BY <1>2, <1>6, <4>1, CloseAppend
      <4> QED
        BY <3>2, <4>2 DEF LineOK
    <3>4. /\ accepted'[e] = Upto(Len(accepted'[e]))
          /\ ~Began(d) => accepted'[e] = << >>
      BY <1>2, <1>8, <3>1 DEF EndOK
    <3>5. ~stale'[e] => Story(d)
      BY <1>2, <1>8
    <3> QED
      BY <1>8, <3>3, <3>4, <3>5 DEF EndOK
  <2> QED
    BY <1>1, <2>1, <2>3, <2>5, <2>6, StepRule
<1>9. CASE /\ c.state = "connecting" /\ faults' = faults /\ async_write(e, <<f>>)
           /\ Becomes(e, Opened(c))
  <2> DEFINE d == Opened(c)
  <2>1. conn[e].state = "connecting"
    BY <1>4, <1>9 DEF Still
  <2>2. /\ d \in Connection /\ Hears(conn[e], d) /\ Speaks(conn[e], d) /\ Shape(d) /\ Began(d)
        /\ Story(conn[e]) => Story(d)
        /\ d.ec = conn[e].ec
    BY <1>2, <1>3, <1>4, <2>1, OpenedKeeps
  <2> HIDE DEF d
  <2> QED
    BY <1>8, <1>9, <2>2 DEF d
<1>10. ASSUME NEW ec \in {"http_connection_ended", "refused"}, c.state = "connecting",
              faults' = faults, async_write(e, <<f>>), Becomes(e, terminate(c, ec))
       PROVE  WsInv'
  <2> DEFINE d == terminate(c, ec)
  <2>1. ec \in Reason
    BY DEF Reason
  <2>2. /\ d \in Connection /\ Hears(conn[e], d) /\ Speaks(conn[e], d) /\ Shape(d)
        /\ Story(conn[e]) => Story(d)
        /\ Began(d) <=> Began(conn[e])
        /\ d.ec = "none" => conn[e].ec = "none"
    BY <1>2, <1>3, <1>4, <2>1, TerminateKeeps
  <2> HIDE DEF d
  <2> QED
    BY <1>8, <1>10, <2>2 DEF d
<1>11. CASE Becomes(e, r) /\ UNCHANGED <<to, sent, faults>>
  BY <1>1, <1>2, <1>3, <1>4, <1>11, StillRule DEF Quiet
<1>12. CASE Fault /\ Becomes(e, terminate(r, "write")) /\ UNCHANGED <<to, sent>>
  <2>1. "write" \in Reason /\ Quiet
    BY <1>2, <1>12 DEF Reason, Quiet
  <2> QED
    BY <1>1, <1>3, <1>4, <1>12, <2>1, TerminateRule
<1> QED
  BY <1>5, <1>9, <1>10, <1>11, <1>12

LEMMA PlainRequestKeeps ==
  ASSUME WsInv, PlainRequest
  PROVE  WsInv'
<1> DEFINE e == "client"
           d == [conn[e] EXCEPT !.state = "closed"]
           f == Frame("request", "plain", FALSE)
<1>1. e \in End /\ Other(e) = "server" /\ "server" \in End
  BY DEF End, Other
<1>2. conn[e] \in Connection /\ UNCHANGED <<up, stale, sent, accepted, faults>>
      /\ Shape(conn[e]) /\ (~stale[e] => Story(conn[e]))
  BY <1>1, Seen DEF PlainRequest, EndOK
<1>3. /\ conn[e].state = "connecting" /\ conn[e].istate = "USER_INIT" /\ to["server"] = << >>
      /\ to' = [to EXCEPT !["server"] = <<f>>] /\ Becomes(e, d)
  BY DEF PlainRequest, Becomes
<1>4. f \in WsFrame /\ f.kind \notin {"data", "close"}
  BY DEF Frame, WsFrame, OtherKind, OtherCode
<1> HIDE DEF f
<1>5. d \in Connection
  BY <1>2 DEF Connection, State
<1>6. /\ d.state = "closed" /\ d.istate = conn[e].istate /\ d.ec = conn[e].ec
      /\ d.queue = conn[e].queue /\ d.flag = conn[e].flag /\ d.writing = conn[e].writing
      /\ d.clean = conn[e].clean /\ d.local = conn[e].local /\ d.remote = conn[e].remote
      /\ d.ending = conn[e].ending /\ d.called = conn[e].called /\ d.got = conn[e].got /\ (conn[e].doubled => d.doubled)
      /\ d.app = conn[e].app /\ d.acking = conn[e].acking
  BY <1>2 DEF Connection
<1> HIDE DEF d
<1>7. /\ to' \in [End -> Seq(WsFrame)] /\ to'["server"] = Append(to["server"], f)
      /\ to'[e] = to[e]
  <2>1. <<f>> \in Seq(WsFrame) /\ Append(<< >>, f) = <<f>> /\ to \in [End -> Seq(WsFrame)]
    BY <1>4 DEF WsInv, WsTypes
  <2> QED
    BY <1>1, <1>3, <2>1
<1>8. StepOf(e, d)
  <2>1. /\ up' \in [End -> BOOLEAN] /\ stale' \in [End -> BOOLEAN] /\ stale' = stale
        /\ sent' \in [End -> Seq(WsFrame)] /\ sent' = sent
        /\ accepted' \in [End -> Seq(Nat)] /\ accepted' = accepted
        /\ faults' \in Nat /\ faults' >= faults
    BY <1>2 DEF WsInv, WsTypes
  <2> QED
    BY <1>3, <1>5, <1>6, <1>7, <2>1 DEF StepOf, Becomes
<1>9. Hears(conn[e], d) /\ Speaks(conn[e], d) /\ (Began(conn[e]) => Began(d))
  BY <1>3, <1>6 DEF Hears, Speaks, Told, Parted, Began
<1>10. Shape(d) /\ (Story(conn[e]) => Story(d))
  BY <1>2, <1>3, <1>6 DEF Shape, Story, Began
<1>11. EndOK(d, sent'[e], accepted'[e], stale'[e])
  BY <1>1, <1>2, <1>8, <1>9, <1>10, EndSame DEF Hears
<1>12. Incoming(e, d, to'[e])
  BY <1>1, <1>7, <1>8, <1>9, IncomingSame
<1>13. Outgoing(e, d, Append(to[Other(e)], f), Len(accepted[e]))
  BY <1>1, <1>3, <1>4, <1>8, <1>9, HandshakeSaid
<1>14. Outgoing(e, d, to'[Other(e)], Len(accepted'[e]))
  BY <1>1, <1>2, <1>7, <1>13
<1> QED
  BY <1>1, <1>8, <1>11, <1>12, <1>14, StepRule

LEMMA BadPeerKeeps ==
  ASSUME WsInv, NEW e \in End, BadPeer(e)
  PROVE  WsInv'
<1>1. PICK f \in {Frame("close", "bad", FALSE), Frame("garbage", "none", FALSE)} :
        to' = [to EXCEPT ![e] = Append(@, f)]
  BY DEF BadPeer
<1>2. f \in WsFrame /\ f.kind # "data"
  <2>1. /\ Frame("close", "bad", FALSE) \in WsFrame
        /\ Frame("close", "bad", FALSE).kind = "close"
    BY DEF Frame, WsFrame, CloseCode
  <2>2. /\ Frame("garbage", "none", FALSE) \in WsFrame
        /\ Frame("garbage", "none", FALSE).kind = "garbage"
    BY DEF Frame, WsFrame, OtherKind, OtherCode, Status
  <2> QED
    BY <2>1, <2>2
<1>3. UNCHANGED <<conn, up, stale, sent, accepted>> /\ Fault
  BY DEF BadPeer
<1>4. WsTypes /\ to[e] \in Seq(WsFrame) /\ Append(to[e], f) \in Seq(WsFrame)
  BY <1>2, AppendFacts DEF WsInv, WsTypes
<1>5. WsTypes' /\ faults' # 0
  BY <1>1, <1>3, <1>4 DEF WsTypes, Fault
<1>6. ~Undisturbed'
  BY <1>5 DEF Undisturbed
<1>7. \A x \in End : /\ EndOK(conn[x], sent[x], accepted[x], stale[x])
                     /\ Carried(conn[x], to[x] \o Out(conn[Other(x)]), Mute(conn[Other(x)]),
                                Len(accepted[Other(x)]))
  BY DEF WsInv, Pipe
<1>8. Carried(conn[e], Append(to[e], f) \o Out(conn[Other(e)]), Mute(conn[Other(e)]),
              Len(accepted[Other(e)]))
  <2>1. /\ conn[e] \in Connection /\ Out(conn[Other(e)]) \in Seq(WsFrame)
        /\ Mute(conn[Other(e)]) \in BOOLEAN /\ Len(accepted[Other(e)]) \in Nat
    BY Seen
  <2> QED
    BY <1>2, <1>4, <1>7, <2>1, CarriedInsert
<1>9. \A x \in End : Carried(conn[x], to'[x] \o Out(conn[Other(x)]), Mute(conn[Other(x)]),
                             Len(accepted[Other(x)]))
  <2> TAKE x \in End
  <2>1. CASE x = e
    BY <1>1, <1>4, <1>8, <2>1 DEF WsTypes
  <2>2. CASE x # e
    BY <1>1, <1>4, <1>7, <2>2 DEF WsTypes
  <2> QED
    BY <2>1, <2>2
<1> QED
  BY <1>3, <1>5, <1>6, <1>7, <1>9 DEF WsInv, Pipe

-----------------------------------------------------------------------------
(* The theorems.                                                            *)

\* Two reads share a buffer: of the line to e nothing is claimed any more.
LEMMA OverwrittenKeeps ==
  ASSUME WsInv, NEW e \in End, Overwritten(e), conn[e].doubled
  PROVE  WsInv'
<1>1. /\ conn' = conn /\ up' = up /\ stale' = stale /\ sent' = sent /\ accepted' = accepted
      /\ faults' = faults
  BY DEF Overwritten
<1>2. PICK found \in {<<to[e][2]>>, <<Frame("garbage", "none", FALSE)>>, << >>} :
        to' = [to EXCEPT ![e] = found \o Tail(@)]
  BY DEF Overwritten
<1>3. to \in [End -> Seq(WsFrame)] /\ to[e] \in Seq(WsFrame) /\ Len(to[e]) > 1
  BY DEF Overwritten, WsInv, WsTypes
<1>4. found \in Seq(WsFrame)
  <2>1. to[e][2] \in WsFrame
    BY <1>3, ElementOfSeq
  <2>2. Frame("garbage", "none", FALSE) \in WsFrame
    BY DEF Frame, WsFrame, OtherKind, OtherCode, Status
  <2>3. \A f \in WsFrame : <<f>> \in Seq(WsFrame)
    OBVIOUS
  <2>4. << >> \in Seq(WsFrame)
    OBVIOUS
  <2> QED
    BY <1>2, <2>1, <2>2, <2>3, <2>4, Zenon
<1>5. found \o Tail(to[e]) \in Seq(WsFrame)
  BY <1>3, <1>4
<1>6. to' \in [End -> Seq(WsFrame)] /\ to'[Other(e)] = to[Other(e)]
  BY <1>2, <1>3, <1>5, TwoEnds
<1>7. WsTypes'
  BY <1>1, <1>6 DEF WsTypes, WsInv
<1>8. ~Undisturbed'
  BY <1>1 DEF Undisturbed
<1>9. ASSUME NEW x \in End
      PROVE  /\ EndOK(conn[x], sent[x], accepted[x], stale[x])
             /\ Carried(conn[x], to'[x] \o Out(conn[Other(x)]), Mute(conn[Other(x)]),
                        Len(accepted[Other(x)]))
  <2>1. CASE x = e
    BY <2>1 DEF WsInv, Carried
  <2>2. CASE x = Other(e)
    BY <1>6, <2>2 DEF WsInv, Pipe
  <2> QED
    BY <2>1, <2>2, TwoEnds
<1> QED
  BY <1>1, <1>7, <1>8, <1>9 DEF WsInv, Pipe

-----------------------------------------------------------------------------
(* One outstanding read at a time, unless resume_reading() doubled it.      *)

\* Neither reading nor about to read: what is being written, or was not begun.
Waiting(c) ==
  \/ c.acking # "no" \/ c.reply # "none" \/ c.http = "deferred"
  \/ c.istate \in {"USER_INIT", "TRANSPORT_INIT"}

ReadsOK(c) ==
  /\ c.reply # "none" => c.istate \in {"WRITE_HTTP_REQUEST", "PROCESS_HTTP_REQUEST"}
  /\ c.http = "deferred" => c.istate = "PROCESS_HTTP_REQUEST" /\ c.reply = "none"
  /\ ~c.doubled => c.reads <= 1 /\ (Waiting(c) => c.reads <= 0)

ReadsInv == \A e \in End : ReadsOK(conn[e])

\* d reads as c does.
SameReads(c, d) ==
  /\ d.reads = c.reads /\ d.doubled = c.doubled /\ d.acking = c.acking
  /\ d.reply = c.reply /\ d.istate = c.istate /\ d.http \in {c.http, "closed"}

LEMMA SameReadsOK ==
  ASSUME NEW c, NEW d, ReadsOK(c), SameReads(c, d)
  PROVE  ReadsOK(d)
BY DEF ReadsOK, SameReads, Waiting, Began

LEMMA TerminateReadsAs ==
  ASSUME NEW c \in Connection, NEW ec \in Reason
  PROVE  SameReads(c, terminate(c, ec))
BY DEF SameReads, terminate, Connection

LEMMA PushReadsAs ==
  ASSUME NEW c \in Connection, NEW f
  PROVE  SameReads(c, write_push(c, f))
BY DEF SameReads, write_push, Connection

LEMMA CloseReadsAs ==
  ASSUME NEW c \in Connection, NEW code \in CloseCode \cup {"blank"}, NEW ack \in BOOLEAN,
         NEW terminal, ack \/ code # "blank"
  PROVE  SameReads(c, send_close_frame(c, code, ack, terminal))
<1> DEFINE l == IF ack /\ code = "blank"
                THEN IF c.remote = "no_status" THEN "normal" ELSE c.remote
                ELSE code
           m == [c EXCEPT !.local = l, !.state = "closing", !.clean = @ \/ ack, !.timer = "close"]
<1>1. l \in CloseCode
  BY DEF Connection, CloseCode, Code
<1>2. PICK k \in BOOLEAN : k = (c.clean \/ ack)
  OBVIOUS
<1>3. m = [c EXCEPT !.local = l, !.state = "closing", !.clean = k, !.timer = "close"]
  BY <1>2
<1>4. send_close_frame(c, code, ack, terminal) = write_push(m, Frame("close", l, terminal))
  BY DEF send_close_frame
<1> HIDE DEF l
<1>5. m \in Connection /\ SameReads(c, m)
  BY <1>1, <1>3 DEF SameReads, Connection, State, Timer
<1> HIDE DEF m
<1>6. SameReads(m, write_push(m, Frame("close", l, terminal)))
  BY <1>5, PushReadsAs
<1> QED
  BY <1>4, <1>5, <1>6 DEF SameReads

\* read_frame() starts one read, by an end that has none.
LEMMA FrameReads ==
  ASSUME NEW c \in Connection, ReadsOK(c), c.doubled \/ c.reads <= 0, Began(c), c.acking = "no"
  PROVE  ReadsOK(read_frame(c))
<1>1. c.reads \in Int
  BY DEF Connection
<1>2. CASE ~c.readFlag
  BY <1>2 DEF read_frame
<1>3. CASE c.readFlag
  <2>1. PICK n \in Int : n = c.reads + 1
    BY <1>1
  <2>2. PICK d : d = [c EXCEPT !.reads = n]
    OBVIOUS
  <2>3. read_frame(c) = d
    BY <1>3, <2>1, <2>2 DEF read_frame
  <2>4. /\ d.reads = c.reads + 1 /\ d.doubled = c.doubled /\ d.acking = c.acking
        /\ d.reply = c.reply /\ d.istate = c.istate /\ d.http = c.http
    BY <2>1, <2>2 DEF Connection
  <2>5. c.reply = "none" /\ c.http # "deferred"
    BY DEF ReadsOK, Began
  <2> QED
    BY <1>1, <2>3, <2>4, <2>5 DEF ReadsOK, Waiting, Began
<1> QED
  BY <1>2, <1>3

\* A read of a frame that is done.
LEMMA ReceivedReads ==
  ASSUME WsInv, ReadsInv, NEW e \in End, ReadsFrames(e)
  PROVE  /\ Received(e) \in Connection /\ ReadsOK(Received(e)) /\ Began(Received(e))
         /\ Received(e).doubled \/ Received(e).reads <= 0
         /\ Received(e).acking = "no" /\ Received(e).doubled = conn[e].doubled
         /\ Received(e).reply = "none" /\ Received(e).http # "deferred"
<1> DEFINE c == Received(e)
<1>1. conn[e] \in Connection /\ ReadsOK(conn[e]) /\ Began(conn[e]) /\ conn[e].acking = "no"
  BY Seen DEF ReadsInv, ReadsFrames, Strand, Began
<1>2. c \in Connection
  BY ReceivedStill
<1>3. /\ c.reads = conn[e].reads - 1 /\ conn[e].reads \in Int
      /\ c.doubled = conn[e].doubled /\ c.acking = conn[e].acking /\ c.reply = conn[e].reply
      /\ c.istate = conn[e].istate /\ c.http = conn[e].http
  BY <1>1 DEF Received, Connection
<1> HIDE DEF c
<1>4. c.reply = "none" /\ c.http # "deferred"
  BY <1>1, <1>3 DEF ReadsOK, Began
<1> QED
  BY <1>1, <1>2, <1>3, <1>4 DEF ReadsOK, Waiting, Began, c

\* A step of one end.
LEMMA ReadsStep ==
  ASSUME WsInv, ReadsInv, NEW e \in End, NEW d, Becomes(e, d), ReadsOK(d)
  PROVE  ReadsInv'
<1>1. conn' = [conn EXCEPT ![e] = d] /\ conn \in [End -> Connection]
  BY DEF Becomes, WsInv, WsTypes
<1>2. ASSUME NEW x \in End PROVE ReadsOK(conn'[x])
  <2>1. CASE x = e
    BY <1>1, <2>1
  <2>2. CASE x # e
    BY <1>1, <2>2 DEF ReadsInv
  <2> QED
    BY <2>1, <2>2
<1> QED
  BY <1>2 DEF ReadsInv

\* Frames that are read.
LEMMA FramesRead ==
  ASSUME WsInv, ReadsInv, NEW e \in End,
         HandleMessage(e) \/ HandlePing(e) \/ HandleClose(e) \/ HandleGarbage(e)
  PROVE  ReadsInv'
<1> DEFINE c == Received(e)
<1>1. ReadsFrames(e)
  BY DEF HandleMessage, HandlePing, HandleClose, HandleGarbage
<1>2. /\ c \in Connection /\ ReadsOK(c) /\ Began(c) /\ (c.doubled \/ c.reads <= 0)
      /\ c.acking = "no" /\ c.reply = "none" /\ c.http # "deferred"
  BY <1>1, ReceivedReads
<1>3. Head(to[e]) \in WsFrame \/ to[e] = << >>
  BY Seen, TailFacts
<1>4. CASE HandleMessage(e)
  <2> DEFINE g == Append(c.got, Head(to[e]).code)
             m == IF c.state = "open" THEN [c EXCEPT !.got = g] ELSE c
  <2>1. Becomes(e, read_frame(m))
    BY <1>4 DEF HandleMessage
  <2>2. g \in Seq(Nat)
    <3>1. to[e] \in Seq(WsFrame) /\ to[e] # << >> /\ Head(to[e]).kind = "data"
      BY <1>4, Seen DEF HandleMessage, Arrives
    <3>2. Head(to[e]).code \in Nat
      BY <3>1, TailFacts, FrameKinds
    <3> QED
      BY <1>2, <3>2 DEF Connection
  <2> HIDE DEF g, c
  <2>3. m \in Connection /\ SameReads(c, m)
    BY <1>2, <2>2 DEF SameReads, Connection
  <2> HIDE DEF m
  <2>4. ReadsOK(m) /\ Began(m) /\ m.acking = "no" /\ (m.doubled \/ m.reads <= 0)
    BY <1>2, <2>3, SameReadsOK DEF SameReads, Began
  <2>5. ReadsOK(read_frame(m))
    BY <2>3, <2>4, FrameReads
  <2> QED
    BY <2>1, <2>5, ReadsStep
<1>5. CASE HandlePing(e)
  <2> DEFINE f == Frame("pong", "none", FALSE)
             m == IF c.state = "open" /\ Head(to[e]).kind = "ping" THEN write_push(c, f) ELSE c
  <2>1. Becomes(e, read_frame(m))
    BY <1>5 DEF HandlePing
  <2>2. f \in WsFrame
    BY DEF Frame, WsFrame, OtherKind, OtherCode, Status
  <2> HIDE DEF f, c
  <2>3. m \in Connection /\ SameReads(c, m)
    BY <1>2, <2>2, Pushed, PushReadsAs DEF SameReads
  <2> HIDE DEF m
  <2>4. ReadsOK(m) /\ Began(m) /\ m.acking = "no" /\ (m.doubled \/ m.reads <= 0)
    BY <1>2, <2>3, SameReadsOK DEF SameReads, Began
  <2>5. ReadsOK(read_frame(m))
    BY <2>3, <2>4, FrameReads
  <2> QED
    BY <2>1, <2>5, ReadsStep
<1>6. CASE HandleClose(e)
  <2> DEFINE code == Head(to[e]).code
             a == IF c.state = "open" THEN "open" ELSE IF ~c.clean THEN "closing" ELSE "ignored"
  <2>1. \/ Becomes(e, read_frame(c))
        \/ Becomes(e, [c EXCEPT !.remote = "bad", !.acking = "bad"])
        \/ Becomes(e, [c EXCEPT !.remote = code, !.acking = a])
    BY <1>6 DEF HandleClose
  <2> HIDE DEF c
  <2>2. ASSUME NEW k, NEW b, Becomes(e, [c EXCEPT !.remote = k, !.acking = b]) PROVE ReadsInv'
    <3>1. PICK d : d = [c EXCEPT !.remote = k, !.acking = b]
      OBVIOUS
    <3>2. /\ d.reads = c.reads /\ d.doubled = c.doubled
          /\ d.reply = c.reply /\ d.istate = c.istate /\ d.http = c.http
      BY <1>2, <3>1 DEF Connection
    <3>3. ReadsOK(d)
      BY <1>2, <3>2 DEF ReadsOK, Began, Connection
    <3> QED
      BY <2>2, <3>1, <3>3, ReadsStep
  <2>3. ReadsOK(read_frame(c))
    BY <1>2, FrameReads
  <2> QED
    BY <2>1, <2>2, <2>3, ReadsStep
<1>7. CASE HandleGarbage(e)
  <2>1. \/ Becomes(e, send_close_frame(c, "protocol_error", FALSE, TRUE))
        \/ Becomes(e, terminate(c, "invalid_state"))
    BY <1>7 DEF HandleGarbage
  <2> HIDE DEF c
  <2>2. ReadsOK(send_close_frame(c, "protocol_error", FALSE, TRUE))
    BY <1>2, CloseReadsAs, SameReadsOK DEF CloseCode, Code
  <2>3. ReadsOK(terminate(c, "invalid_state"))
    BY <1>2, TerminateReadsAs, SameReadsOK DEF Reason
  <2> QED
    BY <2>1, <2>2, <2>3, ReadsStep
<1> QED
  BY <1>4, <1>5, <1>6, <1>7

\* The acknowledgement is out, and the next read begins.
LEMMA AcknowledgeReads ==
  ASSUME WsInv, ReadsInv, NEW e \in End, Acknowledge(e)
  PROVE  ReadsInv'
<1> DEFINE c == conn[e]
           k == [c EXCEPT !.clean = TRUE]
           done(m) == read_frame([m EXCEPT !.acking = "no"])
<1>1. c.acking # "no" /\ c \in Connection /\ ReadsOK(c) /\ Shape(c)
  BY Seen DEF Acknowledge, ReadsInv, EndOK
<1>2. \/ \E code \in {"protocol_error", "blank"} :
           Becomes(e, done(send_close_frame(c, code, TRUE, e = "server")))
      \/ Becomes(e, done(terminate(k, "none")))
      \/ Becomes(e, done(k))
      \/ Becomes(e, done(c))
  BY DEF Acknowledge, AnswerClose, send_close_ack
<1>3. Began(c) /\ (c.doubled \/ c.reads <= 0)
  BY <1>1 DEF Shape, ReadsOK, Waiting
<1> HIDE DEF c
<1>4. ASSUME NEW m \in Connection, SameReads(c, m), Becomes(e, done(m)) PROVE ReadsInv'
  <2>1. PICK a : a = [m EXCEPT !.acking = "no"]
    OBVIOUS
  <2>2. /\ a \in Connection /\ a.acking = "no" /\ a.reads = m.reads /\ a.doubled = m.doubled
        /\ a.reply = m.reply /\ a.istate = m.istate /\ a.http = m.http
    BY <2>1 DEF Connection, Acking
  <2>3. ReadsOK(m)
    BY <1>1, <1>4, SameReadsOK
  <2>4. ReadsOK(a) /\ Began(a) /\ (a.doubled \/ a.reads <= 0)
    BY <1>3, <1>4, <2>2, <2>3 DEF ReadsOK, Waiting, Began, SameReads
  <2>5. ReadsOK(read_frame(a))
    BY <2>2, <2>4, FrameReads
  <2> QED
    BY <1>4, <2>1, <2>5, ReadsStep
<1>5. ASSUME NEW code \in {"protocol_error", "blank"},
             Becomes(e, done(send_close_frame(c, code, TRUE, e = "server")))
      PROVE  ReadsInv'
  <2>1. PICK last \in BOOLEAN : last = (e = "server")
    OBVIOUS
  <2>2. code \in CloseCode \cup {"blank"}
    BY DEF CloseCode, Code
  <2>3. /\ send_close_frame(c, code, TRUE, last) \in Connection
        /\ SameReads(c, send_close_frame(c, code, TRUE, last))
    BY <1>1, <2>2, CloseSent, CloseReadsAs
  <2> QED
    BY <1>4, <1>5, <2>1, <2>3
<1>6. k \in Connection /\ SameReads(c, k)
  BY <1>1 DEF Connection, SameReads
<1>7. SameReads(c, c)
  BY DEF SameReads
<1> HIDE DEF k
<1>8. terminate(k, "none") \in Connection /\ SameReads(c, terminate(k, "none"))
  <2>1. "none" \in Reason
    BY DEF Reason
  <2>2. terminate(k, "none") \in Connection /\ SameReads(k, terminate(k, "none"))
    BY <1>6, <2>1, Terminated, TerminateReadsAs
  <2> QED
    BY <1>6, <2>2 DEF SameReads
<1> QED
  BY <1>1, <1>2, <1>4, <1>5, <1>6, <1>7, <1>8

\* A read that ends in an error.
LEMMA ReadEndReads ==
  ASSUME WsInv, ReadsInv, NEW e \in End, HandleReadEnd(e)
  PROVE  ReadsInv'
<1> DEFINE c == Received(e)
<1>1. conn[e] \in Connection /\ ReadsOK(conn[e]) /\ c \in Connection
  BY Seen, ReceivedStill DEF ReadsInv
<1>2. /\ c.reads = conn[e].reads - 1 /\ conn[e].reads \in Int
      /\ c.doubled = conn[e].doubled /\ c.acking = conn[e].acking /\ c.reply = conn[e].reply
      /\ c.istate = conn[e].istate /\ c.http = conn[e].http
  BY <1>1 DEF Received, Connection
<1>3. \/ Becomes(e, c)
      \/ \E ec \in {"none", "eof", "read"} : Becomes(e, terminate(c, ec))
  BY DEF HandleReadEnd
<1> HIDE DEF c
<1>4. ReadsOK(c)
  BY <1>1, <1>2 DEF ReadsOK, Waiting, Began
<1>5. \A ec \in {"none", "eof", "read"} : ReadsOK(terminate(c, ec))
  <2> TAKE ec \in {"none", "eof", "read"}
  <2>1. ec \in Reason
    BY DEF Reason
  <2> QED
    BY <1>1, <1>4, <2>1, TerminateReadsAs, SameReadsOK
<1> QED
  BY <1>3, <1>4, <1>5, ReadsStep

\* Steps that do not touch the reads.
LEMMA OtherReads ==
  ASSUME WsInv, ReadsInv, NEW e \in End,
         \/ write_frame(e) \/ handle_write_frame(e) \/ handle_timeout(e) \/ handle_terminate(e)
         \/ TimerExpires(e) \/ AppEnds(e) \/ handle_pause_reading(e)
         \/ \E what \in {"send", "ping", "close"} : Begin(e, what)
  PROVE  ReadsInv'
<1> DEFINE c == conn[e]
<1>1. c \in Connection /\ ReadsOK(c)
  BY Seen DEF ReadsInv
<1>2. ASSUME NEW d, SameReads(c, d), Becomes(e, d) PROVE ReadsInv'
  BY <1>1, <1>2, SameReadsOK, ReadsStep
<1>3. ASSUME NEW k \in Connection, SameReads(c, k), NEW ec \in Reason, Becomes(e, terminate(k, ec))
      PROVE  ReadsInv'
  <2>1. SameReads(k, terminate(k, ec))
    BY TerminateReadsAs
  <2>2. SameReads(c, terminate(k, ec))
    BY <1>3, <2>1 DEF SameReads
  <2> QED
    BY <1>2, <1>3, <2>2
<1>4. ASSUME NEW k \in Connection, SameReads(c, k), NEW f, Becomes(e, write_push(k, f))
      PROVE  ReadsInv'
  <2>1. SameReads(k, write_push(k, f))
    BY PushReadsAs
  <2>2. SameReads(c, write_push(k, f))
    BY <1>4, <2>1 DEF SameReads
  <2> QED
    BY <1>2, <1>4, <2>2
<1>5. "write" \in Reason /\ "none" \in Reason /\ "timeout" \in Reason
  BY DEF Reason
<1> HIDE DEF c
<1>6. CASE write_frame(e)
  <2> DEFINE k == [c EXCEPT !.posted = FALSE]
  <2>1. \/ Becomes(e, k)
        \/ \E n \in 1..Len(k.queue) :
             Becomes(e, [k EXCEPT !.flag = TRUE, !.writing = SubSeq(k.queue, 1, n),
                                  !.queue = SubSeq(k.queue, n + 1, Len(k.queue))])
    BY <1>6 DEF write_frame, c
  <2>2. k \in Connection /\ SameReads(c, k)
    BY <1>1 DEF Connection, SameReads
  <2> HIDE DEF k
  <2>3. \A v, q : SameReads(c, [k EXCEPT !.flag = TRUE, !.writing = v, !.queue = q])
    BY <2>2 DEF Connection, SameReads
  <2> QED
    BY <1>2, <2>1, <2>2, <2>3
<1>7. CASE handle_write_frame(e)
  <2> DEFINE k == [c EXCEPT !.writing = << >>]
  <2>1. \/ Becomes(e, terminate(k, "none")) \/ Becomes(e, terminate(k, "write"))
        \/ Becomes(e, [k EXCEPT !.flag = FALSE, !.posted = @ \/ k.queue # << >>])
    BY <1>7 DEF handle_write_frame, c
  <2>2. k \in Connection /\ SameReads(c, k)
    <3>1. << >> \in Seq(WsFrame)
      OBVIOUS
    <3>2. k \in Connection
      BY <1>1, <3>1 DEF Connection
    <3>3. SameReads(c, k)
      BY <1>1 DEF Connection, SameReads
    <3> QED
      BY <3>2, <3>3
  <2> HIDE DEF k
  <2>3. SameReads(c, [k EXCEPT !.flag = FALSE, !.posted = @ \/ k.queue # << >>])
    BY <2>2 DEF Connection, SameReads
  <2> QED
    BY <1>2, <1>3, <1>5, <2>1, <2>2, <2>3
<1>8. CASE handle_timeout(e)
  <2>1. PICK t \in c.late : Becomes(e, terminate([c EXCEPT !.late = @ \ {t}], "timeout"))
    BY <1>8 DEF handle_timeout, c
  <2>2. PICK k : k = [c EXCEPT !.late = @ \ {t}]
    OBVIOUS
  <2>3. k \in Connection /\ SameReads(c, k)
    BY <1>1, <2>2 DEF Connection, SameReads
  <2> QED
    BY <1>3, <1>5, <2>1, <2>2, <2>3
<1>9. CASE handle_terminate(e)
  <2>1. PICK how : Becomes(e, [c EXCEPT !.ending = Tail(@), !.called = @ \o how \o <<"terminated">>])
    BY <1>9 DEF handle_terminate, c
  <2>2. \A v, w : SameReads(c, [c EXCEPT !.ending = v, !.called = w])
    BY <1>1 DEF Connection, SameReads
  <2> QED
    BY <1>2, <2>1, <2>2
<1>10. CASE TimerExpires(e)
  <2>1. Becomes(e, [c EXCEPT !.timer = "none", !.late = @ \cup {c.timer}])
    BY <1>10 DEF TimerExpires, c
  <2>2. \A v : SameReads(c, [c EXCEPT !.timer = "none", !.late = v])
    BY <1>1 DEF Connection, SameReads
  <2> QED
    BY <1>2, <2>1, <2>2
<1>11. CASE AppEnds(e)
  <2>1. \A a \in {"idle", "done"} : /\ [c EXCEPT !.app = a] \in Connection
                                    /\ SameReads(c, [c EXCEPT !.app = a])
    BY <1>1 DEF Connection, SameReads, App
  <2>2. CASE send(e) \/ ping(e)
    <3>1. \E f : Becomes(e, write_push([c EXCEPT !.app = "idle"], f))
      BY <2>2 DEF send, ping, c
    <3> QED
      BY <1>4, <2>1, <3>1
  <2>3. ASSUME NEW code \in {"normal", "no_status"}, close(e, code) PROVE ReadsInv'
    <3>1. PICK k : k = [c EXCEPT !.app = "done"]
      OBVIOUS
    <3>2. k \in Connection /\ SameReads(c, k)
      BY <2>1, <3>1
    <3>3. Becomes(e, send_close_frame(k, code, FALSE, code = "protocol_error"))
      BY <2>3, <3>1 DEF close, c
    <3>4. SameReads(k, send_close_frame(k, code, FALSE, code = "protocol_error"))
      BY <3>2, CloseReadsAs DEF CloseCode, Code
    <3>5. SameReads(c, send_close_frame(k, code, FALSE, code = "protocol_error"))
      BY <3>2, <3>4 DEF SameReads
    <3> QED
      BY <1>2, <3>3, <3>5
  <2> QED
    BY <1>11, <2>2, <2>3 DEF AppEnds
<1>12. CASE handle_pause_reading(e)
  <2>1. Becomes(e, [c EXCEPT !.readFlag = FALSE])
    BY <1>12 DEF handle_pause_reading, c
  <2>2. SameReads(c, [c EXCEPT !.readFlag = FALSE])
    BY <1>1 DEF Connection, SameReads
  <2> QED
    BY <1>2, <2>1, <2>2
<1>13. ASSUME NEW what \in {"send", "ping", "close"}, Begin(e, what) PROVE ReadsInv'
  <2>1. PICK n : Becomes(e, [c EXCEPT !.app = what, !.pings = n])
    BY <1>13 DEF Begin, c
  <2>2. SameReads(c, [c EXCEPT !.app = what, !.pings = n])
    BY <1>1 DEF Connection, SameReads
  <2> QED
    BY <1>2, <2>1, <2>2
<1> QED
  BY <1>6, <1>7, <1>8, <1>9, <1>10, <1>11, <1>12, <1>13

\* resume_reading(): the one step that may start a second read.
LEMMA ResumeReads ==
  ASSUME WsInv, ReadsInv, NEW e \in End, handle_resume_reading(e)
  PROVE  ReadsInv'
<1> DEFINE c == conn[e]
<1>1. c \in Connection /\ ReadsOK(c) /\ Began(c) /\ c.acking = "no"
  BY Seen DEF ReadsInv, handle_resume_reading, Strand, EndOK, Shape
<1>2. PICK b \in BOOLEAN : b = (c.doubled \/ c.reads > 0)
  OBVIOUS
<1>3. PICK d : d = [c EXCEPT !.readFlag = TRUE, !.doubled = b]
  OBVIOUS
<1>4. Becomes(e, read_frame(d))
  BY <1>2, <1>3 DEF handle_resume_reading
<1> HIDE DEF c
<1>5. /\ d \in Connection /\ d.reads = c.reads /\ d.doubled = b /\ d.acking = c.acking
      /\ d.reply = c.reply /\ d.istate = c.istate /\ d.http = c.http /\ c.reads \in Int
  BY <1>1, <1>2, <1>3 DEF Connection
<1>6. ReadsOK(d) /\ Began(d) /\ (d.doubled \/ d.reads <= 0)
  <2>1. Began(d)
    BY <1>1, <1>5 DEF Began
  <2>2. CASE d.doubled
    BY <1>1, <1>5, <2>1, <2>2 DEF ReadsOK
  <2>3. CASE ~d.doubled
    <3>1. ~b
      BY <1>5, <2>3
    <3>2. ~c.doubled /\ ~(c.reads > 0)
      BY <1>2, <3>1
    <3>3. d.reads <= 0
      BY <1>5, <3>2
    <3> QED
      BY <1>1, <1>5, <2>1, <3>2, <3>3 DEF ReadsOK, Waiting
  <2> QED
    BY <2>2, <2>3
<1>7. ReadsOK(read_frame(d))
  BY <1>1, <1>5, <1>6, FrameReads
<1> QED
  BY <1>4, <1>7, ReadsStep

\* The handshakes.
LEMMA HandshakeReads ==
  ASSUME WsInv, ReadsInv, NEW e \in End,
         \/ start(e) \/ handle_transport_init(e)
         \/ e = "client" /\ (handle_send_http_request \/ handle_read_http_response)
         \/ e = "server" /\ (handle_read_handshake \/ handle_write_http_response)
         \/ e = "server" /\ send_http_response
  PROVE  ReadsInv'
<1> DEFINE c == conn[e]
<1>1. c \in Connection /\ ReadsOK(c) /\ Shape(c) /\ c.reads \in Int
  BY Seen DEF ReadsInv, EndOK, Connection
<1>2. ASSUME NEW k \in Connection, ReadsOK(k), NEW ec \in Reason, Becomes(e, terminate(k, ec))
      PROVE  ReadsInv'
  BY <1>2, TerminateReadsAs, SameReadsOK, ReadsStep
<1>3. ASSUME NEW k \in Connection, ReadsOK(k), k.doubled \/ k.reads <= 0, k.acking = "no",
             k.reply = "none", k.http # "deferred", Becomes(e, Opened(k))
      PROVE  ReadsInv'
  <2>1. PICK h \in Seq(Call) : h = Append(k.called, "open")
    <3>1. Append(k.called, "open") \in Seq(Call)
      BY <1>3 DEF Connection, Call
    <3> QED
      BY <3>1
  <2>2. PICK m : m = [k EXCEPT !.istate = "PROCESS_CONNECTION", !.state = "open", !.called = h]
    OBVIOUS
  <2>3. Opened(k) = read_frame(m)
    BY <2>1, <2>2 DEF Opened
  <2>4. /\ m \in Connection /\ m.reads = k.reads /\ m.doubled = k.doubled /\ m.acking = k.acking
        /\ m.reply = k.reply /\ m.istate = "PROCESS_CONNECTION" /\ m.http = k.http
    BY <2>1, <2>2 DEF Connection, State, InternalState
  <2>5. ReadsOK(m) /\ Began(m) /\ k.reads \in Int
    BY <1>3, <2>4 DEF ReadsOK, Waiting, Began, Connection
  <2>6. ReadsOK(read_frame(m))
    BY <1>3, <2>4, <2>5, FrameReads
  <2> QED
    BY <1>3, <2>3, <2>6, ReadsStep
<1>4. {"init", "write", "refused", "http_connection_ended", "extension_neg_failed",
       "invalid_http_status"} \subseteq Reason
  BY DEF Reason
<1>5. CASE start(e)
  <2>1. Becomes(e, [c EXCEPT !.istate = "TRANSPORT_INIT"]) /\ c.istate = "USER_INIT"
    BY <1>5 DEF start
  <2> HIDE DEF c
  <2>2. PICK d : d = [c EXCEPT !.istate = "TRANSPORT_INIT"]
    OBVIOUS
  <2>3. /\ d.reads = c.reads /\ d.doubled = c.doubled /\ d.acking = c.acking
        /\ d.reply = c.reply /\ d.istate = "TRANSPORT_INIT" /\ d.http = c.http
    BY <1>1, <2>2 DEF Connection
  <2>4. ReadsOK(d)
    BY <1>1, <2>1, <2>3 DEF ReadsOK, Waiting, Began
  <2> QED
    BY <2>1, <2>2, <2>4, ReadsStep
<1>6. CASE handle_transport_init(e)
  <2>1. /\ c.istate = "TRANSPORT_INIT"
        /\ \/ Becomes(e, [c EXCEPT !.istate = "READ_HTTP_REQUEST", !.timer = "open", !.reads = 1])
           \/ Becomes(e, [c EXCEPT !.istate = "WRITE_HTTP_REQUEST", !.timer = "open",
                                   !.reply = "request"])
           \/ Becomes(e, terminate(c, "init"))
    BY <1>6 DEF handle_transport_init
  <2>2. c.acking = "no" /\ c.http # "deferred"
    BY <1>1, <2>1 DEF Shape, Began, ReadsOK
  <2> HIDE DEF c
  <2>3. PICK s : s = [c EXCEPT !.istate = "READ_HTTP_REQUEST", !.timer = "open", !.reads = 1]
    OBVIOUS
  <2>4. /\ s.reads = 1 /\ s.acking = c.acking /\ s.doubled = c.doubled
        /\ s.reply = c.reply /\ s.istate = "READ_HTTP_REQUEST" /\ s.http = c.http
    BY <1>1, <2>3 DEF Connection
  <2>5. PICK t : t = [c EXCEPT !.istate = "WRITE_HTTP_REQUEST", !.timer = "open",
                               !.reply = "request"]
    OBVIOUS
  <2>6. /\ t.reads = c.reads /\ t.doubled = c.doubled /\ t.acking = c.acking
        /\ t.istate = "WRITE_HTTP_REQUEST" /\ t.http = c.http
    BY <1>1, <2>5 DEF Connection
  <2>7. ReadsOK(t)
    BY <1>1, <2>1, <2>2, <2>6 DEF ReadsOK, Waiting, Began
  <2>8. c.reply = "none"
    BY <1>1, <2>1 DEF ReadsOK
  <2>9. ReadsOK(s)
    BY <2>2, <2>4, <2>8 DEF ReadsOK, Waiting, Began
  <2> QED
    BY <1>1, <1>2, <1>4, <2>1, <2>3, <2>5, <2>7, <2>9, ReadsStep
<1>7. CASE e = "client" /\ handle_send_http_request
  <2> DEFINE k == [c EXCEPT !.reply = "none"]
  <2>1. /\ c.reply = "request"
        /\ \/ Becomes(e, [k EXCEPT !.istate = "READ_HTTP_RESPONSE", !.reads = 1])
           \/ Becomes(e, k)
           \/ Becomes(e, terminate(k, "write"))
    BY <1>7 DEF handle_send_http_request
  <2>2. c.acking = "no" /\ c.http # "deferred"
    BY <1>1, <2>1 DEF Shape, Began, ReadsOK
  <2> HIDE DEF c
  <2>3. /\ k \in Connection /\ k.reads = c.reads /\ k.acking = c.acking /\ k.doubled = c.doubled
        /\ k.reply = "none" /\ k.istate = c.istate /\ k.http = c.http
    BY <1>1 DEF Connection, Reply
  <2> HIDE DEF k
  <2>4. ReadsOK(k)
    BY <1>1, <2>1, <2>2, <2>3 DEF ReadsOK, Waiting, Began
  <2>5. PICK s : s = [k EXCEPT !.istate = "READ_HTTP_RESPONSE", !.reads = 1]
    OBVIOUS
  <2>6. /\ s.reads = 1 /\ s.acking = k.acking /\ s.doubled = k.doubled
        /\ s.reply = k.reply /\ s.istate = "READ_HTTP_RESPONSE" /\ s.http = k.http
    BY <2>3, <2>5 DEF Connection
  <2>7. ReadsOK(s)
    BY <2>2, <2>3, <2>6 DEF ReadsOK, Waiting, Began
  <2> QED
    BY <1>2, <1>4, <2>1, <2>3, <2>4, <2>5, <2>7, ReadsStep
<1>8. CASE e = "client" /\ handle_read_http_response
  <2> DEFINE k == [c EXCEPT !.reads = 0, !.timer = "none"]
             r == [c EXCEPT !.reads = 0]
  <2>1. /\ c.istate = "READ_HTTP_RESPONSE"
        /\ \/ Becomes(e, Opened(k))
           \/ Becomes(e, Opened(terminate(k, "extension_neg_failed")))
           \/ Becomes(e, terminate(k, "invalid_http_status"))
           \/ Becomes(e, r)
    <3>1. /\ k.istate = "READ_HTTP_RESPONSE"
          /\ \/ Becomes(e, Opened(k))
             \/ Becomes(e, Opened(terminate(k, "extension_neg_failed")))
             \/ Becomes(e, terminate(k, "invalid_http_status"))
             \/ Becomes(e, r)
      BY <1>8 DEF handle_read_http_response
    <3> QED
      BY <1>1, <3>1 DEF Connection
  <2>2. c.acking = "no" /\ c.http # "deferred" /\ c.reply = "none"
    BY <1>1, <2>1 DEF Shape, Began, ReadsOK
  <2> HIDE DEF c
  <2>3. /\ k \in Connection /\ k.reads = 0 /\ k.acking = c.acking /\ k.doubled = c.doubled
        /\ k.reply = c.reply /\ k.istate = c.istate /\ k.http = c.http
        /\ r.reads = 0 /\ r.acking = c.acking /\ r.doubled = c.doubled
        /\ r.reply = c.reply /\ r.istate = c.istate /\ r.http = c.http
    <3>1. 0 \in Int /\ "none" \in Timer
      BY DEF Timer
    <3>2. PICK m : m = [c EXCEPT !.reads = 0]
      OBVIOUS
    <3>3. m \in Connection
      BY <1>1, <3>1, <3>2 DEF Connection
    <3>4. k = [m EXCEPT !.timer = "none"]
      BY <1>1, <3>2 DEF Connection
    <3>5. k \in Connection
      BY ZenonT(30), <3>1, <3>3, <3>4 DEF Connection
    <3>6. /\ k.reads = 0 /\ k.acking = c.acking /\ k.doubled = c.doubled
          /\ k.reply = c.reply /\ k.istate = c.istate /\ k.http = c.http
      BY <1>1 DEF Connection
    <3>7. /\ r.reads = 0 /\ r.acking = c.acking /\ r.doubled = c.doubled
          /\ r.reply = c.reply /\ r.istate = c.istate /\ r.http = c.http
      BY <1>1 DEF Connection
    <3> QED
      BY <3>5, <3>6, <3>7
  <2> HIDE DEF k, r
  <2>4. ReadsOK(k) /\ ReadsOK(r)
    BY <2>2, <2>3 DEF ReadsOK, Waiting, Began
  <2>5. PICK t : t = terminate(k, "extension_neg_failed")
    OBVIOUS
  <2>6. t \in Connection /\ SameReads(k, t)
    BY <1>4, <2>3, <2>5, Terminated, TerminateReadsAs
  <2>7. ReadsOK(t) /\ t.reads = 0 /\ t.acking = "no" /\ t.reply = "none" /\ t.http # "deferred"
    BY <2>2, <2>3, <2>4, <2>6, SameReadsOK DEF SameReads
  <2>8. 0 <= 0
    OBVIOUS
  <2> QED
    BY <1>2, <1>3, <1>4, <2>1, <2>2, <2>3, <2>4, <2>5, <2>6, <2>7, <2>8, ReadsStep
<1>9. CASE e = "server" /\ handle_read_handshake
  <2> DEFINE k == [c EXCEPT !.reads = 0]
             a(v) == [k EXCEPT !.istate = "PROCESS_HTTP_REQUEST", !.status = v, !.reply = "response"]
  <2>1. /\ c.istate = "READ_HTTP_REQUEST"
        /\ \/ \E v : Becomes(e, a(v))
           \/ Becomes(e, [a("ok") EXCEPT !.isHttp = TRUE])
           \/ Becomes(e, [a("ok") EXCEPT !.isHttp = TRUE, !.reply = "none",
                                         !.http = "deferred", !.timer = "none"])
           \/ Becomes(e, k)
    <3>1. /\ k.istate = "READ_HTTP_REQUEST"
          /\ \/ Becomes(e, a("switching_protocols")) \/ Becomes(e, a("bad_request"))
             \/ Becomes(e, [a("ok") EXCEPT !.isHttp = TRUE])
             \/ Becomes(e, [a("ok") EXCEPT !.isHttp = TRUE, !.reply = "none",
                                           !.http = "deferred", !.timer = "none"])
             \/ Becomes(e, k)
      BY <1>9 DEF handle_read_handshake
    <3> QED
      BY <1>1, <3>1 DEF Connection
  <2>2. c.acking = "no" /\ c.http # "deferred" /\ c.reply = "none"
    BY <1>1, <2>1 DEF Shape, Began, ReadsOK
  <2> HIDE DEF c
  <2>3. /\ k \in Connection /\ k.reads = 0 /\ k.acking = c.acking
        /\ k.reply = c.reply /\ k.istate = c.istate /\ k.http = c.http
    <3>1. 0 \in Int
      OBVIOUS
    <3>2. k \in Connection
      BY <1>1, <3>1 DEF Connection
    <3>3. /\ k.reads = 0 /\ k.acking = c.acking
          /\ k.reply = c.reply /\ k.istate = c.istate /\ k.http = c.http
      BY <1>1 DEF Connection
    <3> QED
      BY <3>2, <3>3
  <2> HIDE DEF k
  <2>4. ReadsOK(k)
    <3>1. k.reads <= 1 /\ k.reads <= 0
      BY <2>3
    <3> QED
      BY <2>1, <2>2, <2>3, <3>1 DEF ReadsOK
  <2>5. ASSUME NEW d, d.reads = 0, d.acking = "no", d.istate = "PROCESS_HTTP_REQUEST",
               d.http = "deferred" => d.reply = "none"
        PROVE  ReadsOK(d)
    BY <2>5 DEF ReadsOK, Waiting, Began
  <2>6. \A v : ReadsOK(a(v))
    <3> TAKE v
    <3>1. /\ a(v).reads = 0 /\ a(v).acking = "no" /\ a(v).istate = "PROCESS_HTTP_REQUEST"
          /\ a(v).http = k.http
      BY <2>2, <2>3 DEF Connection
    <3> QED
      BY <2>2, <2>3, <2>5, <3>1
  <2>7. ReadsOK([a("ok") EXCEPT !.isHttp = TRUE])
    <3>1. PICK d : d = [a("ok") EXCEPT !.isHttp = TRUE]
      OBVIOUS
    <3>2. /\ d.reads = 0 /\ d.acking = "no" /\ d.istate = "PROCESS_HTTP_REQUEST"
          /\ d.http = k.http
      BY <2>2, <2>3, <3>1 DEF Connection
    <3> QED
      BY <2>2, <2>3, <2>5, <3>1, <3>2
  <2>8. ReadsOK([a("ok") EXCEPT !.isHttp = TRUE, !.reply = "none", !.http = "deferred",
                                !.timer = "none"])
    <3>1. PICK d : d = [a("ok") EXCEPT !.isHttp = TRUE, !.reply = "none", !.http = "deferred",
                                       !.timer = "none"]
      OBVIOUS
    <3>2. /\ d.reads = 0 /\ d.acking = "no" /\ d.istate = "PROCESS_HTTP_REQUEST"
          /\ d.reply = "none"
      BY <2>2, <2>3, <3>1 DEF Connection
    <3> QED
      BY <2>5, <3>1, <3>2
  <2> QED
    BY <2>1, <2>4, <2>6, <2>7, <2>8, ReadsStep
<1>10. CASE e = "server" /\ handle_write_http_response
  <2> DEFINE k == [c EXCEPT !.reply = "none", !.timer = "none"]
             r == [c EXCEPT !.reply = "none"]
  <2>1. /\ c.reply = "response"
        /\ \/ Becomes(e, Opened(k))
           \/ \E ec \in {"http_connection_ended", "refused"} : Becomes(e, terminate(k, ec))
           \/ Becomes(e, r)
           \/ Becomes(e, terminate(r, "write"))
    BY <1>10 DEF handle_write_http_response
  <2>2. c.acking = "no" /\ c.http # "deferred" /\ (c.doubled \/ c.reads <= 0)
    BY <1>1, <2>1 DEF Shape, Began, ReadsOK, Waiting
  <2> HIDE DEF c
  <2>3. /\ k \in Connection /\ k.reads = c.reads /\ k.acking = c.acking /\ k.doubled = c.doubled
        /\ k.reply = "none" /\ k.istate = c.istate /\ k.http = c.http
        /\ r \in Connection /\ r.reads = c.reads /\ r.acking = c.acking /\ r.doubled = c.doubled
        /\ r.reply = "none" /\ r.istate = c.istate /\ r.http = c.http
    BY <1>1 DEF Connection, Timer, Reply
  <2> HIDE DEF k, r
  <2>4. ReadsOK(k) /\ ReadsOK(r)
    BY <1>1, <2>2, <2>3 DEF ReadsOK, Waiting, Began
  <2> QED
    BY <1>2, <1>3, <1>4, <2>1, <2>2, <2>3, <2>4, ReadsStep
<1>11. CASE e = "server" /\ send_http_response
  <2>1. /\ c.http = "deferred"
        /\ Becomes(e, [c EXCEPT !.http = "body_written", !.reply = "response"])
    BY <1>11 DEF send_http_response
  <2> HIDE DEF c
  <2>2. PICK d : d = [c EXCEPT !.http = "body_written", !.reply = "response"]
    OBVIOUS
  <2>3. /\ d.reads = c.reads /\ d.acking = c.acking /\ d.doubled = c.doubled
        /\ d.istate = c.istate /\ d.http = "body_written"
    BY <1>1, <2>2 DEF Connection
  <2>4. ReadsOK(d)
    BY <1>1, <2>1, <2>3 DEF ReadsOK, Waiting, Began
  <2> QED
    BY <2>1, <2>2, <2>4, ReadsStep
<1> QED
  BY <1>5, <1>6, <1>7, <1>8, <1>9, <1>10, <1>11

LEMMA PlainReads ==
  ASSUME WsInv, ReadsInv, PlainRequest
  PROVE  ReadsInv'
<1>1. conn' = [conn EXCEPT !["client"].state = "closed"] /\ conn \in [End -> Connection]
  BY DEF PlainRequest, WsInv, WsTypes
<1>2. PICK d : d = [conn["client"] EXCEPT !.state = "closed"]
  OBVIOUS
<1>3. "client" \in End
  BY DEF End
<1>4. Becomes("client", d)
  BY <1>1, <1>2, <1>3 DEF Becomes
<1>5. conn["client"] \in Connection
  BY <1>1, <1>3
<1>6. SameReads(conn["client"], d)
  BY <1>2, <1>5 DEF SameReads, Connection
<1>7. ReadsOK(d)
  BY <1>3, <1>6, SameReadsOK DEF ReadsInv
<1> QED
  BY <1>3, <1>4, <1>7, ReadsStep

(* Every step keeps one outstanding read, or doubles it by name.            *)
LEMMA ReadsKeep ==
  ASSUME WsInv, ReadsInv, [WsNext]_wsVars
  PROVE  ReadsInv'
<1>1. CASE conn' = conn
  BY <1>1 DEF ReadsInv
<1>2. CASE PlainRequest
  BY <1>2, PlainReads
<1>3. CASE send_http_response
  <2>1. "server" \in End
    BY DEF End
  <2> QED
    BY <1>3, <2>1, HandshakeReads
<1>4. ASSUME NEW e \in End, StrandStep(e) PROVE ReadsInv'
  <2>1. CASE HandleMessage(e) \/ HandlePing(e) \/ HandleClose(e) \/ HandleGarbage(e)
    BY <2>1, FramesRead
  <2>2. CASE Acknowledge(e)
    BY <2>2, AcknowledgeReads
  <2>3. CASE HandleReadEnd(e)
    BY <2>3, ReadEndReads
  <2>4. CASE write_frame(e) \/ handle_write_frame(e) \/ handle_timeout(e) \/ handle_terminate(e)
    BY <2>4, OtherReads
  <2>5. CASE \/ handle_transport_init(e)
             \/ e = "client" /\ (handle_send_http_request \/ handle_read_http_response)
             \/ e = "server" /\ (handle_read_handshake \/ handle_write_http_response)
    BY <2>5, HandshakeReads
  <2> QED
    BY <1>4, <2>1, <2>2, <2>3, <2>4, <2>5 DEF StrandStep
<1>5. ASSUME NEW e \in End, start(e) PROVE ReadsInv'
  BY <1>5, HandshakeReads
<1>6. ASSUME NEW e \in End, \/ TimerExpires(e) \/ AppEnds(e) \/ handle_pause_reading(e)
                            \/ \E what \in {"send", "ping", "close"} : Begin(e, what)
      PROVE  ReadsInv'
  BY <1>6, OtherReads
<1>7. ASSUME NEW e \in End, handle_resume_reading(e) PROVE ReadsInv'
  BY <1>7, ResumeReads
<1>8. ASSUME NEW e \in End, BadPeer(e) \/ Overwritten(e) PROVE ReadsInv'
  BY <1>1, <1>8 DEF BadPeer, Overwritten
<1>9. CASE UNCHANGED wsVars
  BY <1>1, <1>9 DEF wsVars
<1> QED
  BY <1>2, <1>3, <1>4, <1>5, <1>6, <1>7, <1>8, <1>9 DEF WsNext

WsSpec == WsInit /\ [][WsNext]_wsVars

LEMMA WsBegins ==
  ASSUME WsInit
  PROVE  WsInv
<1>1. NewConnection \in Connection
  BY DEF NewConnection, Connection, State, InternalState, Reason, Timer, Reply, CloseCode, Code,
         HttpState, Status, Ending, Call, App, Acking
<1>2. WsTypes
  BY <1>1 DEF WsInit, WsTypes
<1>3. \A e \in End : /\ conn[e] = NewConnection /\ to[e] = << >> /\ stale[e] = FALSE
                     /\ sent[e] = << >> /\ accepted[e] = << >>
  BY DEF WsInit
<1>4. Out(NewConnection) = << >> /\ ~Mute(NewConnection)
  <2>1. ~Mute(NewConnection)
    BY DEF Mute, NewConnection
  <2>2. NewConnection.writing = << >> /\ NewConnection.queue = << >>
    BY DEF NewConnection
  <2>3. << >> \o << >> = << >>
    OBVIOUS
  <2> QED
    BY <2>1, <2>2, <2>3 DEF Out
<1>5. Upto(0) = << >> /\ Len(<< >>) = 0 /\ << >> \o << >> = << >>
  BY DEF Upto
<1>6. Shape(NewConnection) /\ Story(NewConnection) /\ NewConnection.got = << >>
      /\ ~Told(NewConnection)
  BY DEF Shape, Story, NewConnection, Began, Told
<1>7. NoClose(<< >>) /\ CloseLast(<< >>) /\ Follows(<< >>, 0, 0) /\ Reaches(<< >>, 0, 0)
  BY <1>5 DEF NoClose, CloseLast, Follows, Reaches
<1>8. EndOK(NewConnection, << >>, << >>, FALSE)
  BY <1>4, <1>5, <1>6, <1>7 DEF EndOK, LineOK
<1>9. \A m \in BOOLEAN : Carried(NewConnection, << >>, m, 0)
  BY <1>5, <1>6, <1>7 DEF Carried, InStep
<1>10. Codes(NewConnection, << >>, NewConnection)
  BY <1>5, <1>6, <1>7 DEF Codes
<1>11. \A e \in End : /\ EndOK(conn[e], sent[e], accepted[e], stale[e])
                      /\ Carried(conn[e], Pipe(e), Mute(conn[Other(e)]), Len(accepted[Other(e)]))
                      /\ Codes(conn[e], Pipe(e), conn[Other(e)])
  <2> TAKE e \in End
  <2>1. Other(e) \in End
    BY TwoEnds
  <2>2. Pipe(e) = << >> /\ Len(accepted[Other(e)]) = 0 /\ conn[Other(e)] = NewConnection
    BY <1>3, <1>4, <1>5, <2>1 DEF Pipe
  <2>3. Mute(conn[Other(e)]) \in BOOLEAN
    BY DEF Mute
  <2> QED
    BY <1>3, <1>8, <1>9, <1>10, <2>2, <2>3
<1> QED
  BY <1>2, <1>11 DEF WsInv

LEMMA WsStep ==
  ASSUME WsInv, ReadsInv, [WsNext]_wsVars
  PROVE  WsInv'
<1>1. CASE UNCHANGED wsVars
  <2>1. /\ conn' = conn /\ up' = up /\ to' = to /\ stale' = stale /\ sent' = sent
        /\ accepted' = accepted /\ faults' = faults
    BY <1>1 DEF wsVars
  <2> QED
    BY <2>1 DEF WsInv, WsTypes, Pipe, Undisturbed
<1>2. CASE send_http_response
  BY <1>2, SendResponseKeeps
<1>3. CASE PlainRequest
  BY <1>3, PlainRequestKeeps
<1>4. ASSUME NEW e \in End, start(e) PROVE WsInv'
  BY <1>4, StartKeeps
<1>5. ASSUME NEW e \in End, StrandStep(e) PROVE WsInv'
  <2>1. CASE HandleMessage(e)
    BY <2>1, HandleMessageKeeps
  <2>2. CASE HandlePing(e)
    BY <2>2, HandlePingKeeps
  <2>3. CASE HandleClose(e)
    BY <2>3, HandleCloseKeeps
  <2>4. CASE Acknowledge(e)
    BY <2>4, AcknowledgeKeeps
  <2>5. CASE HandleGarbage(e)
    BY <2>5, HandleGarbageKeeps
  <2>6. CASE HandleReadEnd(e)
    BY <2>6, ReadEndKeeps
  <2>7. CASE write_frame(e)
    BY <2>7, WriteFrameKeeps
  <2>8. CASE handle_write_frame(e)
    BY <2>8, HandleWriteKeeps
  <2>9. CASE handle_timeout(e)
    BY <2>9, TimeoutKeeps
  <2>10. CASE handle_terminate(e)
    BY <2>10, EndedKeeps
  <2>11. CASE handle_transport_init(e)
    BY <2>11, TransportInitKeeps
  <2>12. CASE handle_send_http_request
    BY <2>12, SendRequestKeeps
  <2>13. CASE handle_read_http_response
    BY <2>13, ReadResponseKeeps
  <2>14. CASE handle_read_handshake
    BY <2>14, ReadHandshakeKeeps
  <2>15. CASE handle_write_http_response
    BY <2>15, WriteResponseKeeps
  <2> QED
    BY <1>5, <2>1, <2>2, <2>3, <2>4, <2>5, <2>6, <2>7, <2>8, <2>9, <2>10, <2>11, <2>12, <2>13,
       <2>14, <2>15 DEF StrandStep
<1>6. ASSUME NEW e \in End, TimerExpires(e) PROVE WsInv'
  BY <1>6, TimerKeeps
<1>7. ASSUME NEW e \in End, AppEnds(e) PROVE WsInv'
  BY <1>7, SendKeeps, PingKeeps, CloseKeeps DEF AppEnds
<1>8. ASSUME NEW e \in End, BadPeer(e) PROVE WsInv'
  BY <1>8, BadPeerKeeps
<1>9. ASSUME NEW e \in End, \E what \in {"send", "ping", "close"} : Begin(e, what) PROVE WsInv'
  BY <1>9, BeginKeeps
<1>10. ASSUME NEW e \in End, handle_pause_reading(e) \/ handle_resume_reading(e) PROVE WsInv'
  BY <1>10, PauseKeeps
<1>11. ASSUME NEW e \in End, Overwritten(e) PROVE WsInv'
  <2>1. conn[e].reads \in Int /\ ReadsOK(conn[e]) /\ conn[e].reads > 1
    BY <1>11, Seen DEF Overwritten, ReadsInv, Connection
  <2>2. conn[e].doubled
    BY <2>1 DEF ReadsOK
  <2> QED
    BY <1>11, <2>2, OverwrittenKeeps
<1> QED
  BY <1>1, <1>2, <1>3, <1>4, <1>5, <1>6, <1>7, <1>8, <1>9, <1>10, <1>11 DEF WsNext

(* The invariant of the two ends: what each has been told, what it wrote    *)
(* and will write, what is on its way to it as long as its reads did not    *)
(* share m_buf, and that only resume_reading() makes them share it.         *)
THEOREM TwoEndsKept == WsSpec => [](WsInv /\ ReadsInv)
<1>1. WsInit => WsInv /\ ReadsInv
  <2> SUFFICES ASSUME WsInit PROVE ReadsInv
    BY WsBegins
  <2>1. ReadsOK(NewConnection)
    BY DEF ReadsOK, Waiting, NewConnection
  <2> QED
    BY <2>1 DEF ReadsInv, WsInit
<1>2. WsInv /\ ReadsInv /\ [WsNext]_wsVars => WsInv' /\ ReadsInv'
  BY WsStep, ReadsKeep
<1> QED
  BY <1>1, <1>2, PTL DEF WsSpec

(* The open handler is called at most once, then the close handler, or else *)
(* the fail handler, and the termination handler last: for every end, every *)
(* order of its handlers, timers and application calls and any number of    *)
(* faults.                                                                  *)
THEOREM HandlersCalledOnce == WsSpec => []HandlersOnce
<1>1. WsInv => HandlersOnce
  <2> SUFFICES ASSUME WsInv, NEW e \in End, ~stale[e]
               PROVE  conn[e].called \in {<< >>, <<"open">>, <<"open", "close", "terminated">>,
                                          <<"fail", "terminated">>, <<"terminated">>}
    BY DEF HandlersOnce
  <2>1. Story(conn[e])
    BY DEF WsInv, EndOK
  <2> QED
    BY <2>1 DEF Story
<1> QED
  BY <1>1, TwoEndsKept, PTL

LEMMA UptoPrefix ==
  ASSUME NEW m \in Nat, NEW n \in Nat, m <= n
  PROVE  IsPrefix(Upto(m), Upto(n))
<1>1. Upto(m) \in Seq(Nat) /\ Len(Upto(m)) = m /\ Upto(n) \in Seq(Nat) /\ Len(Upto(n)) = n
  BY DEF Upto
<1>2. SubSeq(Upto(m), 1, m) = Upto(m)
  BY <1>1 DEF Upto
<1>3. SubSeq(Upto(n), 1, m) = Upto(m)
  BY <1>1 DEF Upto
<1> QED
  BY <1>1, <1>2, <1>3 DEF IsPrefix

(* Each end writes nothing behind its close frame, has one read outstanding *)
(* unless resume_reading() started another, and until then the application  *)
(* gets the messages in the order send() took them and without a gap, and   *)
(* after a clean close each end knows the code of the other: for any number *)
(* of messages, however many write_frame() takes at once.                   *)
THEOREM StreamAlwaysKept == WsSpec => []StreamKept
<1>1. WsInv /\ ReadsInv => StreamKept
  <2> SUFFICES ASSUME WsInv, ReadsInv PROVE StreamKept
    OBVIOUS
  <2>0. OneRead
    <3> SUFFICES ASSUME NEW e \in End, conn[e].reads > 1 PROVE conn[e].doubled
      BY DEF OneRead
    <3>1. conn[e].reads \in Int /\ ReadsOK(conn[e])
      BY Seen DEF ReadsInv, Connection
    <3> QED
      BY <3>1 DEF ReadsOK
  <2>1. WsTypeOK
    <3> SUFFICES ASSUME NEW e \in End
                 PROVE  /\ conn[e].state \in State /\ conn[e].istate \in InternalState
                        /\ conn[e].http \in HttpState
                        /\ {conn[e].local, conn[e].remote} \subseteq Code \cup {"bad"}
                        /\ conn[e].writing # << >> => conn[e].flag
                        /\ conn[e].state \in {"open", "closing"} =>
                             conn[e].istate = "PROCESS_CONNECTION"
      BY DEF WsTypeOK
    <3>1. conn[e] \in Connection /\ Shape(conn[e])
      BY DEF WsInv, WsTypes, EndOK
    <3>2. /\ conn[e].state \in State /\ conn[e].istate \in InternalState
          /\ conn[e].http \in HttpState
          /\ {conn[e].local, conn[e].remote} \subseteq Code \cup {"bad"}
      BY <3>1 DEF Connection, CloseCode
    <3> QED
      BY <3>1, <3>2 DEF Shape, Began
  <2>2. CloseFrameIsLast
    <3> SUFFICES ASSUME NEW e \in End, ~stale[e] PROVE CloseLast(sent[e])
      BY DEF CloseFrameIsLast, CloseLast
    <3>1. /\ sent[e] \in Seq(WsFrame) /\ Out(conn[e]) \in Seq(WsFrame)
          /\ EndOK(conn[e], sent[e], accepted[e], stale[e])
      BY Seen
    <3>2. CloseLast(sent[e] \o Out(conn[e]))
      BY <3>1 DEF EndOK, LineOK
    <3>3. Begins(sent[e], sent[e] \o Out(conn[e]))
      BY <3>1, Lines
    <3>4. sent[e] \o Out(conn[e]) \in Seq(WsFrame)
      BY <3>1, ConcatFacts
    <3> QED
      BY <3>1, <3>2, <3>3, <3>4, CloseBegins
  <2>3. MessagesInOrder
    <3> SUFFICES ASSUME NEW e \in End, ~conn[e].doubled
                 PROVE  IsPrefix(conn[e].got, accepted[Other(e)])
      BY DEF MessagesInOrder
    <3>1. Other(e) \in End /\ conn[e] \in Connection /\ accepted[Other(e)] \in Seq(Nat)
      BY TwoEnds DEF WsInv, WsTypes
    <3>2. conn[e].got \in Seq(Nat)
      BY <3>1 DEF Connection
    <3>3. Len(conn[e].got) \in Nat /\ Len(accepted[Other(e)]) \in Nat
      BY <3>1, <3>2
    <3>4. conn[e].got = Upto(Len(conn[e].got)) /\ Len(conn[e].got) <= Len(accepted[Other(e)])
      BY DEF WsInv, Carried, InStep
    <3>5. accepted[Other(e)] = Upto(Len(accepted[Other(e)]))
      BY <3>1 DEF WsInv, EndOK
    <3>6. IsPrefix(Upto(Len(conn[e].got)), Upto(Len(accepted[Other(e)])))
      BY <3>3, <3>4, UptoPrefix
    <3> QED
      BY <3>4, <3>5, <3>6
  <2>4. CloseCodesAgree
    <3> SUFFICES ASSUME conn["server"].clean, conn["client"].clean,
                        conn["server"].ec = "none", conn["client"].ec = "none",
                        faults = 0, ~stale["server"], ~stale["client"],
                        ~conn["server"].doubled, ~conn["client"].doubled
                 PROVE  conn["server"].remote = conn["client"].local
                        /\ conn["client"].remote = conn["server"].local
      BY DEF CloseCodesAgree
    <3>1. Undisturbed
      BY DEF Undisturbed, End
    <3>2. "server" \in End /\ "client" \in End /\ Other("server") = "client"
          /\ Other("client") = "server"
      BY DEF End, Other
    <3>3. Codes(conn["server"], Pipe("server"), conn["client"])
          /\ Codes(conn["client"], Pipe("client"), conn["server"])
      BY <3>1, <3>2 DEF WsInv
    <3> QED
      BY <3>3 DEF Codes, Told
  <2> QED
    BY <2>0, <2>1, <2>2, <2>3, <2>4 DEF StreamKept
<1> QED
  BY <1>1, TwoEndsKept, PTL

-----------------------------------------------------------------------------
(* A closed connection.                                                     *)

\* c has the members of a connection and is closed.
Shut(c) == c \in Connection /\ c.state = "closed"

LEMMA ShutStays ==
  ASSUME NEW c, Shut(c)
  PROVE  /\ \A r \in Reason : terminate(c, r).state = "closed"
         /\ read_frame(c).state = "closed"
         /\ \A f : write_push(c, f).state = "closed"
<1>1. c \in Connection /\ c.state = "closed"
  BY DEF Shut
<1>2. \A r \in Reason : terminate(c, r).state = "closed"
  BY <1>1 DEF terminate, Connection
<1>3. read_frame(c).state = "closed"
  BY <1>1 DEF read_frame, Connection
<1>4. \A f : write_push(c, f).state = "closed"
  BY <1>1 DEF write_push, Connection
<1> QED
  BY <1>2, <1>3, <1>4

LEMMA ShutStep ==
  ASSUME WsInv, WsNext, NEW x \in End, conn[x].state = "closed", conn'[x].state # "closed"
  PROVE  stale'[x]
<1> DEFINE c == conn[x]
<1>1. /\ Shut(c) /\ conn \in [End -> Connection] /\ stale \in [End -> BOOLEAN]
      /\ Shut(Received(x)) /\ Shut([c EXCEPT !.reply = "none"]) /\ Shut([c EXCEPT !.writing = << >>])
      /\ \A t \in Timer : Shut([c EXCEPT !.late = @ \ {t}])
  <2>1. c \in Connection /\ conn \in [End -> Connection] /\ stale \in [End -> BOOLEAN]
    BY DEF WsInv, WsTypes
  <2>2. "none" \in Reply /\ << >> \in Seq(WsFrame)
    BY DEF Reply
  <2>3. c.reads - 1 \in Int
    BY <2>1 DEF Connection
  <2>4. Shut(Received(x))
    BY <2>1, <2>3 DEF Shut, Received, Connection
  <2>5. Shut([c EXCEPT !.reply = "none"]) /\ Shut([c EXCEPT !.writing = << >>])
    BY <2>1, <2>2 DEF Shut, Connection
  <2>6. \A t \in Timer : Shut([c EXCEPT !.late = @ \ {t}])
    BY <2>1 DEF Shut, Connection
  <2> QED
    BY <2>1, <2>4, <2>5, <2>6 DEF Shut
<1>2. \A e \in End : \A d : Becomes(e, d) => e = x /\ d.state # "closed"
  BY <1>1 DEF Becomes
<1>3. "init" \in Reason /\ "write" \in Reason /\ "none" \in Reason /\ "eof" \in Reason
      /\ "read" \in Reason /\ "timeout" \in Reason /\ "invalid_state" \in Reason
  BY DEF Reason
<1>4. c \in Connection /\ c.state = "closed"
  BY <1>1 DEF Shut
<1>41. CASE send_http_response
  <2> DEFINE d == [conn["server"] EXCEPT !.http = "body_written", !.reply = "response"]
  <2>1. Becomes("server", d)
    BY <1>41 DEF send_http_response
  <2>2. "server" = x /\ d.state # "closed"
    BY <1>2, <2>1 DEF End
  <2>3. d.state = c.state
    BY <1>4, <2>2 DEF Connection
  <2> QED
    BY <1>4, <2>2, <2>3
<1>42. CASE PlainRequest
  BY <1>1, <1>42 DEF PlainRequest, Connection, End
<1>5. ASSUME NEW e \in End, start(e) \/ BadPeer(e) \/ handle_pause_reading(e) \/ Overwritten(e)
                            \/ handle_resume_reading(e) \/ handle_transport_init(e)
      PROVE  FALSE
  BY <1>1, <1>2, <1>5 DEF start, BadPeer, Overwritten, handle_pause_reading, handle_resume_reading,
     handle_transport_init
<1>6. ASSUME NEW e \in End, NEW what \in {"send", "ping", "close"}, Begin(e, what) PROVE FALSE
  BY <1>2, <1>6 DEF Begin
<1>7. ASSUME NEW e \in End, TimerExpires(e) PROVE FALSE
  <2> DEFINE d == [conn[e] EXCEPT !.timer = "none", !.late = @ \cup {conn[e].timer}]
  <2>1. e = x /\ d.state # "closed"
    BY <1>2, <1>7 DEF TimerExpires
  <2>2. d.state = c.state
    BY <1>4, <2>1 DEF Connection
  <2> QED
    BY <1>4, <2>1, <2>2
<1>8. ASSUME NEW e \in End, AppEnds(e) PROVE stale'[x]
  <2>1. e = x
    BY <1>2, <1>8 DEF AppEnds, send, ping, close
  <2> QED
    BY <1>1, <1>8, <2>1 DEF AppEnds, send, ping, close
<1>9. ASSUME NEW e \in End, StrandStep(e) PROVE stale'[x]
  <2>1. CASE HandleMessage(e)
    BY <1>1, <1>2, <2>1, ShutStays DEF HandleMessage, Shut
  <2>2. CASE HandlePing(e)
    BY <1>1, <1>2, <2>2, ShutStays DEF HandlePing, Shut
  <2>3. CASE HandleClose(e)
    BY <1>1, <1>2, <2>3, ShutStays DEF HandleClose, Shut
  <2>4. CASE Acknowledge(e)
    <3> DEFINE d == IF c.acking = "bad" THEN send_close_ack(x, c, "protocol_error")
                    ELSE AnswerClose(x, c)
    <3>1. e = x
      BY <1>2, <2>4 DEF Acknowledge
    <3>2. read_frame([d EXCEPT !.acking = "no"]).state # "closed"
      BY <1>2, <2>4, <3>1 DEF Acknowledge
    <3>3. CASE c.acking \in {"open", "bad"}
      BY <1>1, <1>4, <2>4, <3>1, <3>3 DEF Acknowledge
    <3>4. CASE c.acking = "closing"
      <4> DEFINE k == [c EXCEPT !.clean = TRUE]
      <4>1. k \in Connection /\ k.state = "closed"
        BY <1>4 DEF Connection
      <4>2. Shut(k)
        BY <4>1 DEF Shut
      <4>3. terminate(k, "none") \in Connection /\ terminate(k, "none").state = "closed"
        BY <1>3, <4>1, Terminated
      <4>4. d = terminate(k, "none") \/ d = k
        BY <3>4 DEF AnswerClose
      <4> HIDE DEF d, k
      <4>5. d \in Connection /\ d.state = "closed"
        BY <4>1, <4>3, <4>4
      <4>6. "no" \in Acking
        BY DEF Acking
      <4>7. Shut([d EXCEPT !.acking = "no"])
        BY <4>5, <4>6 DEF Shut, Connection
      <4> QED
        BY <3>2, <4>7, ShutStays
    <3>5. CASE c.acking \notin {"open", "bad", "closing"}
      <4>1. d = c
        BY <3>5 DEF AnswerClose
      <4>2. "no" \in Acking
        BY DEF Acking
      <4>3. Shut([c EXCEPT !.acking = "no"])
        BY <1>4, <4>2 DEF Shut, Connection
      <4> QED
        BY <3>2, <4>1, <4>3, ShutStays
    <3> QED
      BY <3>3, <3>4, <3>5
  <2>5. CASE HandleGarbage(e)
    <3>1. e = x
      BY <1>2, <2>5 DEF HandleGarbage
    <3>2. Received(x).state = "closed" /\ terminate(Received(x), "invalid_state").state = "closed"
      BY <1>1, <1>3, ShutStays DEF Shut
    <3> QED
      BY <1>2, <2>5, <3>1, <3>2 DEF HandleGarbage
  <2>6. CASE HandleReadEnd(e)
    BY <1>1, <1>2, <1>3, <2>6, ShutStays DEF HandleReadEnd, Shut
  <2>7. CASE write_frame(e)
    <3> DEFINE k == [c EXCEPT !.posted = FALSE]
    <3>1. e = x
      BY <1>2, <2>7 DEF write_frame
    <3>2. \A a, b : [k EXCEPT !.flag = TRUE, !.writing = a, !.queue = b].state = "closed"
      BY <1>4 DEF Connection
    <3>3. k.state = "closed"
      BY <1>4 DEF Connection
    <3> QED
      BY <1>2, <2>7, <3>1, <3>2, <3>3 DEF write_frame
  <2>8. CASE handle_write_frame(e)
    <3> DEFINE k == [c EXCEPT !.writing = << >>]
    <3>1. e = x
      BY <1>2, <2>8 DEF handle_write_frame
    <3>2. terminate(k, "none").state = "closed" /\ terminate(k, "write").state = "closed"
      BY <1>1, <1>3, ShutStays
    <3>3. \A b : [k EXCEPT !.flag = FALSE, !.posted = b].state = "closed"
      BY <1>4 DEF Connection
    <3> QED
      BY <1>2, <2>8, <3>1, <3>2, <3>3 DEF handle_write_frame
  <2>9. CASE handle_timeout(e)
    <3>1. PICK t \in conn[e].late :
            Becomes(e, terminate([conn[e] EXCEPT !.late = @ \ {t}], "timeout"))
      BY <2>9 DEF handle_timeout
    <3>2. e = x /\ terminate([c EXCEPT !.late = @ \ {t}], "timeout").state # "closed"
      BY <1>2, <3>1
    <3>3. t \in Timer
      BY <1>4, <3>2 DEF Connection
    <3> QED
      BY <1>1, <1>3, <3>2, <3>3, ShutStays
  <2>10. CASE handle_terminate(e)
    <3>1. e = x
      BY <1>2, <2>10 DEF handle_terminate
    <3>2. \A a, b : [c EXCEPT !.ending = a, !.called = b].state = "closed"
      BY <1>4 DEF Connection
    <3> DEFINE how == IF Head(c.ending) = "closed" THEN <<"close">>
                      ELSE IF c.ec = "http_connection_ended" THEN << >> ELSE <<"fail">>
               a == Tail(c.ending)
               b == c.called \o how \o <<"terminated">>
    <3>3. Becomes(x, [c EXCEPT !.ending = a, !.called = b])
      BY <2>10, <3>1 DEF handle_terminate
    <3> HIDE DEF a, b
    <3> QED
      BY <1>2, <3>2, <3>3
  <2>11. CASE handle_transport_init(e)
    BY <1>5, <2>11
  <2>12. CASE handle_send_http_request
    <3>1. x = "client"
      BY <1>2, <2>12 DEF handle_send_http_request, End
    <3>2. [c EXCEPT !.reply = "none"].state = "closed"
          /\ terminate([c EXCEPT !.reply = "none"], "write").state = "closed"
      BY <1>1, <1>3, ShutStays DEF Shut
    <3> QED
      BY <1>2, <2>12, <3>1, <3>2 DEF handle_send_http_request
  <2>13. CASE handle_read_http_response
    BY ZenonT(30), <1>1, <1>2, <2>13 DEF handle_read_http_response, Shut, Connection, End
  <2>14. CASE handle_read_handshake
    BY ZenonT(30), <1>1, <1>2, <2>14 DEF handle_read_handshake, Shut, Connection, End
  <2>15. CASE handle_write_http_response
    <3>1. x = "server"
      BY <1>2, <2>15 DEF handle_write_http_response, End
    <3>2. [c EXCEPT !.reply = "none"].state = "closed"
          /\ terminate([c EXCEPT !.reply = "none"], "write").state = "closed"
      BY <1>1, <1>3, ShutStays DEF Shut
    <3>3. [c EXCEPT !.reply = "none", !.timer = "none"].state = "closed"
      BY <1>4 DEF Connection
    <3> QED
      BY <1>2, <2>15, <3>1, <3>2, <3>3 DEF handle_write_http_response
  <2> QED
    BY <1>9, <2>1, <2>2, <2>3, <2>4, <2>5, <2>6, <2>7, <2>8, <2>9, <2>10, <2>11, <2>12, <2>13,
       <2>14, <2>15 DEF StrandStep
<1> QED
  BY <1>41, <1>42, <1>5, <1>6, <1>7, <1>8, <1>9 DEF WsNext

(* A closed connection is closed for good, unless a test of m_state was out *)
(* of date when close(), send() or an acknowledgement used it: what         *)
(* terminate() does no later handler takes back.                            *)
THEOREM ClosedStaysClosed == WsSpec => ClosedIsFinal
<1>1. ASSUME WsInv, [WsNext]_wsVars
      PROVE  [\A e \in End : conn[e].state = "closed" /\ conn'[e].state # "closed" => stale'[e]]_wsVars
  BY <1>1, ShutStep
<1> QED
  BY <1>1, TwoEndsKept, PTL DEF WsSpec, ClosedIsFinal
=============================================================================
