------------------------------- MODULE WsFrames -------------------------------
(***************************************************************************)
(* The frames of RFC 6455 as websocketpp writes and reads them             *)
(* (processors/hybi13.hpp, frame.hpp): prepare_data_frame() and            *)
(* prepare_control() turn messages into octets, consume() turns octets     *)
(* into messages, whatever the pieces in which they arrive.                *)
(*                                                                         *)
(* An octet of a payload is 0..3: an ASCII character, the first or the     *)
(* second octet of a two octet character, or no UTF-8.  One loop round of  *)
(* consume() is one step.  The two length limits (125 and 65535) are       *)
(* CONSTANTS.  Compression is in Deflate.                                  *)
(***************************************************************************)
EXTENDS Integers, Sequences, SequencesExt, FiniteSets, FiniteSetsExt

CONSTANTS
  payload_size_basic,      \* limits of the short and of the 16 bit length
  payload_size_extended,
  m_max_message_size

ASSUME LimitsOrdered == payload_size_basic < payload_size_extended

VARIABLES
  toServer,    \* who reads: the server, which wants masked frames, or the client
  script,      \* the frames that are sent
  wire,        \* octets that have not arrived
  buf,         \* octets that arrived and are not consumed
  proc,        \* the processor that reads: see NewProcessor
  delivered    \* messages handed to the connection

frameVars == <<toServer, script, wire, buf, proc, delivered>>

\* An opcode is "continuation", "text", "binary", "close", "ping", "pong" or
\* "reserved".
is_control(op) == op \in {"close", "ping", "pong"}

-----------------------------------------------------------------------------
(* Masks.                                                                   *)

MaskingKey == <<1, 2, 3, 0>>
NoKey == <<0, 0, 0, 0>>
Xor(x, y) == ((x + y) % 2) + 2 * (((x \div 2) + (y \div 2)) % 2)
byte_mask(s, key) == [i \in 1..Len(s) |-> Xor(s[i], key[((i - 1) % 4) + 1])]

\* Mutant of circshift_prepared_key: the key always starts anew.
circshift_prepared_key_Fixed(key, n) == key

circshift_prepared_key(key, n) == [i \in 1..4 |-> key[((i - 1 + n) % 4) + 1]]

-----------------------------------------------------------------------------
(* utf8_validator, for these octets: whether a second octet is awaited.     *)
Utf8Step(st, b) ==
  CASE st = "accept" /\ b = 0 -> "accept"
    [] st = "accept" /\ b = 1 -> "more"
    [] st = "more" /\ b = 2 -> "accept"
    [] OTHER -> "reject"
Utf8(st, s) == FoldLeft(Utf8Step, st, s)

-----------------------------------------------------------------------------
(* Writing.                                                                 *)

\* How the length is written: in the second octet, or behind it.
LengthCode(n) ==
  IF n <= payload_size_basic THEN "basic" ELSE IF n <= payload_size_extended THEN "16bit" ELSE "64bit"
ExtendedLength(code) == CASE code = "basic" -> 0 [] code = "16bit" -> 2 [] code = "64bit" -> 8

\* basic_header: the two octets, with their bits by name.
basic_header(f) ==
  << [fin |-> f.fin, rsv |-> f.rsv, op |-> f.op],
     [masked |-> f.masked, code |-> f.code, size |-> IF f.code = "basic" THEN Len(f.payload) ELSE -1] >>

\* extended_header: the length in network order, then the key.
extended_header(f) ==
  LET n == ExtendedLength(f.code)
  IN [i \in 1..n |-> IF i = n THEN Len(f.payload) ELSE 0] \o (IF f.masked THEN MaskingKey ELSE << >>)

prepare_header(f) == basic_header(f) \o extended_header(f)
Octets(f) == prepare_header(f) \o (IF f.masked THEN byte_mask(f.payload, MaskingKey) ELSE f.payload)

Prepared(op, fin, payload, masked) ==
  [op |-> op, fin |-> fin, rsv |-> FALSE, masked |-> masked, payload |-> payload,
   code |-> LengthCode(Len(payload))]

\* prepare_data_frame() and prepare_control(): the frame an end of websocketpp
\* sends, or none when the call is refused.  Clients mask.
prepare_data_frame(op, fin, payload, server) ==
  {f \in {Prepared(op, fin, payload, ~server)} :
     ~is_control(op) /\ (op = "text" => Utf8("accept", payload) = "accept")}
prepare_control(op, payload, server) ==
  {f \in {Prepared(op, TRUE, payload, ~server)} :
     is_control(op) /\ Len(payload) <= payload_size_basic}

-----------------------------------------------------------------------------
(* Reading.                                                                 *)

NoMessage == [op |-> "none", payload |-> << >>, utf8 |-> "accept", key |-> NoKey]

\* The members of hybi13.  current is which of the two messages is read.
NewProcessor ==
  [state |-> "HEADER_BASIC", needed |-> 2, basic |-> << >>, extended |-> << >>,
   data |-> NoMessage, control |-> NoMessage, current |-> "none", error |-> "none"]

reset_headers(p) ==
  [p EXCEPT !.state = "HEADER_BASIC", !.needed = 2, !.basic = << >>, !.extended = << >>]

\* consume() ends with an error: handle_read_frame() closes the connection and
\* reads no more.
Refuse(p, ec) == [p EXCEPT !.state = "FATAL_ERROR", !.error = ec]

\* validate_incoming_basic_header().
validate_incoming_basic_header(p) ==
  LET b0 == p.basic[1]
      b1 == p.basic[2]
      new_msg == p.data.op = "none"
  IN CASE is_control(b0.op) /\ b1.code # "basic" -> "control_too_big"
       [] b0.rsv -> "invalid_rsv_bit"
       [] b0.op = "reserved" -> "invalid_opcode"
       [] is_control(b0.op) /\ ~b0.fin -> "fragmented_control"
       [] new_msg /\ b0.op = "continuation" -> "invalid_continuation"
       [] ~new_msg /\ ~is_control(b0.op) /\ b0.op # "continuation" -> "invalid_continuation"
       [] toServer /\ ~b1.masked -> "masking_required"
       [] ~toServer /\ b1.masked -> "masking_forbidden"
       [] OTHER -> "none"

get_payload_size(p) ==
  LET n == ExtendedLength(p.basic[2].code)
  IN IF n = 0 THEN p.basic[2].size ELSE p.extended[n]
get_masking_key(p) ==
  LET n == ExtendedLength(p.basic[2].code)
  IN IF p.basic[2].masked THEN SubSeq(p.extended, n + 1, n + 4) ELSE NoKey

\* validate_incoming_extended_header().
NonMinimal(p) ==
  \/ p.basic[2].code = "16bit" /\ get_payload_size(p) <= payload_size_basic
  \/ p.basic[2].code = "64bit" /\ get_payload_size(p) <= payload_size_extended

\* The message a frame belongs to.
BeginPayload(p) ==
  LET op == p.basic[1].op
      n == get_payload_size(p)
      q == [p EXCEPT !.state = "APPLICATION", !.needed = n]
      new == [op |-> op, payload |-> << >>, utf8 |-> "accept", key |-> get_masking_key(p)]
  IN IF is_control(op) THEN [q EXCEPT !.control = new, !.current = "control"]
     ELSE IF Len(p.data.payload) + n > m_max_message_size THEN Refuse(p, "message_too_big")
     ELSE IF p.data.op = "none" THEN [q EXCEPT !.data = new, !.current = "data"]
     ELSE [q EXCEPT !.data.key = get_masking_key(p), !.current = "data"]

\* process_payload_bytes().
process_payload_bytes(p, s) ==
  LET m == p[p.current]
      t == IF p.basic[2].masked THEN byte_mask(s, m.key) ELSE s
      k == IF p.basic[2].masked THEN circshift_prepared_key(m.key, Len(s)) ELSE m.key
      u == IF m.op = "text" THEN Utf8(m.utf8, t) ELSE m.utf8
  IN IF u = "reject" THEN Refuse(p, "invalid_utf8")
     ELSE [p EXCEPT ![p.current] = [m EXCEPT !.payload = @ \o t, !.key = k, !.utf8 = u],
                    !.needed = @ - Len(s)]

\* finalize_message(): the opcode it asks for is the one of the last frame.
finalize_message(p) ==
  IF p.basic[1].op = "text" /\ p[p.current].utf8 # "accept" THEN Refuse(p, "invalid_utf8")
  ELSE [p EXCEPT !.state = "READY"]

EndOfFrame(p) == IF p.basic[1].fin THEN finalize_message(p) ELSE reset_headers(p)

-----------------------------------------------------------------------------
(* One round of the loop of consume().                                      *)

Takes == IF proc.needed < Len(buf) THEN proc.needed ELSE Len(buf)
Runs == proc.state \notin {"READY", "FATAL_ERROR"} /\ (buf # << >> \/ proc.needed = 0)

copy_basic_header_bytes ==
  LET p == [proc EXCEPT !.basic = @ \o SubSeq(buf, 1, Takes), !.needed = @ - Takes]
      ec == validate_incoming_basic_header(p)
  IN /\ Runs /\ proc.state = "HEADER_BASIC"
     /\ buf' = SubSeq(buf, Takes + 1, Len(buf))
     /\ proc' = IF p.needed > 0 THEN p
                ELSE IF ec # "none" THEN Refuse(p, ec)
                ELSE [p EXCEPT !.state = "HEADER_EXTENDED",
                               !.needed = ExtendedLength(p.basic[2].code)
                                            + IF p.basic[2].masked THEN 4 ELSE 0]
     /\ UNCHANGED <<toServer, script, wire, delivered>>

copy_extended_header_bytes ==
  LET p == [proc EXCEPT !.extended = @ \o SubSeq(buf, 1, Takes), !.needed = @ - Takes]
  IN /\ Runs /\ proc.state = "HEADER_EXTENDED"
     /\ buf' = SubSeq(buf, Takes + 1, Len(buf))
     /\ proc' = IF p.needed > 0 THEN p
                ELSE IF NonMinimal(p) THEN Refuse(p, "non_minimal_encoding") ELSE BeginPayload(p)
     /\ UNCHANGED <<toServer, script, wire, delivered>>

ProcessApplication ==
  LET p == IF Takes > 0 THEN process_payload_bytes(proc, SubSeq(buf, 1, Takes)) ELSE proc
  IN /\ Runs /\ proc.state = "APPLICATION"
     /\ buf' = SubSeq(buf, Takes + 1, Len(buf))
     /\ proc' = IF p.error # "none" \/ p.needed > 0 THEN p ELSE EndOfFrame(p)
     /\ UNCHANGED <<toServer, script, wire, delivered>>

\* get_message(), by handle_read_frame().
get_message ==
  /\ proc.state = "READY"
  /\ delivered' = Append(delivered, [op |-> proc[proc.current].op, payload |-> proc[proc.current].payload])
  /\ proc' = [reset_headers(proc) EXCEPT ![proc.current] = NoMessage, !.current = "none"]
  /\ UNCHANGED <<toServer, script, wire, buf>>

\* Some octets arrive.
Arrive ==
  /\ buf = << >> /\ proc.state # "FATAL_ERROR" /\ ~Runs
  /\ \E n \in 1..Len(wire) :
       buf' = SubSeq(wire, 1, n) /\ wire' = SubSeq(wire, n + 1, Len(wire))
  /\ UNCHANGED <<toServer, script, proc, delivered>>

FramesInit(scripts) ==
  /\ toServer \in BOOLEAN /\ script \in scripts
  /\ wire = FlattenSeq([i \in 1..Len(script) |-> Octets(script[i])])
  /\ buf = << >> /\ proc = NewProcessor /\ delivered = << >>

FramesNext ==
  \/ copy_basic_header_bytes \/ copy_extended_header_bytes \/ ProcessApplication
  \/ get_message \/ Arrive

-----------------------------------------------------------------------------
(* What the frames mean, read one whole frame after the other.              *)

Start == [open |-> "none", text |-> << >>, out |-> << >>, ok |-> TRUE, unfinished |-> FALSE]

\* A text is made of characters, and of whole ones at its end.
Characters(op, s) == op = "text" => Utf8("accept", s) # "reject"
Unfinished(op, s) == op = "text" /\ Utf8("accept", s) = "more"

ReadFrame(r, f) ==
  LET fresh == r.open = "none"
      op == IF fresh THEN f.op ELSE r.open
      all == IF is_control(f.op) THEN f.payload ELSE r.text \o f.payload
      good == /\ f.op # "reserved" /\ ~f.rsv /\ f.masked = toServer
              /\ f.code = LengthCode(Len(f.payload))
              /\ is_control(f.op) => f.fin /\ f.code = "basic"
              /\ ~is_control(f.op) => /\ fresh <=> f.op # "continuation"
                                      /\ Len(all) <= m_max_message_size
                                      /\ Characters(op, all)
      ends == ~is_control(f.op) /\ f.fin
  IN IF ~r.ok THEN r
     ELSE IF ~good THEN [r EXCEPT !.ok = FALSE]
     ELSE IF ends /\ Unfinished(op, all) THEN [r EXCEPT !.ok = FALSE, !.unfinished = ~fresh]
     ELSE IF is_control(f.op) THEN [r EXCEPT !.out = Append(@, [op |-> f.op, payload |-> f.payload])]
     ELSE IF f.fin
     THEN [r EXCEPT !.out = Append(@, [op |-> op, payload |-> all]), !.open = "none", !.text = << >>]
     ELSE [r EXCEPT !.open = op, !.text = all]

Idle == wire = << >> /\ buf = << >> /\ ~Runs /\ proc.state # "READY"
Meaning(s) == FoldLeft(ReadFrame, Start, s)

(* However the octets are cut into reads, the connection gets the messages  *)
(* the frames mean, in their order: fragments are joined, pings between     *)
(* fragments come first, and masks are undone across the cuts.  What        *)
(* follows a frame that breaks the protocol is never delivered.  One        *)
(* message that breaks it is delivered all the same, and what follows it:   *)
(* a text in several frames that ends inside a character, for               *)
(* finalize_message() asks for the opcode of the last frame where it means  *)
(* that of the message.                                                     *)
FramesDecoded ==
  LET m == Meaning(script)
  IN IF m.unfinished THEN IsPrefix(delivered, m.out) \/ IsPrefix(m.out, delivered)
     ELSE IsPrefix(delivered, m.out) /\ (Idle => delivered = m.out)

(* A frame is refused exactly when it breaks the protocol, but for the      *)
(* unfinished text above, which passes.                                     *)
RefusedIffBad ==
  LET m == Meaning(script)
  IN /\ proc.error # "none" => ~m.ok
     /\ Idle /\ ~m.ok => proc.error # "none" \/ m.unfinished

-----------------------------------------------------------------------------
(* The messages of the oldest protocol version (processors/hybi00.hpp): a   *)
(* text between two marks, no lengths, no masks and no other frames.        *)
(* Octets are "0" (the first mark), "f" (the last mark) and letters.        *)

VARIABLES
  oldTexts,      \* the texts that are sent
  oldWire,       \* octets that have not arrived
  oldBuf,        \* octets that arrived and are not consumed
  old            \* the processor that reads, and what it gave to the connection

oldVars == <<oldTexts, oldWire, oldBuf, old>>

\* prepare_data_frame(): a text that is UTF-8 has no octet 0xff; 0x00 may be in it.
prepare_old_frame(text) == <<"0">> \o text \o <<"f">>

OldInit(texts, tails) ==
  /\ oldTexts \in texts
  /\ \E t \in tails : oldWire = FlattenSeq([i \in 1..Len(oldTexts) |-> prepare_old_frame(oldTexts[i])]) \o t
  /\ oldBuf = << >>
  /\ old = [state |-> "HEADER", msg |-> << >>, out |-> << >>]

OldArrives ==
  /\ oldBuf = << >> /\ old.state \in {"HEADER", "PAYLOAD"}
  /\ \E n \in 1..Len(oldWire) :
       oldBuf' = SubSeq(oldWire, 1, n) /\ oldWire' = SubSeq(oldWire, n + 1, Len(oldWire))
  /\ UNCHANGED <<oldTexts, old>>

\* consume(), one round of its loop.
OldHeader ==
  /\ oldBuf # << >> /\ old.state = "HEADER"
  /\ IF Head(oldBuf) = "0"
     THEN old' = [old EXCEPT !.state = "PAYLOAD", !.msg = << >>] /\ oldBuf' = Tail(oldBuf)
     ELSE old' = [old EXCEPT !.state = "FATAL_ERROR"] /\ oldBuf' = oldBuf
  /\ UNCHANGED <<oldTexts, oldWire>>

OldPayload ==
  LET e == Min({i \in 1..Len(oldBuf) : oldBuf[i] = "f"} \cup {Len(oldBuf) + 1})
  IN /\ oldBuf # << >> /\ old.state = "PAYLOAD"
     /\ old' = [old EXCEPT !.msg = @ \o SubSeq(oldBuf, 1, e - 1),
                           !.state = IF e <= Len(oldBuf) THEN "READY" ELSE @]
     /\ oldBuf' = SubSeq(oldBuf, e + 1, Len(oldBuf))
     /\ UNCHANGED <<oldTexts, oldWire>>

\* get_message()
OldMessage ==
  /\ old.state = "READY"
  /\ old' = [old EXCEPT !.state = "HEADER", !.out = Append(@, old.msg), !.msg = << >>]
  /\ UNCHANGED <<oldTexts, oldWire, oldBuf>>

OldNext == OldArrives \/ OldHeader \/ OldPayload \/ OldMessage

(* However the octets are cut into reads, the texts arrive whole and in     *)
(* their order, and what is no text after them, a closing mark included, is *)
(* an error and no message.                                                 *)
OldTextsArrive ==
  /\ IsPrefix(old.out, oldTexts)
  /\ oldWire = << >> /\ oldBuf = << >> /\ old.state = "HEADER" => old.out = oldTexts
  /\ old.state = "FATAL_ERROR" => old.out = oldTexts
=============================================================================
