------------------------------- MODULE WsValues -----------------------------
(***************************************************************************)
(* The values websocketpp puts on the wire and takes from it: the keys of  *)
(* the opening handshake, the characters of a text, the payload of a close *)
(* frame, and the address of a connection.                                 *)
(***************************************************************************)
EXTENDS Integers, Sequences, SequencesExt, FiniteSetsExt

-----------------------------------------------------------------------------
(* Base 64 (base64/base64.hpp), which the key of the opening handshake and  *)
(* its answer are written in.  A digit is 0..63, Pad is the '='.            *)

VARIABLE keyText      \* the octets of a key

Pad == 64

\* The octets of a group, the missing ones 0; and its four digits.
Group(s, i) == [k \in 1..3 |-> IF 3 * (i - 1) + k <= Len(s) THEN s[3 * (i - 1) + k] ELSE 0]
Digits(g) ==
  << g[1] \div 4, 16 * (g[1] % 4) + (g[2] \div 16), 4 * (g[2] % 16) + (g[3] \div 64), g[3] % 64 >>

base64_encode(s) ==
  LET full == Len(s) \div 3
      i == Len(s) % 3
      last == SubSeq(Digits(Group(s, full + 1)), 1, i + 1) \o [k \in 1..(3 - i) |-> Pad]
  IN FlattenSeq([k \in 1..full |-> Digits(Group(s, k))]) \o (IF i = 0 THEN << >> ELSE last)

\* base64_decode(): up to the first '='.  The digits a last group lacks are
\* looked up for the octet 0, which base64_chars does not hold: 255.
Octets3(d) == << (4 * d[1] + ((d[2] \div 16) % 4)) % 256,
                 (16 * (d[2] % 16) + ((d[3] \div 4) % 16)) % 256,
                 (64 * (d[3] % 4) + d[4]) % 256 >>
base64_decode(t) ==
  LET used == SelectSeq(t, LAMBDA d : d # Pad)
      full == Len(used) \div 4
      i == Len(used) % 4
      D(k) == [j \in 1..4 |-> IF 4 * (k - 1) + j <= Len(used) THEN used[4 * (k - 1) + j] ELSE 255]
  IN FlattenSeq([k \in 1..full |-> Octets3(D(k))])
       \o (IF i = 0 THEN << >> ELSE SubSeq(Octets3(D(full + 1)), 1, i - 1))

Base64Init(keys) == keyText \in keys

(* A key that is written and read again is the same key, whatever its       *)
(* length leaves for the last group, and four digits stand for three        *)
(* octets.                                                                  *)
KeysRoundTrip ==
  LET t == base64_encode(keyText)
  IN base64_decode(t) = keyText /\ Len(t) = 4 * ((Len(keyText) + 2) \div 3)

-----------------------------------------------------------------------------
(* The UTF-8 validator of websocketpp (utf8_validator.hpp): an automaton    *)
(* of nine states over twelve classes of octets that sees a text octet by   *)
(* octet, as it arrives.                                                    *)

VARIABLES
  validator,      \* m_state and m_codepoint
  octets          \* the octets of the character it is in

utf8Vars == <<validator, octets>>

utf8_accept == 0
utf8_reject == 1

\* The first half of utf8d: the class of an octet.
Class(x) ==
  CASE x < 128 -> 0
    [] x \in 128..143 -> 1
    [] x \in 144..159 -> 9
    [] x \in 160..191 -> 7
    [] x \in {192, 193} \/ x > 244 -> 8
    [] x \in 194..223 -> 2
    [] x = 224 -> 10
    [] x = 237 -> 4
    [] x \in 225..239 \ {237} -> 3
    [] x = 240 -> 11
    [] x \in 241..243 -> 6
    [] x = 244 -> 5

\* Mutant of Successor: the octets behind 237 may be any.
Successor_Surrogates(state, class) ==
  CASE state = 0 -> (CASE class = 0 -> 0 [] class = 2 -> 2 [] class \in {3, 4} -> 3 [] class = 10 -> 4
                       [] class = 11 -> 6 [] class = 6 -> 7 [] class = 5 -> 8 [] OTHER -> 1)
    [] state = 2 /\ class \in {1, 7, 9} -> 0
    [] state = 3 /\ class \in {1, 7, 9} -> 2
    [] state = 4 /\ class = 7 -> 2
    [] state = 6 /\ class \in {7, 9} -> 3
    [] state = 7 /\ class \in {1, 7, 9} -> 3
    [] state = 8 /\ class = 1 -> 3
    [] OTHER -> 1

\* The second half: the successor of a state.
Successor(state, class) ==
  CASE state = 0 -> (CASE class = 0 -> 0 [] class = 2 -> 2 [] class = 3 -> 3 [] class = 4 -> 5
                       [] class = 10 -> 4 [] class = 11 -> 6 [] class = 6 -> 7 [] class = 5 -> 8
                       [] OTHER -> 1)
    [] state = 2 /\ class \in {1, 7, 9} -> 0
    [] state = 3 /\ class \in {1, 7, 9} -> 2
    [] state = 4 /\ class = 7 -> 2
    [] state = 5 /\ class \in {1, 9} -> 2
    [] state = 6 /\ class \in {7, 9} -> 3
    [] state = 7 /\ class \in {1, 7, 9} -> 3
    [] state = 8 /\ class = 1 -> 3
    [] OTHER -> 1

\* decode(): an octet of six bits is added to the code point, or begins one.
decode(v, x) ==
  [state |-> Successor(v.state, Class(x)),
   codepoint |-> IF v.state # utf8_accept THEN (x % 64) + 64 * v.codepoint
                 ELSE x % (2 ^ (8 - (IF Class(x) > 8 THEN 8 ELSE Class(x))))]

NewValidator == [state |-> utf8_accept, codepoint |-> 0]

\* validate(): a whole text.
validate(s) ==
  LET Step(v, x) == IF v.state = utf8_reject THEN v ELSE decode(v, x)
  IN FoldLeft(Step, NewValidator, s).state = utf8_accept

\* Octets at every boundary of a class.
Octet == {0, 127, 128, 143, 144, 159, 160, 191, 192, 193, 194, 223, 224, 225, 236, 237, 238, 239,
          240, 241, 243, 244, 245, 255}

Utf8Init == validator = NewValidator /\ octets = << >>

\* consume(): the next octet.
ConsumeOctet ==
  /\ validator.state # utf8_reject
  /\ \E x \in Octet :
       /\ validator' = decode(validator, x)
       /\ octets' = Append(IF validator.state = utf8_accept THEN << >> ELSE octets, x)

-----------------------------------------------------------------------------
(* The characters of Unicode by arithmetic: how many octets the first       *)
(* octet announces, and which code points begin with these octets.          *)

Announced(x) == CASE x < 128 -> 1 [] x \in 192..223 -> 2 [] x \in 224..239 -> 3
                  [] x \in 240..247 -> 4 [] OTHER -> 0
Lead(x) == CASE x < 128 -> x [] x \in 192..223 -> x - 192 [] x \in 224..239 -> x - 224
             [] OTHER -> x - 240
CodePoint(s) ==
  LET Step(acc, x) == 64 * acc + (x - 128) IN FoldLeft(Step, Lead(s[1]), Tail(s))
Least(n) == CASE n = 1 -> 0 [] n = 2 -> 128 [] n = 3 -> 2048 [] n = 4 -> 65536
Most(n) == CASE n = 1 -> 127 [] n = 2 -> 2047 [] n = 3 -> 65535 [] n = 4 -> 1114111

\* Some character that n octets are needed for begins with s: the code points
\* that begin with s overlap the ones that may be written so.
Begins(s) ==
  LET n == Announced(s[1])
      unit == 64 ^ (n - Len(s))
      lo == unit * CodePoint(s)
      hi == lo + unit - 1
  IN /\ n # 0 /\ Len(s) <= n
     /\ \A i \in 2..Len(s) : s[i] \in 128..191
     /\ hi >= Least(n) /\ lo <= Most(n)
     /\ ~(55296 <= lo /\ hi <= 57343)

(* The validator rejects at the first octet that no character goes on with: *)
(* neither overlong forms nor surrogates nor code points beyond the last    *)
(* pass, and no character is refused.  It accepts exactly where a character *)
(* is complete, and has then its code point.                                *)
Utf8Exact ==
  octets # << >> =>
    /\ validator.state = utf8_reject <=> ~Begins(octets)
    /\ validator.state = utf8_accept <=> Begins(octets) /\ Len(octets) = Announced(octets[1])
    /\ validator.state = utf8_accept => validator.codepoint = CodePoint(octets)

-----------------------------------------------------------------------------
(* The payload of a close frame (close.hpp, prepare_close() of              *)
(* processors/hybi13.hpp): a code of 16 bits in network order, and a        *)
(* reason in UTF-8.                                                         *)

CONSTANT max_reason       \* limits::payload_size_basic - 2

VARIABLE closing   \* what was asked for, what was written, what was read

blank == 0
no_status == 1005
reserved(code) == code \in 1016..2999 \/ code = 1004
invalid(code) == code <= 999 \/ code >= 5000 \/ code \in {no_status, 1006, 1015}

prepare_close_error(code, reason) ==
  CASE reserved(code) -> "reserved_close_code"
    [] invalid(code) /\ code # no_status -> "invalid_close_code"
    [] code = no_status /\ reason # << >> -> "reason_requires_code"
    [] Len(reason) > max_reason -> "control_too_big"
    [] OTHER -> "none"

\* htons().
prepare_close(code, reason) ==
  IF code = no_status THEN << >> ELSE <<code \div 256, code % 256>> \o reason

\* extract_code(): the later test overrides the earlier.
extract_code(payload) ==
  LET code == 256 * payload[1] + payload[2]
  IN CASE payload = << >> -> [code |-> no_status, ec |-> "none"]
       [] Len(payload) = 1 -> [code |-> 1002, ec |-> "bad_close_code"]
       [] OTHER -> [code |-> code, ec |-> IF reserved(code) THEN "reserved_close_code"
                                          ELSE IF invalid(code) THEN "invalid_close_code" ELSE "none"]

extract_reason(payload) ==
  LET reason == IF Len(payload) > 2 THEN SubSeq(payload, 3, Len(payload)) ELSE << >>
  IN [reason |-> reason, ec |-> IF validate(reason) THEN "none" ELSE "invalid_utf8"]

-----------------------------------------------------------------------------

CloseInit(codes, reasons) ==
  \E code \in codes, reason \in reasons :
    closing = [code |-> code, reason |-> reason, step |-> "asked", own |-> FALSE, payload |-> << >>,
               read |-> no_status, why |-> << >>, ec |-> "none"]

\* close() of the application cuts the reason to what a frame has room for,
\* between two octets, wherever a character ends.
Truncated(reason) == SubSeq(reason, 1, IF Len(reason) > max_reason THEN max_reason ELSE Len(reason))

\* send_close_frame(): a blank code is sent as none, without a reason.
LocalCode(code) == IF code = blank THEN no_status ELSE code
LocalReason(code, reason) == IF code = blank THEN << >> ELSE reason

\* close(): the frame, or an error.
WriteClose ==
  LET code == LocalCode(closing.code)
      reason == LocalReason(closing.code, Truncated(closing.reason))
      ec == prepare_close_error(code, reason)
  IN /\ closing.step = "asked"
     /\ closing' = IF ec # "none" THEN [closing EXCEPT !.step = "refused", !.ec = ec]
                   ELSE [closing EXCEPT !.step = "sent", !.own = TRUE, !.payload = prepare_close(code, reason)]

\* A peer that is not websocketpp writes what it likes.
WriteAnyClose ==
  /\ closing.step = "asked"
  /\ closing' = [closing EXCEPT !.step = "sent",
                   !.payload = <<closing.code \div 256, closing.code % 256>> \o closing.reason]

\* process_control_frame() of the peer.
ReadClose ==
  /\ closing.step = "sent"
  /\ LET c == extract_code(closing.payload)
         r == extract_reason(closing.payload)
         told == [closing EXCEPT !.step = "read", !.read = c.code]
     IN closing' = IF c.ec # "none" THEN [told EXCEPT !.ec = c.ec]
                   ELSE [told EXCEPT !.why = r.reason, !.ec = r.ec]

CloseNext == WriteClose \/ WriteAnyClose \/ ReadClose

\* A reason that close() cuts within a character.
CutInside(reason) == validate(reason) /\ ~validate(Truncated(reason))

(* A close frame that one end agrees to write says the same to the other    *)
(* end: the code, no code for a blank one, and the reason, or its beginning *)
(* when it is too long for a frame.  It is refused there only if the reason *)
(* is not UTF-8 (which prepare_close() does not ask) or close() has cut it  *)
(* inside a character.  A code that must not be on the wire, whoever writes *)
(* it, is an error for the one who reads it.                                *)
CloseCodesSurvive ==
  closing.step = "read" =>
    /\ closing.own =>
         /\ closing.read = (IF closing.code = blank THEN no_status ELSE closing.code)
         /\ closing.code # blank => /\ IsPrefix(closing.why, closing.reason)
                                    /\ closing.why # closing.reason => Len(closing.why) = max_reason
         /\ validate(closing.reason) => closing.ec = "none" \/ CutInside(closing.reason)
         /\ closing.ec = "none" => validate(closing.why)
    /\ closing.ec = "none" /\ closing.payload # << >> =>
         closing.read \in (1000..1003 \cup 1007..1014 \cup 3000..4999)

-----------------------------------------------------------------------------
(* The address of a connection (uri.hpp): the client takes it from a text,  *)
(* writes host and port into the header Host, and the server makes an       *)
(* address of that header (processors/processor.hpp, get_uri_from_host).    *)
(*                                                                          *)
(* A text is a sequence of characters; the scheme is already cut off.  A    *)
(* port is a text of digits.  uri_default_port and                          *)
(* uri_default_secure_port are 80 and 443, max_port is 65535: texts and     *)
(* CONSTANTS, so that few characters suffice.                               *)

CONSTANT max_port

VARIABLE address     \* the text, and what the two ends make of it

Digit == <<"0", "1", "2", "3", "4", "5", "6", "7", "8", "9">>
IsDigit(c) == \E i \in 1..10 : Digit[i] = c
\* 2 and 1 stand for 443 and 80; a port below 10 is one digit.
DefaultPort(secure) == IF secure THEN 2 ELSE 1
PortText(n) == <<Digit[n + 1]>>

FindIn(s, c, S) == Min({i \in c..Len(s) : s[i] \in S} \cup {Len(s) + 1})
From(s, c) == SubSeq(s, c, Len(s))

\* atoi(): the digits at the beginning.
atoi(s) ==
  LET n == Min({i \in 1..Len(s) : ~IsDigit(s[i])} \cup {Len(s) + 1}) - 1
      Step(acc, c) == 10 * acc + (CHOOSE i \in 1..10 : Digit[i] = c) - 1
  IN FoldLeft(Step, 0, SubSeq(s, 1, n))

NoUri == [valid |-> FALSE, secure |-> FALSE, host |-> << >>, port |-> 0, resource |-> << >>]

\* get_port_from_string() and what the constructors do with its error.
WithPort(secure, host, port, resource) ==
  LET n == IF port = << >> THEN DefaultPort(secure) ELSE atoi(port)
  IN IF n = 0 \/ n > max_port THEN NoUri
     ELSE [valid |-> TRUE, secure |-> secure, host |-> host, port |-> n, resource |-> resource]

\* The constructor from a text: the host is in brackets or ends at a slash or
\* a colon.
uri(secure, s) ==
  LET bracket == s[1] = "["
      close == FindIn(s, 1, {"]"})
      stop == IF bracket THEN close + 1 ELSE FindIn(s, 1, {"/", ":"})
      host == IF bracket THEN SubSeq(s, 2, close - 1) ELSE SubSeq(s, 1, stop - 1)
      slash == FindIn(s, stop, {"/"})
  IN CASE bracket /\ close > Len(s) -> NoUri
       [] bracket /\ stop <= Len(s) /\ s[stop] \notin {"/", ":"} -> NoUri
       [] stop <= Len(s) /\ s[stop] = ":" ->
            WithPort(secure, host, SubSeq(s, stop + 1, slash - 1), <<"/">> \o From(s, slash + 1))
       [] OTHER -> WithPort(secure, host, << >>, <<"/">> \o From(s, stop + 1))

get_host_port(u) ==
  u.host \o (IF u.port = DefaultPort(u.secure) THEN << >> ELSE <<":">> \o PortText(u.port))

\* str(), without the scheme.
str(u) == get_host_port(u) \o u.resource

\* get_uri_from_host(): a colon behind the last bracket starts the port.
get_uri_from_host(secure, h, resource) ==
  LET colons == {i \in 1..Len(h) : h[i] = ":"}
      braces == {i \in 1..Len(h) : h[i] = "]"}
      colon == Max(colons)
  IN IF colons = {} \/ (braces # {} /\ Max(braces) > colon)
     THEN WithPort(secure, h, << >>, resource)
     ELSE WithPort(secure, SubSeq(h, 1, colon - 1), From(h, colon + 1), resource)

-----------------------------------------------------------------------------

UriInit(texts) ==
  \E s \in texts, secure \in BOOLEAN :
    address = [text |-> s, secure |-> secure, step |-> "text", uri |-> NoUri, header |-> << >>, seen |-> NoUri]

\* get_connection() of the client: what the text says.
Dial ==
  /\ address.step = "text"
  /\ LET u == uri(address.secure, address.text)
     IN address' = [address EXCEPT !.uri = u, !.step = IF u.valid THEN "dialled" ELSE "refused"]

\* client_handshake_request() writes the header.
SendHost ==
  /\ address.step = "dialled"
  /\ address' = [address EXCEPT !.header = get_host_port(address.uri), !.step = "sent"]

\* process_handshake_request() of the server reads it.
ReadHost ==
  /\ address.step = "sent"
  /\ address' = [address EXCEPT !.step = "seen",
                   !.seen = get_uri_from_host(address.secure, address.header, address.uri.resource)]

UriNext == Dial \/ SendHost \/ ReadHost

HasColon(s) == Contains(s, ":")

(* The server sees the host, the port and the resource the client dialled,  *)
(* and the text an address is written as means the same address: unless the *)
(* host is an IPv6 address.  Its brackets are lost by uri() and never       *)
(* written again, so at the default port its last part is taken for a port. *)
HostSurvives ==
  /\ address.step = "seen" /\ (HasColon(address.uri.host) => address.uri.port # DefaultPort(address.secure))
       => address.seen = address.uri
  /\ address.step = "dialled" /\ address.uri.host # << >> /\ ~HasColon(address.uri.host)
       => uri(address.secure, str(address.uri)) = address.uri
=============================================================================
