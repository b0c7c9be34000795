------------------------------ MODULE HttpParser ------------------------------
(***************************************************************************)
(* The HTTP messages of the opening handshake as websocketpp reads them    *)
(* (http/impl/request.hpp, response.hpp, parser.hpp): consume() is given   *)
(* the octets in the pieces in which they arrive, and says how many of     *)
(* them belong to the message; the others are frames.                      *)
(*                                                                         *)
(* An octet is a string.  The first octet of a line says what the line is, *)
(* the ones behind it are padding.  One round of the loop over the lines   *)
(* is one step.                                                            *)
(***************************************************************************)
EXTENDS Integers, Sequences, SequencesExt, FiniteSetsExt

CONSTANTS
  max_header_size,
  max_body_size

VARIABLES
  httpKind,     \* "request" or "response"
  httpStream,   \* all the octets that are sent
  httpIn,       \* the ones that have not arrived
  parser        \* see NewParser

httpVars == <<httpKind, httpStream, httpIn, parser>>

CR == "\r"
LF == "\n"

\* The lines: GET and STATUS are good first lines, the others are headers.
\* CL1 and CL9 are Content-Length: 1 and 9, CLx is one that is no number.
FirstLine == IF httpKind = "request" THEN "GET" ELSE "STATUS"
Header == {"Host", "CL1", "CL9", "CLx", "Other"}
IsLength(h) == h \in {"CL1", "CL9", "CLx"}
Length(h) == CASE h = "CL1" -> 1 [] h = "CL9" -> 9 [] OTHER -> 0

NewParser ==
  [buf |-> << >>, begin |-> 1,       \* m_buf, and where the next line begins
   chunk |-> << >>,                  \* the octets of this call
   bytes |-> 0,                      \* m_header_bytes
   partial |-> 0,                    \* calls that ended within the head
   state |-> "FIRST",                \* of response; request has the same by its members
   scanning |-> FALSE,
   headers |-> << >>, needed |-> 0, body |-> << >>,
   left |-> << >>,                   \* octets of the last call it did not take
   error |-> 0]

Throw(p, status) == [p EXCEPT !.error = status, !.scanning = FALSE]

-----------------------------------------------------------------------------
(* Lines.                                                                   *)

Ends(s) == {i \in 1..Len(s) - 1 : s[i] = CR /\ s[i + 1] = LF}

\* Where the line at begin ends, Len(buf) + 1 if its end has not arrived.
LineEnd(p) == Min({i \in Ends(p.buf) : i >= p.begin} \cup {Len(p.buf) + 1})

\* process(): the first line.
process(p, line) ==
  IF Head(line) = FirstLine THEN [p EXCEPT !.state = "HEADERS"] ELSE Throw(p, 400)

\* process_header(), append_header(): a header that comes twice is appended.
process_header(p, line) ==
  IF Head(line) \in Header THEN [p EXCEPT !.headers = Append(@, Head(line))] ELSE Throw(p, 400)

ProcessLine(p, line) == IF p.state = "FIRST" THEN process(p, line) ELSE process_header(p, line)

-----------------------------------------------------------------------------
(* The body.                                                                *)

\* strtoul() and >> read the first of two lengths.
Lengths(p) == SelectSeq(p.headers, IsLength)

\* process_body(), of parser and of response.
process_body(p, s) ==
  LET n == Min({p.needed, Len(s)})
  IN [p EXCEPT !.body = @ \o SubSeq(s, 1, n), !.needed = @ - n,
               !.left = SubSeq(s, n + 1, Len(s)),
               !.state = IF p.needed = n THEN "DONE" ELSE "BODY"]

\* prepare_body() and what follows the empty line of a request.
BodyOfRequest(p, rest) ==
  LET n == Length(Head(Lengths(p)))
  IN IF Lengths(p) = << >> THEN [p EXCEPT !.state = "DONE", !.left = rest]
     ELSE IF n > max_body_size THEN Throw(p, 413)
     ELSE process_body([p EXCEPT !.needed = n], rest)

\* The same of a response: an empty body is noticed by the next call.
BodyOfResponse(p, rest) ==
  IF Lengths(p) # << >> /\ Head(Lengths(p)) = "CLx" THEN Throw(p, 400)
  ELSE LET n == IF Lengths(p) = << >> THEN 0 ELSE Length(Head(Lengths(p)))
           q == [p EXCEPT !.state = "BODY", !.needed = n]
       IN IF rest = << >> THEN q ELSE process_body(q, rest)

\* Mutant of EndOfHead: the octets taken are counted from the wrong end.
EndOfHead_LineOnly(p, end) ==
  LET processed == Len(p.chunk) - (Len(p.buf) - end + 1)
      rest == SubSeq(p.chunk, processed + 1, Len(p.chunk))
      q == [p EXCEPT !.scanning = FALSE, !.buf = << >>]
      incomplete == p.state = "FIRST" \/ (httpKind = "request" /\ ~Contains(p.headers, "Host"))
  IN IF incomplete THEN Throw(q, 400)
     ELSE IF httpKind = "request" THEN BodyOfRequest(q, rest) ELSE BodyOfResponse(q, rest)

\* The empty line.
EndOfHead(p, end) ==
  LET processed == Len(p.chunk) - (Len(p.buf) - end + 1) + 2
      rest == SubSeq(p.chunk, processed + 1, Len(p.chunk))
      q == [p EXCEPT !.scanning = FALSE, !.buf = << >>]
      incomplete == p.state = "FIRST" \/ (httpKind = "request" /\ ~Contains(p.headers, "Host"))
  IN IF incomplete THEN Throw(q, 400)
     ELSE IF httpKind = "request" THEN BodyOfRequest(q, rest) ELSE BodyOfResponse(q, rest)

-----------------------------------------------------------------------------
(* consume()                                                                *)

\* A call with the next octets.
Consume ==
  /\ ~parser.scanning /\ parser.error = 0 /\ parser.state # "DONE"
  /\ \E n \in 1..Len(httpIn) :
       LET chunk == SubSeq(httpIn, 1, n)
       IN /\ httpIn' = SubSeq(httpIn, n + 1, Len(httpIn))
          /\ parser' = IF parser.state = "BODY" THEN process_body(parser, chunk)
                       ELSE [parser EXCEPT !.buf = @ \o chunk, !.chunk = chunk, !.scanning = TRUE]
  /\ UNCHANGED <<httpKind, httpStream>>

\* The end of a line is missing: what there is of it is kept.  The three
\* octets that were counted for its end stay counted.
KeepPartialLine(p) ==
  [p EXCEPT !.buf = SubSeq(p.buf, p.begin, Len(p.buf)), !.begin = 1,
            !.bytes = @ - (Len(p.buf) - p.begin + 1), !.partial = @ + 1, !.scanning = FALSE]

\* One line of the loop.
ScanLine ==
  LET end == LineEnd(parser)
      p == [parser EXCEPT !.bytes = @ + end - parser.begin + 3]
  IN /\ parser.scanning
     /\ parser' = IF p.bytes > max_header_size THEN Throw(p, 431)
                  ELSE IF end = Len(p.buf) + 1 THEN KeepPartialLine(p)
                  ELSE IF end = p.begin THEN EndOfHead(p, end)
                  ELSE [ProcessLine(p, SubSeq(p.buf, p.begin, end - 1)) EXCEPT !.begin = end + 2]
     /\ UNCHANGED <<httpKind, httpStream, httpIn>>

HttpInit(streams) ==
  /\ httpKind \in {"request", "response"} /\ httpStream \in streams
  /\ httpIn = httpStream /\ parser = NewParser

HttpNext == Consume \/ ScanLine

-----------------------------------------------------------------------------
(* What a stream means when it is read as a whole.                          *)

Starts(s) == {1} \cup {i + 2 : i \in Ends(s)}
Empties(s) == Ends(s) \cap Starts(s)
HasHead(s) == Empties(s) # {}

\* The lines that end before the head does, in order.
Lines(s) ==
  LET whole == {i \in Starts(s) : /\ \E j \in Ends(s) : j >= i
                                  /\ HasHead(s) => i < Min(Empties(s))}
  IN [k \in 1..Cardinality(whole) |-> s[SetToSortSeq(whole, <)[k]]]

GoodLine(s, k) == IF k = 1 THEN Lines(s)[k] = FirstLine ELSE Lines(s)[k] \in Header
FirstLength(s) == SelectSeq(Lines(s), IsLength)
BodySize(s) == IF FirstLength(s) = << >> THEN 0 ELSE Length(Head(FirstLength(s)))
MessageSize(s) == Min(Empties(s)) + 1 + BodySize(s)

Meant(s) ==
  CASE \E k \in 1..Len(Lines(s)) : ~GoodLine(s, k) -> 400
    [] ~HasHead(s) -> 0
    [] Lines(s) = << >> \/ (httpKind = "request" /\ ~Contains(Lines(s), "Host")) -> 400
    [] httpKind = "request" /\ BodySize(s) > max_body_size -> 413
    [] httpKind = "response" /\ FirstLength(s) # << >> /\ Head(FirstLength(s)) = "CLx" -> 400
    [] OTHER -> 0

HttpIdle == ~parser.scanning /\ (httpIn = << >> \/ parser.state = "DONE" \/ parser.error # 0)

(* However a message is cut into reads, also within the end of a line, the  *)
(* parser finds its headers and its body and takes not one octet more: the  *)
(* frames a peer sends right behind it reach the connection whole.  It      *)
(* answers 400 or 413 only to a message that deserves it.                   *)
HttpDecoded ==
  LET s == httpStream
  IN HttpIdle /\ parser.error # 431 =>
       /\ parser.error = Meant(s)
       /\ parser.state = "DONE" =>
            /\ HasHead(s) /\ parser.headers = Tail(Lines(s))
            /\ parser.body = SubSeq(s, Min(Empties(s)) + 2, MessageSize(s))
            /\ parser.left \o httpIn = SubSeq(s, MessageSize(s) + 1, Len(s))
       /\ parser.error = 0 /\ HasHead(s) /\ Len(s) > MessageSize(s) => parser.state = "DONE"

\* The octets of the head that have arrived.
HeadSize ==
  LET arrived == Len(httpStream) - Len(httpIn)
  IN IF HasHead(httpStream) THEN Min({arrived, Min(Empties(httpStream)) + 1}) ELSE arrived

\* sizeof(header_delimiter) counts the delimiter and its zero: consume()
\* counts an octet too many for each line, and three that stay counted for
\* each read that ended within the head.  A head that would fit with less is
\* miscounted when this makes it too large.
Miscounted ==
  LET surplus == Len(Lines(httpStream)) + 1 + 3 * (parser.partial + 1)
  IN HeadSize <= max_header_size /\ HeadSize + surplus > max_header_size

(* A head larger than max_header_size is refused as too large, however it   *)
(* arrives, and no other head is, unless consume() miscounted it: a peer    *)
(* whose head comes in many reads meets the limit sooner than it should.    *)
HeadIsBounded ==
  /\ ~parser.scanning /\ parser.error = 0 => HeadSize <= max_header_size
  /\ parser.error = 431 => HeadSize > max_header_size \/ Miscounted

-----------------------------------------------------------------------------
(* The parameter lists of the headers Sec-WebSocket-Extensions and          *)
(* Sec-WebSocket-Protocol, as websocketpp takes them apart                  *)
(* (http/parser.hpp, extract_parameters and what it calls).                 *)
(*                                                                          *)
(* A text is a sequence of characters.  "t" stands for a token character,   *)
(* "q" for the quotation mark and "b" for the backslash.  A cursor is an    *)
(* index; Len(s) + 1 is the end.  An extraction returns what it found and   *)
(* the cursor behind it.  Folded lines do not occur: the parser has split   *)
(* the header at every CR LF.                                               *)

VARIABLE plist     \* the list that is sent, and the text that is sent for it

Quote == "q"
Backslash == "b"
Token == {"t", "u"}
Found(x, cursor) == [found |-> x, cursor |-> cursor]

\* The first place at or behind c where a character is in S.
Find(s, c, S) == Min({i \in c..Len(s) : s[i] \in S} \cup {Len(s) + 1})
FindNot(s, c, S) == Min({i \in c..Len(s) : s[i] \notin S} \cup {Len(s) + 1})

extract_token(s, c) == LET e == FindNot(s, c, Token) IN Found(SubSeq(s, c, e - 1), e)
extract_all_lws(s, c) == FindNot(s, c, {" "})

\* strip_lws(), of the value of a header.
strip_lws(s) ==
  LET kept == {i \in 1..Len(s) : s[i] # " "}
  IN IF kept = {} THEN << >> ELSE SubSeq(s, Min(kept), Max(kept))

-----------------------------------------------------------------------------
(* extract_quoted_string(): a quotation mark behind a backslash is text.    *)
RECURSIVE Unquote(_, _, _, _)
Unquote(s, marker, cursor, found) ==
  LET e == Find(s, cursor, {Quote})
  IN IF e > Len(s) THEN Found(<< >>, 0)
     ELSE IF s[e - 1] = Backslash THEN Unquote(s, e + 1, e + 1, found \o SubSeq(s, marker, e - 2) \o <<Quote>>)
     ELSE Found(found \o SubSeq(s, marker, e - 1), e + 1)

extract_quoted_string(s, c) ==
  IF c > Len(s) \/ s[c] # Quote THEN Found(<< >>, c)
  ELSE LET r == Unquote(s, c + 1, c + 1, << >>) IN IF r.cursor = 0 THEN Found(<< >>, c) ELSE r

-----------------------------------------------------------------------------
(* extract_attributes(): name, or name = value, between semicolons.  A      *)
(* cursor of 0 is an error.  attributes is a map: sorted names, here a      *)
(* function.                                                                *)
RECURSIVE Attributes(_, _, _, _)
Attributes(s, c0, first, found) ==
  LET c1 == extract_all_lws(s, c0)
      c2 == extract_all_lws(s, IF first THEN c1 ELSE c1 + 1)
      name == extract_token(s, c2)
      c3 == extract_all_lws(s, name.cursor)
      c4 == extract_all_lws(s, c3 + 1)
      quoted == extract_quoted_string(s, c4)
      value == IF quoted.cursor # c4 THEN quoted ELSE extract_token(s, c4)
      With(v) == [n \in DOMAIN found \cup {name.found} |-> IF n = name.found THEN v ELSE found[n]]
  IN IF c1 > Len(s) \/ (~first /\ s[c1] # ";") THEN Found(found, c1)
     ELSE IF name.found = << >> THEN Found(found, 0)
     ELSE IF c3 > Len(s) \/ s[c3] # "=" THEN Attributes(s, c3, FALSE, With(<< >>))
     ELSE IF c4 > Len(s) \/ (quoted.cursor = c4 /\ value.found = << >>) THEN Found(found, 0)
     ELSE Attributes(s, value.cursor, FALSE, With(value.found))

NoAttributes == [n \in {} |-> << >>]

extract_attributes(s, c) ==
  IF c > Len(s) THEN Found(NoAttributes, 0) ELSE Attributes(s, c, TRUE, NoAttributes)

\* extract_parameters(): what stands behind a parameter that is neither a
\* semicolon nor a comma ends the list without an error.
RECURSIVE Parameters(_, _, _)
Parameters(s, c0, found) ==
  LET c1 == extract_all_lws(s, c0)
      name == extract_token(s, c1)
      c2 == extract_all_lws(s, name.cursor)
      attributes == IF c2 <= Len(s) /\ s[c2] = ";" THEN extract_attributes(s, c2 + 1)
                    ELSE Found(NoAttributes, c2)
      more == Append(found, [name |-> name.found, attributes |-> attributes.found])
      c3 == extract_all_lws(s, attributes.cursor)
  IN IF c1 > Len(s) THEN Found(found, c1)
     ELSE IF name.found = << >> \/ attributes.cursor = 0 THEN Found(found, 0)
     ELSE IF c3 > Len(s) \/ s[c3] # "," THEN Found(more, c3)
     ELSE IF c3 = Len(s) THEN Found(more, 0)
     ELSE Parameters(s, c3 + 1, more)

\* get_header_as_plist(): TRUE is an error.
get_header_as_plist(text) ==
  LET s == strip_lws(text)
      r == Parameters(s, 1, << >>)
  IN IF s = << >> THEN [error |-> FALSE, list |-> << >>]
     ELSE [error |-> r.cursor \in {0, 1}, list |-> r.found]

-----------------------------------------------------------------------------
(* How a peer writes a list: a value that is no token is quoted, and a      *)
(* quotation mark or a backslash in it is escaped.                          *)

Escaped(x) == IF x \in {Quote, Backslash} THEN <<Backslash, x>> ELSE <<x>>
Quoted(v) == <<Quote>> \o FlattenSeq([i \in 1..Len(v) |-> Escaped(v[i])]) \o <<Quote>>
IsToken(v) == v # << >> /\ \A i \in 1..Len(v) : v[i] \in Token
Value(v) == IF IsToken(v) THEN v ELSE Quoted(v)

WriteAttribute(a, n, sp) ==
  IF a[n] = << >> THEN sp \o n ELSE sp \o n \o sp \o <<"=">> \o sp \o Value(a[n])
WriteParameter(p, sp) ==
  LET names == SetToSeq(DOMAIN p.attributes)
  IN p.name \o FlattenSeq([i \in 1..Len(names) |->
                             sp \o <<";">> \o WriteAttribute(p.attributes, names[i], sp)])
WriteList(l, sp) ==
  sp \o FlattenSeq([i \in 1..Len(l) |-> IF i = 1 THEN WriteParameter(l[i], sp)
                                        ELSE sp \o <<",">> \o sp \o WriteParameter(l[i], sp)]) \o sp

ParametersInit(lists) == \E l \in lists, sp \in {<< >>, <<" ">>} :
                           plist = [list |-> l, text |-> WriteList(l, sp)]

\* The peer appends a comma, or forgets the value of the last attribute.
Damage ==
  /\ plist.list # << >>
  /\ \E bad \in {<<",">>, <<";", "t", "=">>, <<";", ";">>, <<",", ";">>} :
       plist' = [list |-> << >>, text |-> plist.text \o bad]

\* extract_quoted_string() takes the second of two backslashes for one that
\* escapes what follows, and keeps both.
HasEscapedBackslash(s) == \E i \in 1..Len(s) - 1 : s[i] = Backslash /\ s[i + 1] = Backslash

(* The extensions and subprotocols a peer lists are the ones that are       *)
(* found, with their attributes, whatever white space it writes and         *)
(* whichever values it quotes, unless a value has a backslash; a list that  *)
(* breaks off is an error and never a shorter list.                         *)
ParametersRoundTrip ==
  LET r == get_header_as_plist(plist.text)
  IN ~HasEscapedBackslash(plist.text) =>
       IF plist.list = << >> THEN plist.text \in {<< >>, <<" ", " ">>} \/ r.error
       ELSE ~r.error /\ r.list = plist.list
=============================================================================
