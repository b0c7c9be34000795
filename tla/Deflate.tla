-------------------------------- MODULE Deflate --------------------------------
(***************************************************************************)
(* How websocketpp negotiates permessage-deflate                           *)
(* (extensions/permessage_deflate/enabled.hpp and                          *)
(* negotiate_extensions_helper() of processors/hybi13.hpp).                *)
(*                                                                         *)
(* An offer is a sequence of attributes; a client may send several offers  *)
(* in order of preference, and a client of websocketpp sends one.  Both    *)
(* ends use the same negotiate(): the server on the offers, the client on  *)
(* the answer.  zlib itself is external: what matters of it is the size of *)
(* the windows, and whether they are forgotten after each message.         *)
(***************************************************************************)
EXTENDS Integers, Sequences, SequencesExt, FiniteSets, FiniteSetsExt

VARIABLES
  offers,      \* what the client offers
  ends,        \* server, client -> its extension: see NewExtension
  answer,      \* the answer of the server, if there is one
  met,         \* where the negotiation is
  mixed        \* an offer was refused after some of its attributes were applied

deflateVars == <<offers, ends, answer, met, mixed>>

Bits == 8..15
default_max_window_bits == 15
min_max_window_bits == 8
Mode == {"accept", "decline", "largest", "smallest"}

\* enabled(), after set_server_max_window_bits(), set_client_max_window_bits(),
\* which make 8 a 9, enable_server_ and enable_client_no_context_takeover().
\* set is what was set, which the negotiation may change.
NewExtension(srvBits, srvMode, cliBits, cliMode, srvReset, cliReset) ==
  LET limits == [server |-> IF srvBits = 8 THEN 9 ELSE srvBits,
                 client |-> IF cliBits = 8 THEN 9 ELSE cliBits]
  IN [enabled |-> FALSE, ready |-> FALSE, set |-> limits,
      server |-> limits.server, serverMode |-> srvMode,
      client |-> limits.client, clientMode |-> cliMode,
      serverReset |-> srvReset, clientReset |-> cliReset,
      deflate |-> 0, inflate |-> 0, flush |-> "none", error |-> FALSE]

\* An attribute with its value: none, or a number.
Attribute(name, value) == [name |-> name, value |-> value]
NoValue == -1

\* attribute_list is a map: the attributes come in the order of their names,
\* and the last value of a name counts.
Names == <<"client_max_window_bits", "client_no_context_takeover", "server_max_window_bits",
           "server_no_context_takeover", "unknown">>
Offered(offer, name) == {offer[i].value : i \in {j \in 1..Len(offer) : offer[j].name = name}}
LastOf(offer, name) == offer[Max({j \in 1..Len(offer) : offer[j].name = name})]
attribute_list(offer) ==
  LET named == SelectSeq(Names, LAMBDA n : Offered(offer, n) # {})
  IN [i \in 1..Len(named) |-> LastOf(offer, named[i])]

\* generate_offer(), which does not ask for what the application has set.
generate_offer ==
  <<Attribute("client_no_context_takeover", NoValue), Attribute("client_max_window_bits", NoValue)>>

Agreed(mode, bits, own) ==
  LET n == CASE mode = "decline" -> default_max_window_bits
             [] mode = "accept" -> bits
             [] mode = "largest" -> Min({bits, own})
             [] mode = "smallest" -> min_max_window_bits
  IN IF n = 8 THEN 9 ELSE n

\* uint8_t(atoi(value)): 265 is taken for 9, and no value for 0.
Uint8(value) == IF value = NoValue THEN 0 ELSE value % 256

negotiate_server_max_window_bits(x, value) ==
  LET bits == Uint8(value)
  IN IF bits \notin Bits THEN [x EXCEPT !.error = TRUE, !.server = default_max_window_bits]
     ELSE [x EXCEPT !.server = Agreed(x.serverMode, bits, x.server)]

negotiate_client_max_window_bits(x, value) ==
  LET bits == IF value = NoValue THEN default_max_window_bits ELSE Uint8(value)
  IN IF bits \notin Bits THEN [x EXCEPT !.error = TRUE, !.client = default_max_window_bits]
     ELSE [x EXCEPT !.client = Agreed(x.clientMode, bits, x.client)]

NegotiateAttribute(x, a) ==
  IF x.error THEN x
  ELSE CASE a.name = "server_no_context_takeover" ->
              [x EXCEPT !.error = a.value # NoValue, !.serverReset = @ \/ a.value = NoValue]
         [] a.name = "client_no_context_takeover" ->
              [x EXCEPT !.error = a.value # NoValue, !.clientReset = @ \/ a.value = NoValue]
         [] a.name = "server_max_window_bits" -> negotiate_server_max_window_bits(x, a.value)
         [] a.name = "client_max_window_bits" -> negotiate_client_max_window_bits(x, a.value)
         [] OTHER -> [x EXCEPT !.error = TRUE]

\* negotiate(): what was applied before an attribute is refused stays.
negotiate(x, offer) ==
  LET y == FoldLeft(NegotiateAttribute, [x EXCEPT !.error = FALSE], attribute_list(offer))
  IN IF y.error THEN y ELSE [y EXCEPT !.enabled = TRUE]

\* generate_response().
generate_response(x) ==
  (IF x.serverReset THEN <<Attribute("server_no_context_takeover", NoValue)>> ELSE << >>)
  \o (IF x.clientReset THEN <<Attribute("client_no_context_takeover", NoValue)>> ELSE << >>)
  \o (IF x.server < 15 THEN <<Attribute("server_max_window_bits", x.server)>> ELSE << >>)
  \o (IF x.client < 15 THEN <<Attribute("client_max_window_bits", x.client)>> ELSE << >>)

\* Mutant of init: both ends take the windows of a server.
init_AsServer(x, is_server) ==
  [x EXCEPT !.ready = TRUE, !.deflate = x.server, !.inflate = x.client,
            !.flush = IF x.serverReset THEN "full" ELSE "sync"]

\* init(): the windows of zlib, and whether they are forgotten.
init(x, is_server) ==
  [x EXCEPT !.ready = TRUE, !.deflate = IF is_server THEN x.server ELSE x.client,
            !.inflate = IF is_server THEN x.client ELSE x.server,
            !.flush = IF (IF is_server THEN x.serverReset ELSE x.clientReset) THEN "full" ELSE "sync"]

\* The first offer that is not refused is taken.
TakeOffers(x, list) ==
  FoldLeft(LAMBDA y, offer : IF y.enabled THEN y ELSE negotiate(y, offer), x, list)
TakenAt(x, list) ==
  Min({i \in 1..Len(list) : TakeOffers(x, SubSeq(list, 1, i)).enabled} \cup {Len(list) + 1})

-----------------------------------------------------------------------------
DeflateInit(configs, clientConfigs, offerLists) ==
  /\ \E s \in configs, c \in clientConfigs : ends = [server |-> s, client |-> c]
  /\ offers \in offerLists /\ answer = << >> /\ met = "offer" /\ mixed = FALSE

\* negotiate_extensions() on the request.  When zlib fails the extension is
\* on at the server, and no answer is given.
ServerNegotiates ==
  LET x == TakeOffers(ends["server"], offers)
      k == TakenAt(ends["server"], offers)
  IN /\ met = "offer"
     /\ mixed' = (k > 1)
     /\ \/ ~x.enabled /\ ends' = [ends EXCEPT !["server"] = x] /\ answer' = << >> /\ met' = "answer"
        \/ /\ x.enabled /\ ends' = [ends EXCEPT !["server"] = init(x, TRUE)]
           /\ answer' = <<generate_response(x)>> /\ met' = "answer"
        \/ /\ x.enabled /\ ends' = [ends EXCEPT !["server"] = x]
           /\ answer' = << >> /\ met' = "zlib failed"
     /\ UNCHANGED offers

\* negotiate_extensions() on the response, by a client of websocketpp.  When
\* zlib fails handle_read_http_response() terminates the connection.
ClientNegotiates ==
  LET x == TakeOffers(ends["client"], answer)
  IN /\ met = "answer" /\ offers = <<generate_offer>>
     /\ \/ /\ met' = "done"
           /\ ends' = [ends EXCEPT !["client"] = IF x.enabled THEN init(x, FALSE) ELSE x]
        \/ x.enabled /\ met' = "failed" /\ ends' = [ends EXCEPT !["client"] = x]
     /\ UNCHANGED <<offers, answer, mixed>>

DeflateNext == ServerNegotiates \/ ClientNegotiates

-----------------------------------------------------------------------------
Given(name) == Offered(answer[1], name)

\* A client that limits the window of the server: the limit is its own secret,
\* for generate_offer() does not ask for it, and the client takes it for
\* agreed; or it replaces what the server answers by the smallest.
LimitsServer(c) == c.set.server < default_max_window_bits \/ c.serverMode = "smallest"

\* A client that insists on its own window when the server has limited it.
DeclinesLimit(c) == c.clientMode = "decline"

(* After the handshake both ends compress or none does, each can inflate    *)
(* what the other deflates, and an end forgets its window when the answer   *)
(* says so; unless the application of the client limits the server or       *)
(* declines a limit, which this code cannot negotiate.                      *)
DeflateAgreed ==
  LET s == ends["server"]
      c == ends["client"]
  IN met = "done" /\ ~LimitsServer(c) /\ ~DeclinesLimit(c) =>
       /\ s.ready = c.ready /\ s.enabled = c.enabled
       /\ s.ready => /\ c.inflate >= s.deflate /\ s.inflate >= c.deflate
                     /\ Given("server_no_context_takeover") # {} => s.flush = "full"
                     /\ Given("client_no_context_takeover") # {} => c.flush = "full"
                     /\ {s.deflate, s.inflate, c.deflate, c.inflate} \subseteq 9..15

\* A number that is no window size, but whose last eight bits are one.
Wraps(value) == value \notin Bits /\ Uint8(value) \in Bits

(* The answer stays within the offer it accepts.  The numbers of the offer  *)
(* are window sizes, unless one wraps around; the window of the server is   *)
(* not larger than what was asked (8 is answered by 9), unless the server   *)
(* is set to decline, which answers the default instead of refusing; and    *)
(* the window of the client is limited only if the client offered it,       *)
(* unless the server was set to limit it, which it then does unasked.       *)
(* Nothing is said of an offer behind one that was refused half way and     *)
(* left its attributes behind.                                              *)
AnswerFitsOffer ==
  LET x == ends["server"]
      offer == offers[1]
      asked == {a \in Offered(attribute_list(offer), "server_max_window_bits") : ~Wraps(a)}
      mayLimit == Offered(attribute_list(offer), "client_max_window_bits")
      given == Given("server_max_window_bits")
  IN answer # << >> /\ ~mixed =>
       /\ \A a \in asked \cup (mayLimit \ {NoValue}) : a \in Bits \/ Wraps(a)
       /\ asked # {} /\ x.serverMode # "decline" =>
            (IF given = {} THEN 15 ELSE Max(given)) <= Max(asked \cup {9})
       /\ mayLimit = {} /\ x.set.client = default_max_window_bits => Given("client_max_window_bits") = {}
=============================================================================
