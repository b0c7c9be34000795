------------------------------- MODULE MCCodecs -------------------------------
(***************************************************************************)
(* What websocketpp writes and reads: frames, the compression that is      *)
(* negotiated, http heads, parameter lists, the handshake, the old frames, *)
(* keys, characters, close frames and addresses.  `codec' chooses one of   *)
(* them at the start; the others stand still.                              *)
(***************************************************************************)
EXTENDS WsFrames, Deflate, HttpParser, WsHandshake, WsValues

VARIABLE codec

codecVars ==
  <<codec, frameVars, deflateVars, httpVars, plist, handshakeVars, oldVars, keyText, utf8Vars,
    closing, address>>

-----------------------------------------------------------------------------
(* Frames: good ones of either end, alone, after one another and with a     *)
(* ping between two fragments; and bad ones after a good one.  websocketpp  *)
(* refuses to write a text frame that ends inside a character, and a ping   *)
(* that is too long; other peers may cut a character.                       *)

DataFrame(m) ==
  UNION {prepare_data_frame(d[1], d[2], d[3], ~m) :
     d \in {<<"text", TRUE, <<0, 1, 2>>>>, <<"text", FALSE, <<0>>>>, <<"text", FALSE, <<1>>>>,
            <<"continuation", TRUE, <<2, 0>>>>, <<"continuation", FALSE, <<2>>>>,
            <<"continuation", TRUE, << >>>>, <<"ping", TRUE, << >>>>,
            <<"binary", TRUE, <<3, 3, 1>>>>, <<"binary", FALSE, <<3, 0>>>>}}
  \cup {Prepared("text", FALSE, <<0, 1>>, m)}
Ping(m) == UNION {prepare_control("ping", p, ~m) : p \in {<< >>, <<3>>, <<0, 0>>}}
BadFrame(m) ==
  {Prepared("text", TRUE, <<1>>, m), Prepared("text", TRUE, <<3>>, m), Prepared("reserved", TRUE, << >>, m),
   [Prepared("text", TRUE, <<0>>, m) EXCEPT !.rsv = TRUE], Prepared("ping", FALSE, << >>, m),
   Prepared("ping", TRUE, <<0, 0>>, m), [Prepared("binary", TRUE, <<0>>, m) EXCEPT !.code = "16bit"],
   [Prepared("binary", TRUE, <<0, 0>>, m) EXCEPT !.code = "64bit"]}
OfEnd(m) ==
  LET G == DataFrame(m) \cup Ping(m)
  IN {<<f>> : f \in G} \cup {<<f, g>> : f, g \in G}
     \cup {<<f, p, g>> : f, g \in DataFrame(m), p \in Ping(m)}
     \cup {<<b>> : b \in BadFrame(m)} \cup {<<f, b>> : f \in DataFrame(m), b \in BadFrame(m)}
     \cup {<<f, g>> : f \in Ping(m), g \in DataFrame(~m)}

FramesOf(on) == IF on THEN FramesInit(OfEnd(TRUE) \cup OfEnd(FALSE)) /\ script[1].masked = toServer
                ELSE FramesInit({<< >>}) /\ toServer

(* Deflate: servers of every mode, and clients of every mode with the offer *)
(* of websocketpp; offers of others with up to two attributes, and lists of *)
(* up to two offers.                                                        *)

ServerConfigs ==
  {NewExtension(b, m, 15, "accept", r, FALSE) : b \in {8, 10, 15}, m \in Mode, r \in BOOLEAN}
  \cup {NewExtension(15, "accept", b, m, FALSE, r) : b \in {10, 15}, m \in Mode, r \in BOOLEAN}
ClientConfigs ==
  {NewExtension(b, m, d, n, r, q) : b, d \in {8, 10, 15}, m, n \in Mode, r, q \in BOOLEAN}
Attributes1 ==
  {Attribute(a[1], a[2]) :
     a \in {<<"server_no_context_takeover", NoValue>>, <<"server_max_window_bits", 8>>,
            <<"server_max_window_bits", 12>>, <<"server_max_window_bits", 7>>,
            <<"server_max_window_bits", 265>>, <<"server_max_window_bits", NoValue>>,
            <<"client_max_window_bits", NoValue>>, <<"client_max_window_bits", 9>>,
            <<"client_max_window_bits", 272>>, <<"client_no_context_takeover", 3>>,
            <<"unknown", NoValue>>}}
OfferLists ==
  {<<o>> : o \in {<< >>, generate_offer} \cup {<<a, b>> : a, b \in Attributes1}}
  \cup {<<<<a, b>>, generate_offer>> : a, b \in Attributes1}

Plain == NewExtension(15, "accept", 15, "accept", FALSE, FALSE)
DeflateOf(on) == IF on THEN /\ DeflateInit(ServerConfigs, ClientConfigs, OfferLists)
                            /\ offers # <<generate_offer>> => ends["client"] = Plain
                 ELSE DeflateInit({Plain}, {Plain}, {<< >>})

(* Http: heads of up to three lines, with something behind.                 *)

Line(x) == x \o <<CR, LF>>
HeaderLine == {<<"Host">>, <<"CL1">>, <<"CLx">>, <<"CL9">>, <<"Other", "x", "x">>, <<"x">>}
Behind == {<<"x">>, <<CR, LF, "x">>}
Streams ==
  {Line(f) \o Line(<< >>) \o r : f \in {<<"GET">>, <<"STATUS">>, <<"x">>, << >>}, r \in Behind}
  \cup {Line(f) \o Line(h) \o Line(g) \o Line(<< >>) \o r :
          f \in {<<"GET">>, <<"STATUS">>}, h \in {<<"Host">>, <<"Other", "x", "x">>}, g \in HeaderLine, r \in Behind}

HttpOf(on) == IF on THEN HttpInit(Streams) ELSE HttpInit({<< >>}) /\ httpKind = "request"

(* Parameter lists, with values that have to be quoted.                     *)

Values == {<< >>, <<"t", "u">>, <<Quote>>, <<"t", Quote, Quote>>, <<" ", ",">>, <<";", "=">>,
           <<Backslash>>, <<Backslash, Quote, "t">>}
SomeAttributes ==
  {NoAttributes} \cup {[n \in {<<"t">>} |-> v] : v \in Values}
  \cup {[n \in {<<"t">>, <<"u">>} |-> IF n = <<"t">> THEN v ELSE w] : v, w \in Values}
Parameter == {[name |-> n, attributes |-> a] : n \in {<<"u">>, <<"t", "t">>}, a \in SomeAttributes}
Simple == {p \in Parameter : Cardinality(DOMAIN p.attributes) <= 1}

ParametersOf(on) ==
  ParametersInit(IF on THEN {<< >>} \cup {<<p>> : p \in Parameter} \cup {<<p, s>> : p, s \in Simple} ELSE {<< >>})
  /\ (~on => plist.text = << >>)

HandshakeOf(on) == HandshakeInit /\ (~on => /\ ask.key = "k1" /\ ~ask.deflate /\ ask.subprotocols = << >>
                                            /\ ~srv.http /\ srv.agrees /\ srv.selects = "none")
\* Strangers ask where the application of the client asks for nothing.
Strangers ==
  req = Nothing /\ req' # client_handshake_request => ~ask.deflate /\ ask.subprotocols = << >> /\ srv.selects = "none"

OldText == {<< >>, <<"t">>, <<"t", "0">>, <<"0", "0">>}
OldOf(on) == IF on THEN OldInit({<<x>> : x \in OldText} \cup {<<x, y>> : x, y \in OldText}, {<< >>, <<"t">>, <<"f", "0">>})
             ELSE OldInit({<< >>}, {<< >>})

Keys == UNION {[1..n -> {0, 1, 63, 64, 200, 255}] : n \in 0..4}

Codes == {0, 1, 999, 1000, 1002, 1003, 1004, 1005, 1006, 1007, 1014, 1015, 1016, 2999, 3000, 4999, 5000, 65535}
Reasons == {<< >>, <<65>>, <<195, 164>>, <<195>>, <<65, 66, 67>>, <<65, 66, 67, 68>>,
            <<65, 66, 195, 164>>, <<65, 66, 67, 195>>}

Hosts == {<<"h">>, << >>, <<"[", ":", ":", "3", "]">>, <<"[", "h", "]">>, <<"[", ":">>, <<"[", "h", "]", "h">>}
Ports == {<< >>, <<":">>, <<":", "1">>, <<":", "2">>, <<":", "7">>, <<":", "0">>, <<":", "8">>, <<":", "1", "1">>,
          <<":", "h">>, <<":", "7", "h">>}
Texts == {h \o p \o r : h \in Hosts, p \in Ports, r \in {<< >>, <<"/">>, <<"/", "h">>, <<"/", ":", "7">>}} \ {<< >>}

-----------------------------------------------------------------------------

MCInit ==
  /\ codec \in {"frames", "deflate", "http", "parameters", "handshake", "old", "key", "utf8", "close", "uri"}
  /\ FramesOf(codec = "frames") /\ DeflateOf(codec = "deflate") /\ HttpOf(codec = "http")
  /\ ParametersOf(codec = "parameters") /\ HandshakeOf(codec = "handshake") /\ OldOf(codec = "old")
  /\ Base64Init(IF codec = "key" THEN Keys ELSE {<< >>})
  /\ Utf8Init
  /\ CloseInit(IF codec = "close" THEN Codes ELSE {1000}, IF codec = "close" THEN Reasons ELSE {<< >>})
  /\ UriInit(IF codec = "uri" THEN Texts ELSE {<<"h">>}) /\ (codec # "uri" => ~address.secure)

Still(vs) == UNCHANGED <<codec, vs>>

MCNext ==
  \/ /\ codec = "frames" /\ FramesNext
     /\ Still(<<deflateVars, httpVars, plist, handshakeVars, oldVars, keyText, utf8Vars, closing, address>>)
  \/ /\ codec = "deflate" /\ DeflateNext
     /\ Still(<<frameVars, httpVars, plist, handshakeVars, oldVars, keyText, utf8Vars, closing, address>>)
  \/ /\ codec = "http" /\ HttpNext
     /\ Still(<<frameVars, deflateVars, plist, handshakeVars, oldVars, keyText, utf8Vars, closing, address>>)
  \/ /\ codec = "parameters" /\ Damage
     /\ Still(<<frameVars, deflateVars, httpVars, handshakeVars, oldVars, keyText, utf8Vars, closing, address>>)
  \/ /\ codec = "handshake" /\ HandshakeNext /\ Strangers
     /\ Still(<<frameVars, deflateVars, httpVars, plist, oldVars, keyText, utf8Vars, closing, address>>)
  \/ /\ codec = "old" /\ OldNext
     /\ Still(<<frameVars, deflateVars, httpVars, plist, handshakeVars, keyText, utf8Vars, closing, address>>)
  \/ /\ codec = "utf8" /\ ConsumeOctet
     /\ Still(<<frameVars, deflateVars, httpVars, plist, handshakeVars, oldVars, keyText, closing, address>>)
  \/ /\ codec = "close" /\ CloseNext
     /\ Still(<<frameVars, deflateVars, httpVars, plist, handshakeVars, oldVars, keyText, utf8Vars, address>>)
  \/ /\ codec = "uri" /\ UriNext
     /\ Still(<<frameVars, deflateVars, httpVars, plist, handshakeVars, oldVars, keyText, utf8Vars, closing>>)

MCSpec == MCInit /\ [][MCNext]_codecVars

(* Frames of both drafts, cut into reads anyhow, are delivered as the       *)
(* messages that were sent, or refused when they deserve it.                *)
FramesKept == FramesDecoded /\ RefusedIffBad /\ OldTextsArrive

(* So are the messages and the header lists of HTTP.                        *)
HttpKept == HttpDecoded /\ HeadIsBounded /\ ParametersRoundTrip

(* After the opening handshake both ends have agreed: on being a websocket, *)
(* on the subprotocol and on how messages are compressed.                   *)
Negotiated == EndsAgree /\ UpgradesOnlyRequests /\ DeflateAgreed /\ AnswerFitsOffer

(* Keys, texts, close codes and addresses survive being written and read.   *)
ValuesSurvive == KeysRoundTrip /\ Utf8Exact /\ CloseCodesSurvive /\ HostSurvives
=============================================================================
