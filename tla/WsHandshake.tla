----------------------------- MODULE WsHandshake -----------------------------
(***************************************************************************)
(* The opening handshake of websocketpp, request and answer                *)
(* (impl/connection_impl.hpp, processors/hybi13.hpp, hybi00.hpp,           *)
(* processor.hpp): which requests a server upgrades, which answers a       *)
(* client takes, and what the two ends then agree on.  How the octets are  *)
(* read is HttpParser's, who waits for whom is WsConnection's.             *)
(*                                                                         *)
(* A header that only has to be right is a Boolean.  A key is a model      *)
(* value; its answer is <<"hash", key>>.                                   *)
(***************************************************************************)
EXTENDS Integers, Sequences, SequencesExt

CONSTANT Key

VARIABLES
  ask,        \* what the client's application asked for, and its key
  req,        \* the request as the server reads it
  srv,        \* the server's end: see NewServer
  res,        \* the answer as the client reads it
  cli         \* the client's end: "waits", "open", "failed", or "reopened" when
              \* it was terminated and opened all the same

handshakeVars == <<ask, req, srv, res, cli>>

Nothing == [status |-> 0]
versions_supported == {0, 7, 8, 13}

\* The application of the server: does it serve http, which subprotocol does
\* its validate handler select, and does the handler agree.
NewServer(handler, selects, agrees) ==
  [http |-> handler, selects |-> selects, agrees |-> agrees, state |-> "connecting",
   requested |-> << >>, subprotocol |-> "none", processor |-> -1, extension |-> FALSE]

-----------------------------------------------------------------------------
(* The client asks.                                                         *)

\* add_subprotocol(), then client_handshake_request(): version 13 always.
client_handshake_request ==
  [get |-> TRUE, http11 |-> TRUE, upgrade |-> TRUE, connection |-> TRUE, version |-> 13,
   key |-> ask.key, key12 |-> FALSE, behind |-> 0, subprotocols |-> ask.subprotocols,
   extensions |-> IF ask.deflate THEN "deflate" ELSE "none", host |-> TRUE]

send_http_request ==
  /\ req = Nothing
  /\ req' = client_handshake_request
  /\ UNCHANGED <<ask, srv, res, cli>>

\* Someone else asks: a browser of another version, or no websocket at all.
\* behind counts the octets that came in one read with the request.
Unlike ==
  [{"get", "http11", "upgrade", "connection", "host", "key12"} -> BOOLEAN]

foreign_request ==
  /\ req = Nothing
  /\ \E u \in Unlike, version \in {-1, 0, 8, 9, 13}, key \in Key \cup {"none"}, behind \in {0, 8},
        extensions \in {"none", "deflate", "garbage"}, subprotocols \in {<< >>, <<"garbage">>} :
       /\ Len(SelectSeq(<<u.get, u.http11, u.upgrade, u.connection, u.host>>, LAMBDA x : ~x)) <= 1
       /\ req' = [get |-> u.get, http11 |-> u.http11, upgrade |-> u.upgrade,
                  connection |-> u.connection, version |-> version, key |-> key,
                  key12 |-> u.key12, behind |-> behind, subprotocols |-> subprotocols,
                  extensions |-> extensions, host |-> u.host]
  /\ UNCHANGED <<ask, srv, res, cli>>

-----------------------------------------------------------------------------
(* The server answers.                                                      *)

is_websocket_handshake(r) == r.upgrade /\ r.connection

Status(code) == [status |-> code, upgrade |-> FALSE, accept |-> "none", extension |-> "none",
                 subprotocol |-> "none"]

\* initialize_processor() and get_processor(); version -1 is no number.  A
\* client of version 0 must have sent eight octets along with the request.
initialize_processor(r) ==
  CASE ~is_websocket_handshake(r) -> 0
    [] r.version < 0 -> 400
    [] r.version \notin versions_supported -> 400
    [] r.version = 0 /\ r.behind < 8 -> 500
    [] OTHER -> 0

\* validate_handshake() of hybi00, and of hybi13 with its heirs.
validate_handshake(r) ==
  /\ r.get /\ r.http11
  /\ IF r.version = 0 THEN r.key12 /\ r.behind >= 8 ELSE r.key # "none"

\* extract_subprotocols(): a list it cannot parse is no list.
extract_subprotocols(r) == IF r.subprotocols = <<"garbage">> THEN << >> ELSE r.subprotocols

\* select_subprotocol(), called by the validate handler: only one of those the
\* client has asked for.
select_subprotocol(s) == IF Contains(s.requested, s.selects) THEN s.selects ELSE "none"

\* process_handshake()
process_handshake(r, s) ==
  [status |-> 101, upgrade |-> TRUE, accept |-> <<"hash", r.key>>,
   extension |-> IF s.extension THEN "deflate" ELSE "none", subprotocol |-> s.subprotocol]

\* process_handshake_request() for a websocket: the server's end and its answer.
Upgraded(r, s) ==
  LET negotiated == r.version # 0 /\ r.extensions = "deflate"
      t == [s EXCEPT !.processor = r.version, !.extension = negotiated,
                     !.requested = extract_subprotocols(r)]
      v == [t EXCEPT !.subprotocol = select_subprotocol(t)]
  IN CASE ~validate_handshake(r) -> [s |-> [s EXCEPT !.state = "failed"], r |-> Status(400)]
       [] r.version # 0 /\ r.extensions = "garbage" -> [s |-> [s EXCEPT !.state = "failed"], r |-> Status(400)]
       [] ~r.host -> [s |-> [t EXCEPT !.state = "failed"], r |-> Status(400)]
       [] ~s.agrees -> [s |-> [v EXCEPT !.state = "failed"], r |-> Status(400)]
       [] OTHER -> [s |-> [v EXCEPT !.state = "open"], r |-> process_handshake(r, v)]

\* handle_read_handshake(), process_handshake_request() and
\* handle_write_http_response(): the end stays open only behind a 101.
process_handshake_request ==
  /\ req # Nothing /\ srv.state = "connecting"
  /\ LET bad == initialize_processor(req)
         plain == IF ~req.host THEN 400 ELSE IF srv.http THEN 200 ELSE 426
         up == Upgraded(req, srv)
     IN IF bad # 0 THEN srv' = [srv EXCEPT !.state = "failed"] /\ res' = Status(bad)
        ELSE IF ~is_websocket_handshake(req)
        THEN srv' = [srv EXCEPT !.state = "failed"] /\ res' = Status(plain)
        ELSE srv' = up.s /\ res' = up.r
  /\ UNCHANGED <<ask, req, cli>>

\* The answer to another request arrives, or one with a header that is no
\* list: a cache or a proxy mixed them up.
stale_answer ==
  /\ res.status = 101 /\ cli = "waits"
  /\ \/ \E k \in Key : res' = [res EXCEPT !.accept = <<"hash", k>>]
     \/ res' = [res EXCEPT !.extension = "garbage"]
  /\ UNCHANGED <<ask, req, srv, cli>>

-----------------------------------------------------------------------------
(* The client reads the answer.                                             *)

validate_server_handshake_response(r) ==
  r.status = 101 /\ r.upgrade /\ r.accept = <<"hash", ask.key>>

\* negotiate_extensions() fails on a list it cannot parse, and when zlib
\* fails.  The connection is then terminated, but there is no return: it is
\* opened and its open handler is called.
handle_read_http_response ==
  /\ res # Nothing /\ cli = "waits"
  /\ \/ ~validate_server_handshake_response(res) /\ cli' = "failed"
     \/ validate_server_handshake_response(res) /\ res.extension # "garbage" /\ cli' = "open"
     \/ validate_server_handshake_response(res) /\ res.extension # "none" /\ cli' = "reopened"
  /\ UNCHANGED <<ask, req, srv, res>>

HandshakeInit ==
  /\ \E key \in Key, deflate \in BOOLEAN, subprotocols \in {<< >>, <<"chat">>, <<"edit", "chat">>} :
       ask = [key |-> key, deflate |-> deflate, subprotocols |-> subprotocols]
  /\ \E http, agrees \in BOOLEAN, selects \in {"none", "chat", "edit"} :
       srv = NewServer(http, selects, agrees)
  /\ req = Nothing /\ res = Nothing /\ cli = "waits"

HandshakeNext ==
  \/ send_http_request \/ foreign_request \/ process_handshake_request
  \/ stale_answer \/ handle_read_http_response

-----------------------------------------------------------------------------

Own == req # Nothing /\ req = client_handshake_request

(* A client opens only when the server read its request, upgraded the       *)
(* connection and answered this very key; the server then runs version 13,  *)
(* has agreed, compresses only if the client offered it, and uses a         *)
(* subprotocol the client asked for or none.  (The client never learns      *)
(* which: it does not read that header.)  A client that has terminated the  *)
(* connection for its extensions and opens it again was sent extensions.    *)
EndsAgree ==
  /\ cli = "reopened" => res.extension # "none"
  /\ cli \in {"open", "reopened"} /\ Own =>
       /\ srv.state = "open" /\ srv.agrees /\ srv.processor = 13
       /\ srv.extension => ask.deflate
       /\ srv.subprotocol # "none" => Contains(ask.subprotocols, srv.subprotocol)
       /\ res.accept = <<"hash", ask.key>>

(* The server's end is open exactly when its answer was an upgrade, and     *)
(* then the request was one for a websocket of a version it speaks, with    *)
(* all that version needs.  A client whose request it upgraded is refused   *)
(* only when the answer was not to its key.                                 *)
UpgradesOnlyRequests ==
  /\ srv.state = "open" <=> res # Nothing /\ res.status = 101
  /\ srv.state = "open" =>
       /\ is_websocket_handshake(req) /\ req.get /\ req.http11 /\ req.host
       /\ req.version \in versions_supported
       /\ req.version = 0 => req.key12 /\ req.behind >= 8
       /\ req.version # 0 => req.key # "none"
  /\ cli = "failed" /\ Own /\ srv.state = "open" => res.accept # <<"hash", ask.key>>
=============================================================================
