----------------------------- MODULE MCTransport -----------------------------
(***************************************************************************)
(* websocketpp's transports, which share no state.  `scenario' chooses at  *)
(* the start what moves: one connection over the asio transport, with      *)
(* every mix of TLS and proxy, two plain ones that share the resolver, the *)
(* accept loop of a server, or a connection over iostreams.                *)
(***************************************************************************)
EXTENDS AsioConnection, AsioEndpoint, IostreamConnection

VARIABLE scenario

transportVars == <<scenario, tc, epVars, ioVars>>

MCInit ==
  /\ scenario \in {"connection", "resolver", "accept loop", "iostream"}
  /\ AsioInit /\ EpInit /\ IoInit
  /\ \A c \in Conn : tc[c].secure \/ tc[c].proxy => scenario = "connection" /\ c = "a"

\* What follows a tie of an operation and its timer is not explored, nor what
\* is left of the two rounds of init() once the shutdown has been reported.
NoTie == \A c \in Conn : ~tc[c].exact
StillOpen == \A c \in Conn : tc[c].badSni => Tellings(c, "shutdown") = << >>

\* On a connection with two rounds timers run out one by one, when no handler
\* of an operation is queued.
OneByOne ==
  \A c \in Conn : tc[c].badSni =>
    /\ Cardinality({t \in Timer : tc'[c].timer[t].clock = "due"}) <= 1
    /\ \A t \in Timer, s \in Stage :
         tc'[c].timer[t].clock \in {"due", "past"} /\ Ready(tc[c], s) =>
           tc'[c].timer[t].clock = tc[c].timer[t].clock

ConnectionStep ==
  /\ scenario \in {"connection", "resolver"} /\ NoTie /\ StillOpen /\ AsioNext /\ OneByOne
  /\ scenario = "connection" => ~tc'["b"].started
  /\ UNCHANGED <<epVars, ioVars>>

MCNext ==
  /\ \/ ConnectionStep
     \/ scenario = "accept loop" /\ EpNext /\ UNCHANGED <<tc, ioVars>>
     \/ scenario = "iostream" /\ IoNext /\ UNCHANGED <<tc, epVars>>
  /\ UNCHANGED scenario

MCSpec == MCInit /\ [][MCNext]_transportVars /\ AsioFairness /\ EpFairness

(* Every connect() and every client that arrives gets an answer.            *)
TransportProgress == Answered /\ ClientsAreTaken
=============================================================================
