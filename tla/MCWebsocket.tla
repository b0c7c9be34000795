------------------------------ MODULE MCWebsocket ------------------------------
(***************************************************************************)
(* Two websocketpp connections.  `scenario' chooses at the start how the   *)
(* bounds are spent: on the opening handshake and its failures, on a plain *)
(* http request, on messages, pings and pauses, on closing from both ends, *)
(* or on closing with a fault or with timers that run out.                 *)
(***************************************************************************)
EXTENDS WsConnection

VARIABLE scenario

websocketVars == <<scenario, wsVars>>

MCInit == scenario \in {"opening", "http", "talking", "closing", "failing"} /\ WsInit

Connected == \A e \in End : conn[e].state # "connecting"
NoTimeout == \A e \in End : conn'[e].late = {}
NoPause == \A e \in End : conn'[e].readFlag /\ ~conn'[e].doubled
Uses(e, calls) == conn'[e].app \in calls \cup {"idle", "done"}

WithinBounds ==
  CASE scenario = "opening" ->
         (\A e \in End : Uses(e, {})) /\ NoPause /\ ~\E e \in End : BadPeer(e)
    [] scenario = "http" -> conn'["client"].istate = "USER_INIT"
    [] scenario = "talking" ->
         /\ faults' = 0 /\ NoTimeout /\ conn'["server"].readFlag /\ ~conn'["client"].doubled
         /\ Uses("client", IF Connected THEN {"send"} ELSE {})
         /\ Uses("server", IF Connected THEN {"ping", "close"} ELSE {})
    [] scenario = "closing" ->
         /\ faults' = 0 /\ NoTimeout /\ NoPause
         /\ Uses("client", IF Connected THEN {"send", "close"} ELSE {})
         /\ Uses("server", IF Connected THEN {"close"} ELSE {})
    [] scenario = "failing" ->
         /\ NoTimeout \/ (Connected /\ faults' = 0)
         /\ faults' = 0 \/ (Connected /\ NoTimeout)
         /\ NoPause
         /\ \E e \in End : /\ Uses(e, IF Connected THEN {"close"} ELSE {})
                           /\ Uses(Other(e), {}) /\ conn'[Other(e)].app # "done"

MCNext == WsNext /\ UNCHANGED scenario /\ WithinBounds

MCSpec == MCInit /\ [][MCNext]_websocketVars /\ WsFairness
=============================================================================
