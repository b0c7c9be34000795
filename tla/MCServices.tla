------------------------------ MODULE MCServices ------------------------------
(***************************************************************************)
(* The services around the editor: logger, file system model, settings,    *)
(* message formats and the websocket server.  They share no state, so one  *)
(* run checks them side by side: `part' chooses at the start which moves.  *)
(***************************************************************************)
EXTENDS Logger, FileSystem, EditingServer, Config, Protocol

VARIABLE part

servicesVars == <<part, loggerVars, fsVars, editingVars, configVars, protocolVars>>

NoteValues ==
  UNION {[1..n -> {" ", "\"", "x"}] : n \in 0..2}
  \cup {<<"'", "x", "'">>, <<"'">>, <<"\"", "x", "\"">>, <<"\"", " ", "x">>}
  \cup {<<"x", "\r">>, <<"\r", "x">>, <<"\n">>, <<"x", "\n", "#", "x">>, <<"x", "\n", "x", "=", "x">>,
        <<"x", "\n", PORT_KEY, " ", "=", "1">>}
PortValues == {<<"2147483648">>, <<"1", "\r">>, <<"70000">>, <<" ", "1">>, <<"x">>, <<"-", "1">>, <<"\"", "1", "\"">>, << >>}

Ping == [class |-> "Message", type |-> 902, members |-> Message.always]

MCInit ==
  /\ part \in {"logger", "files", "editing", "config", "protocol"}
  /\ LoggerInit /\ FileSystemInit /\ EditingInit /\ ConfigInit /\ ProtocolInit
  /\ part # "protocol" => message = Ping

MCNext ==
  /\ \/ part = "logger" /\ LoggerNext /\ UNCHANGED <<fsVars, editingVars, configVars, protocolVars>>
     \/ part = "files" /\ FileSystemNext
        /\ UNCHANGED <<loggerVars, editingVars, configVars, protocolVars>>
     \/ part = "editing" /\ EditingNext
        /\ UNCHANGED <<loggerVars, fsVars, configVars, protocolVars>>
     \/ part = "config" /\ ConfigNext
        /\ UNCHANGED <<loggerVars, fsVars, editingVars, protocolVars>>
     \/ part = "protocol" /\ Receive
        /\ UNCHANGED <<loggerVars, fsVars, editingVars, configVars>>
  /\ UNCHANGED part

MCSpec == MCInit /\ [][MCNext]_servicesVars /\ LoggerFairness

(* A file of settings and a message mean to the reader what the writer put  *)
(* there, but for the losses named in the parts.                            *)
RoundTrips ==
  SettingsSurvive /\ TypedSettingsKept /\ MessagesRoundTrip /\ ThrowsOnlyForPlainMessages
=============================================================================
