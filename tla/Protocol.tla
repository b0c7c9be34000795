------------------------------- MODULE Protocol -------------------------------
(***************************************************************************)
(* protocol::Message and its families (include/common/protocol/protocol.h):*)
(* a message is written as a JSON object and read back.  JSON is external: *)
(* an object is a function from its keys.  Every member holds its own name *)
(* as its value, so that members that change places are seen.              *)
(***************************************************************************)
EXTENDS Integers, FiniteSets

\* enum class MessageType, by family.
AuthType == 100..104
DocumentType == 200..207
EditType == 300..304
SyncType == 400..403
PresenceType == 500..504
SystemType == 900..903
MessageType ==
  AuthType \cup DocumentType \cup EditType \cup SyncType \cup PresenceType \cup SystemType

\* The classes, the types their constructors let through, the members that
\* are always written and those that are written when they have a value.
Base == {"clientId", "sessionId", "sequenceNumber", "timestamp"}
Class == {"Message", "AuthMessage", "DocumentMessage", "EditMessage", "SyncMessage",
          "PresenceMessage"}
TypesOf(class) ==
  CASE class = "Message" -> MessageType
    [] class = "AuthMessage" -> AuthType
    [] class = "DocumentMessage" -> DocumentType
    [] class = "EditMessage" -> EditType
    [] class = "SyncMessage" -> SyncType
    [] class = "PresenceMessage" -> PresenceType

Message == [always |-> Base, maybe |-> {}]
AuthMessage ==
  [always |-> Base \cup {"username", "metadata"}, maybe |-> {"password", "token", "errorMessage"}]
DocumentMessage ==
  [always |-> Base \cup {"documentId", "documentList", "metadata"},
   maybe |-> {"documentName", "documentContent", "documentPath", "documentVersion", "success",
              "errorMessage"}]
EditMessage ==
  [always |-> Base \cup {"documentId", "documentVersion", "operationId"},
   maybe |-> {"position", "length", "text", "success", "errorMessage"}]
SyncMessage ==
  [always |-> Base \cup {"documentId", "operations"},
   maybe |-> {"fromVersion", "toVersion", "documentState", "success", "errorMessage"}]
PresenceMessage ==
  [always |-> Base \cup {"documentId", "username", "metadata"},
   maybe |-> {"displayName", "cursorPosition", "selectionStart", "selectionEnd", "userColor"}]

MembersOf(class) ==
  CASE class = "Message" -> Message
    [] class = "AuthMessage" -> AuthMessage
    [] class = "DocumentMessage" -> DocumentMessage
    [] class = "EditMessage" -> EditMessage
    [] class = "SyncMessage" -> SyncMessage
    [] class = "PresenceMessage" -> PresenceMessage

VARIABLES
  message,    \* the message of the sender
  received    \* what fromString() gives the receiver, or NotRead

protocolVars == <<message, received>>

NotRead == [class |-> "not read"]
Threw == [class |-> "threw"]

\* The messages a program can build.
Messages ==
  UNION {[class : {c}, type : TypesOf(c),
          members : {MembersOf(c).always \cup m : m \in SUBSET MembersOf(c).maybe}] : c \in Class}

toString(m) == [type |-> m.type, keys |-> m.members]

\* The branch of fromString() for a type, what it reads without asking and
\* what it reads if the object has it.
ClassOf(type) ==
  IF \E c \in Class \ {"Message"} : type \in TypesOf(c)
  THEN CHOOSE c \in Class \ {"Message"} : type \in TypesOf(c) ELSE "Message"

Needs(class) == MembersOf(class).always \ {"metadata", "documentList", "operations"}
Reads(class) == MembersOf(class).always \cup MembersOf(class).maybe

\* fromString(): a member that is read and missing is null, and converting it
\* throws.
fromString(j) ==
  LET class == ClassOf(j.type)
  IN IF ~(Needs(class) \subseteq j.keys) THEN Threw
     ELSE [class |-> class, type |-> j.type, members |-> Reads(class) \cap j.keys]

ProtocolInit == message \in Messages /\ received = NotRead

Receive ==
  /\ received = NotRead /\ received' = fromString(toString(message))
  /\ UNCHANGED message

-----------------------------------------------------------------------------
(* What is sent is what arrives: class, type and every member with a value, *)
(* for every type and every choice of optional members.                     *)
MessagesRoundTrip ==
  received \notin {NotRead, Threw} => received = message

(* fromString() throws only for a plain Message with a type of a family,    *)
(* which every constructor lets through and no receiver can read.           *)
ThrowsOnlyForPlainMessages ==
  received = Threw <=>
    received # NotRead /\ message.class = "Message" /\ message.type \notin SystemType
=============================================================================
