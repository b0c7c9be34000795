-------------------------------- MODULE Config --------------------------------
(***************************************************************************)
(* util::ConfigLoader (include/common/util/config_loader.cpp): settings    *)
(* that are set, saved to a file, lost with the process and loaded again.  *)
(*                                                                         *)
(* A text is the sequence of its tokens: white space, a quote, "-", "=",   *)
(* "#", a number or a word.  saveToFile() truncates the file and writes it *)
(* when the stream is closed, so a crash in between leaves an empty one.   *)
(* Nothing is escaped: a value with a line break continues on a line of    *)
(* its own, which the next load reads as a setting, a comment or nothing.  *)
(***************************************************************************)
EXTENDS Integers, Sequences, SequencesExt, FiniteSets, TLC

CONSTANTS
  NoteValue,   \* values given to other keys
  PortValue,   \* values written to SERVER_PORT by hand
  MaxSets      \* bound: settings set

PORT_KEY == "SERVER_PORT"
EDITOR_MODE_KEY == "EDITOR_MODE"
AUTOSAVE_INTERVAL_KEY == "AUTOSAVE_INTERVAL_SECONDS"
OtherKey == {"NOTE", "no-key"}
\* The numbers used that an int holds, and how std::to_string() writes them.
Number == "0" :> 0 @@ "8080" :> 8080 @@ "65535" :> 65535 @@ "70000" :> 70000 @@ "30" :> 30
          @@ "1" :> 1 @@ "2147483647" :> 2147483647
\* Lengths of an autosave interval, a 64-bit number of seconds, as written:
\* the last one is larger than INT_MAX.
Interval == {<<"-", "1">>, <<"0">>, <<"2147483647">>, <<"2147483648">>}
ToText(n) == IF n < 0 THEN <<"-", ToString(-n)>> ELSE <<ToString(n)>>

DEFAULT_PORT == 8080
DEFAULT_EDITOR_MODE == "TEXT"
DEFAULT_AUTOSAVE_INTERVAL == 30

NoSettings == [k \in {} |-> << >>]

VARIABLES
  configValues,  \* configValues_
  configFile,    \* text of the file; empty also when there is none
  saving,        \* saveToFile() has truncated the file
  asked,         \* what the typed settings should be, or "any": history
  saved,         \* configValues and asked at the last save: history
  stage,         \* "used", "fresh" after a restart, "restored" after the load: history
  sets           \* number of settings set

configVars == <<configValues, configFile, saving, asked, saved, stage, sets>>

-----------------------------------------------------------------------------
(* trim(), the quotes, and the conversions of the typed settings.           *)

Space(t) == t \in {" ", "\r"}
trim(v) ==
  LET words == {i \in 1..Len(v) : ~Space(v[i])}
      first == CHOOSE i \in words : \A j \in words : i <= j
      last == CHOOSE i \in words : \A j \in words : i >= j
  IN IF words = {} THEN << >> ELSE SubSeq(v, first, last)

\* A lone quote is its own partner: substr() gives the empty string.
Unquote(v) ==
  IF v # << >> /\ Head(v) \in {"\"", "'"} /\ Last(v) = Head(v)
  THEN SubSeq(v, 2, Len(v) - 1) ELSE v

\* std::stoi(): spaces, a sign and digits, whatever follows; it throws for
\* anything else and for a number that is no int.
Throws == "throws"
stoi(v) ==
  LET w == trim(v)
      digits == IF w # << >> /\ Head(w) = "-" THEN Tail(w) ELSE w
  IN IF digits = << >> \/ Head(digits) \notin DOMAIN Number THEN <<Throws, 0>>
     ELSE <<"int", IF Head(w) = "-" THEN -Number[Head(digits)] ELSE Number[Head(digits)]>>

getServerPort(c) ==
  IF PORT_KEY \notin DOMAIN c \/ stoi(c[PORT_KEY])[1] = Throws THEN DEFAULT_PORT
  ELSE stoi(c[PORT_KEY])[2] % 2^16

editorModeFromString(v) ==
  IF v \in {<<"CODE">>, <<"MARKDOWN">>, <<"RICH_TEXT">>} THEN v[1] ELSE "TEXT"
editorModeToString(m) == <<m>>
EditorMode == {"TEXT", "CODE", "MARKDOWN", "RICH_TEXT"}

getEditorMode(c) ==
  IF EDITOR_MODE_KEY \notin DOMAIN c THEN DEFAULT_EDITOR_MODE
  ELSE editorModeFromString(c[EDITOR_MODE_KEY])

getAutosaveInterval(c) ==
  IF AUTOSAVE_INTERVAL_KEY \notin DOMAIN c \/ stoi(c[AUTOSAVE_INTERVAL_KEY])[1] = Throws
  THEN DEFAULT_AUTOSAVE_INTERVAL ELSE stoi(c[AUTOSAVE_INTERVAL_KEY])[2]

\* std::getline(): the pieces between the line breaks; an empty one at the
\* end is no line.
Lines(text) ==
  LET Grow(pieces, t) ==
        IF t = "\n" THEN Append(pieces, << >>) ELSE [pieces EXCEPT ![Len(pieces)] = Append(@, t)]
      pieces == FoldLeft(Grow, << << >> >>, text)
  IN IF Last(pieces) = << >> THEN Front(pieces) ELSE pieces

\* The words that are names to the pattern of parseLine().
MatchesPattern(key) == key \in {PORT_KEY, EDITOR_MODE_KEY, AUTOSAVE_INTERVAL_KEY, "NOTE", "x"}

\* The white space at the front, which \s* takes.
SkipSpace(v) ==
  LET rest == {i \in 1..Len(v) : \A j \in 1..i : Space(v[j])}
  IN SubSeq(v, Cardinality(rest) + 1, Len(v))

\* parseLine(): the pattern wants a name, "=" and no carriage return behind
\* the white space that follows.  front() of an empty value is no quote in
\* the build's library.
parseLine(line) ==
  LET named == SkipSpace(line)
      equals == SkipSpace(SubSeq(named, 2, Len(named)))
      value == SkipSpace(SubSeq(equals, 2, Len(equals)))
  IN IF named # << >> /\ MatchesPattern(Head(named)) /\ equals # << >> /\ Head(equals) = "="
        /\ "\r" \notin ToSet(value)
     THEN Head(named) :> Unquote(trim(value)) ELSE NoSettings

\* What the lines set: comments are skipped, later lines win.
Settings(lines) ==
  FoldLeft(LAMBDA c, line : IF line = << >> \/ Head(line) = "#" THEN c ELSE parseLine(line) @@ c,
           NoSettings, lines)

\* The text saveToFile() writes, its settings in the order of keys.
FileText(c, keys) ==
  FoldLeft(LAMBDA t, k : t \o <<k, "=">> \o c[k] \o <<"\n">>,
           <<"#", "\n", "#", "\n", "\n">>, keys)

-----------------------------------------------------------------------------
Defaults ==
  PORT_KEY :> ToText(DEFAULT_PORT)
  @@ EDITOR_MODE_KEY :> editorModeToString(DEFAULT_EDITOR_MODE)
  @@ AUTOSAVE_INTERVAL_KEY :> ToText(DEFAULT_AUTOSAVE_INTERVAL)
DefaultAsked ==
  [port |-> DEFAULT_PORT, mode |-> DEFAULT_EDITOR_MODE, interval |-> ToText(DEFAULT_AUTOSAVE_INTERVAL)]

ConfigInit ==
  /\ configValues = Defaults /\ configFile = << >> /\ saving = FALSE
  /\ asked = DefaultAsked /\ saved = [values |-> NoSettings, asked |-> DefaultAsked]
  /\ stage = "used" /\ sets = 0

setValue(key, v, a) ==
  /\ ~saving /\ sets < MaxSets /\ sets' = sets + 1
  /\ configValues' = (key :> v) @@ configValues
  /\ asked' = a /\ stage' = "used"
  /\ UNCHANGED <<configFile, saving, saved>>

AnyPort == -1
setServerPort(p) == setValue(PORT_KEY, ToText(p), [asked EXCEPT !.port = p])
setEditorMode(m) == setValue(EDITOR_MODE_KEY, editorModeToString(m), [asked EXCEPT !.mode = m])
setAutosaveInterval(n) ==
  setValue(AUTOSAVE_INTERVAL_KEY, n, [asked EXCEPT !.interval = n])

\* saveToFile(), the stream opened and then closed.
Truncate ==
  /\ ~saving /\ saving' = TRUE /\ configFile' = << >>
  /\ saved' = [values |-> NoSettings, asked |-> DefaultAsked] /\ stage' = "used"
  /\ UNCHANGED <<configValues, asked, sets>>

\* configValues_ is unordered.  The order is seen only when a value has a line
\* break, by what is read after it: any key may be the last.
Orders(c) ==
  LET Before(k) == SetToSeq(DOMAIN c \ {k}) \o <<k>>
  IN IF \E k \in DOMAIN c : "\n" \in ToSet(c[k]) THEN {Before(k) : k \in DOMAIN c}
     ELSE {SetToSeq(DOMAIN c)}

saveToFile ==
  /\ saving /\ saving' = FALSE
  /\ \E keys \in Orders(configValues) : configFile' = FileText(configValues, keys)
  /\ saved' = [values |-> configValues, asked |-> asked]
  /\ UNCHANGED <<configValues, asked, stage, sets>>

\* The process ends, also in the middle of a save, and a new one begins with
\* ConfigLoader().
Restart ==
  /\ configValues' = Defaults /\ saving' = FALSE /\ asked' = DefaultAsked /\ stage' = "fresh"
  /\ UNCHANGED <<configFile, saved, sets>>

\* The settings that the continuation of some value makes.
Strays(c) ==
  UNION {DOMAIN Settings(Tail(Lines(<<k, "=">> \o c[k]))) : k \in DOMAIN c}

\* What the typed settings should be after a load.
AskedByFile ==
  IF saved.values = NoSettings THEN asked
  ELSE IF PORT_KEY \in Strays(saved.values) THEN [saved.asked EXCEPT !.port = AnyPort]
  ELSE saved.asked

\* Mutant of loadFromFile: what is set wins over the file.
loadFromFile_Keeps ==
  /\ ~saving /\ stage' = IF stage = "fresh" THEN "restored" ELSE "used"
  /\ configValues' = configValues @@ Settings(Lines(configFile))
  /\ asked' = AskedByFile
  /\ UNCHANGED <<configFile, saving, saved, sets>>

\* loadFromFile(): what the file says wins over what is set.
loadFromFile ==
  /\ ~saving /\ stage' = IF stage = "fresh" THEN "restored" ELSE "used"
  /\ configValues' = Settings(Lines(configFile)) @@ configValues
  /\ asked' = AskedByFile
  /\ UNCHANGED <<configFile, saving, saved, sets>>

ConfigNext ==
  \/ \E k \in OtherKey, v \in NoteValue : setValue(k, v, asked)
  \/ \E v \in PortValue : setValue(PORT_KEY, v, [asked EXCEPT !.port = AnyPort])
  \/ \E p \in {0, 65535} : setServerPort(p)
  \/ \E m \in EditorMode : setEditorMode(m)
  \/ \E n \in Interval : setAutosaveInterval(n)
  \/ Truncate \/ saveToFile \/ Restart \/ loadFromFile

-----------------------------------------------------------------------------
\* The values the file keeps: no white space or pair of quotes around them
\* and no line break or carriage return in them.
Tidy(v) ==
  /\ {"\n", "\r"} \cap ToSet(v) = {}
  /\ v # << >> => ~(Space(Head(v)) \/ Space(Last(v)) \/ (Head(v) = Last(v) /\ Head(v) \in {"\"", "'"}))

(* What was saved last is what a new process finds: every setting with a    *)
(* key the pattern knows and a value the file keeps has that value again,   *)
(* unless a line break in another value set it.  No other setting appears.  *)
(* After a save that was cut off the settings are the defaults.             *)
SettingsSurvive ==
  stage = "restored" =>
    /\ \A k \in DOMAIN saved.values \ Strays(saved.values) :
         MatchesPattern(k) /\ Tidy(saved.values[k]) => configValues[k] = saved.values[k]
    /\ DOMAIN configValues \subseteq
         DOMAIN saved.values \cup DOMAIN Defaults \cup Strays(saved.values)
    /\ saved.values = NoSettings => configValues = Defaults

\* std::stoi() reads the number back.
FitsInt(n) == stoi(n)[1] # Throws

(* The typed settings are what the typed setters were given, also after a   *)
(* save, a crash and a load, with 65535, a negative interval and INT_MAX.   *)
(* An interval beyond an int is written and not read.  A port written by    *)
(* hand, or by a line break in a note, is some port.                        *)
TypedSettingsKept ==
  /\ asked.port # AnyPort => getServerPort(configValues) = asked.port
  /\ asked.port = AnyPort => getServerPort(configValues) \in 0..65535
  /\ getEditorMode(configValues) = asked.mode
  /\ FitsInt(asked.interval) => ToText(getAutosaveInterval(configValues)) = asked.interval
=============================================================================
