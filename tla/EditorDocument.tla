--------------------------- MODULE EditorDocument ---------------------------
(***************************************************************************)
(* document::Document of the client (include/client/editor/document.h):    *)
(* lines of text, the history with its undo and redo, cursors, selections  *)
(* and change listeners.                                                   *)
(*                                                                         *)
(* Every public method locks mutex_, which is not recursive, and several   *)
(* call other public methods with it held.  Where the program runs with    *)
(* threads such a call never returns and the mutex stays locked (`stuck'); *)
(* where the locks of the standard library are inactive, as in a program   *)
(* without threads on older C libraries, it goes on.  `locks' chooses.     *)
(*                                                                         *)
(* Lines and columns are counted from 0, as in the code.                   *)
(***************************************************************************)
EXTENDS Naturals, Sequences, SequencesExt, FiniteSetsExt, Functions

CONSTANTS
  Chars,        \* characters other than the newline
  NL,           \* '\n'
  Users,        \* user ids
  Texts,        \* texts given to insertText, replaceText and setText
  MaxHistory,   \* MAX_HISTORY_SIZE
  MaxLength,    \* bound: characters in the document
  MaxEdits,     \* bound: calls that change the document
  MaxClock      \* bound: milliseconds that pass

ASSUME EditorAssumption == MaxHistory \in Nat \ {0}

VARIABLES
  doc,          \* the document: see NewDocument
  cursors,      \* userCursors_
  selections,   \* userSelections_
  locks,        \* whether locking mutex_ twice blocks
  stuck,        \* a thread waits for mutex_, which it holds itself
  broken,       \* pop_back() of an empty deque
  undone,       \* an undo() got past the lock: history
  clock,        \* system_clock::now(), in milliseconds
  edits         \* number of calls that changed the document

editorVars == <<doc, cursors, selections, locks, stuck, broken, undone, clock, edits>>

NewDocument ==
  [lines    |-> << << >> >>,    \* lines_
   history  |-> << >>,          \* operationHistory_
   redo     |-> << >>,          \* redoStack_
   deleted  |-> << >>,          \* deletedTexts_, a function from timestamps to texts
   version  |-> 0,              \* version_
   notified |-> << >>]          \* what the last call told the change listeners

-----------------------------------------------------------------------------
(* Positions and texts.                                                     *)

CursorPosition(l, c) == [line |-> l, column |-> c]

getText(lines) == FoldLeft(LAMBDA t, l : t \o <<NL>> \o l, Head(lines), Tail(lines))

\* The pieces between the newlines.
Split(text) ==
  LET breaks == SetToSortSeq({i \in 1..Len(text) : text[i] = NL}, <)
      ends   == <<0>> \o breaks \o <<Len(text) + 1>>
  IN [k \in 1..(Len(breaks) + 1) |-> SubSeq(text, ends[k] + 1, ends[k + 1] - 1)]

isValidPosition(lines, p) ==
  p.line < Len(lines) /\ p.column <= Len(lines[p.line + 1])

ValidPositions(lines) ==
  UNION {{CursorPosition(l, c) : c \in 0..Len(lines[l + 1])} : l \in 0..(Len(lines) - 1)}

\* Characters before line l, newlines included.
LineStart(lines, l) == FoldLeft(LAMBDA n, s : n + Len(s) + 1, 0, SubSeq(lines, 1, l))

getTextLength(lines) == LineStart(lines, Len(lines)) - 1

linearToCursor(lines, n) ==
  LET hits == {l \in 0..(Len(lines) - 1) : LineStart(lines, l) + Len(lines[l + 1]) >= n}
  IN IF hits = {} THEN CursorPosition(Len(lines) - 1, Len(Last(lines)))
     ELSE CursorPosition(Min(hits), n - LineStart(lines, Min(hits)))

cursorToLinear(lines, p) ==
  IF p.line >= Len(lines) THEN getTextLength(lines)
  ELSE LineStart(lines, p.line) + Min({p.column, Len(lines[p.line + 1])})

getTextRange(lines, p, n) ==
  LET from == cursorToLinear(lines, p)
      text == getText(lines)
  IN SubSeq(text, from + 1, Min({from + n, Len(text)}))

-----------------------------------------------------------------------------
(* Operations and the history.                                              *)

\* `removed', the text the call took out of the document, is history.
DocumentOperation(type, p, text, n, removed) ==
  [type |-> type, position |-> p, text |-> text, length |-> n, timestamp |-> clock,
   removed |-> removed]

createInverse(op, deletedText) ==
  CASE op.type = "INSERT"  -> [op EXCEPT !.type = "DELETE", !.text = << >>, !.length = Len(op.text)]
    [] op.type = "DELETE"  -> [op EXCEPT !.type = "INSERT", !.text = deletedText, !.length = 0]
    [] op.type = "REPLACE" -> [op EXCEPT !.text = deletedText, !.length = Len(op.text)]

recordOperation(d, op) ==
  [d EXCEPT !.history = IF Len(@) < MaxHistory THEN Append(@, op) ELSE Append(Tail(@), op),
            !.redo = << >>]

\* deletedTexts_[timestamp] = text; a second entry of the same millisecond
\* replaces the first.
Remember(d, text) ==
  [d EXCEPT !.deleted = [t \in DOMAIN @ \cup {clock} |-> IF t = clock THEN text ELSE @[t]]]

\* Mutant of Finish: the listeners are not told.
Finish_Silent(d, op) == [recordOperation(d, op) EXCEPT !.version = @ + 1]

\* What every edit ends with: recordOperation(), version_++, and the
\* listeners.
Finish(d, op) ==
  [recordOperation(d, op) EXCEPT !.version = @ + 1, !.notified = Append(@, op)]

-----------------------------------------------------------------------------
(* The edits, as functions of the document.                                 *)

insertMultilineText(d, p, text) ==
  LET new    == Split(text)
      line   == d.lines[p.line + 1]
      before == SubSeq(line, 1, p.column)
      after  == SubSeq(line, p.column + 1, Len(line))
  IN Finish([d EXCEPT !.lines =
               SubSeq(@, 1, p.line) \o <<before \o Head(new)>>
               \o SubSeq(new, 2, Len(new) - 1) \o <<Last(new) \o after>>
               \o SubSeq(@, p.line + 2, Len(@))],
            DocumentOperation("INSERT", p, text, 0, << >>))

\* line.replace(column, n, text)
ReplaceInLine(lines, p, n, text) ==
  [lines EXCEPT ![p.line + 1] =
     SubSeq(@, 1, p.column) \o text \o SubSeq(@, p.column + n + 1, Len(@))]

insertText(d, p, text) ==
  IF ~isValidPosition(d.lines, p) THEN d
  ELSE IF NL \in ToSet(text) THEN insertMultilineText(d, p, text)
  ELSE Finish([d EXCEPT !.lines = ReplaceInLine(@, p, 0, text)],
              DocumentOperation("INSERT", p, text, 0, << >>))

deleteMultilineText(d, p, n) ==
  LET end  == linearToCursor(d.lines, cursorToLinear(d.lines, p) + n)
      kept == SubSeq(d.lines[end.line + 1], end.column + 1, Len(d.lines[end.line + 1]))
      head == SubSeq(d.lines[p.line + 1], 1, p.column)
      gone == getTextRange(d.lines, p, n)
  IN Finish(Remember([d EXCEPT !.lines = SubSeq(@, 1, p.line) \o <<head \o kept>> \o
                                         SubSeq(@, end.line + 2, Len(@))], gone),
            DocumentOperation("DELETE", p, << >>, n, gone))

FitsLine(d, p, n) == p.column + n <= Len(d.lines[p.line + 1])

\* line.substr(column, n)
LinePart(d, p, n) == SubSeq(d.lines[p.line + 1], p.column + 1, p.column + n)

\* Mutant of deleteText: the removed text is not kept for undo().
deleteText_Forgets(d, p, n) ==
  IF ~isValidPosition(d.lines, p) THEN d
  ELSE IF ~FitsLine(d, p, n) THEN deleteMultilineText(d, p, n)
  ELSE Finish([d EXCEPT !.lines = ReplaceInLine(@, p, n, << >>)],
              DocumentOperation("DELETE", p, << >>, n, LinePart(d, p, n)))

deleteText(d, p, n) ==
  IF ~isValidPosition(d.lines, p) THEN d
  ELSE IF ~FitsLine(d, p, n) THEN deleteMultilineText(d, p, n)
  ELSE Finish(Remember([d EXCEPT !.lines = ReplaceInLine(@, p, n, << >>)],
                       LinePart(d, p, n)),
              DocumentOperation("DELETE", p, << >>, n, LinePart(d, p, n)))

replaceText(d, p, n, text) ==
  IF ~isValidPosition(d.lines, p) THEN d
  ELSE IF ~FitsLine(d, p, n) \/ NL \in ToSet(text)
       THEN insertText(deleteText(d, p, n), p, text)
  ELSE Finish(Remember([d EXCEPT !.lines = ReplaceInLine(@, p, n, text)],
                       LinePart(d, p, n)),
              DocumentOperation("REPLACE", p, text, n, LinePart(d, p, n)))

\* setText(): a text that ends with a newline gets one line too many, and
\* the listeners are not told.
setText(d, text) ==
  [recordOperation([d EXCEPT !.lines = Split(text) \o
                      (IF text # << >> /\ Last(text) = NL THEN << << >> >> ELSE << >>)],
                   DocumentOperation("REPLACE", CursorPosition(0, 0), text, 0, getText(d.lines)))
     EXCEPT !.version = @ + 1]

\* The call that undo() and redo() make.
Perform(d, op) ==
  CASE op.type = "INSERT"  -> insertText(d, op.position, op.text)
    [] op.type = "DELETE"  -> deleteText(d, op.position, op.length)
    [] op.type = "REPLACE" -> replaceText(d, op.position, op.length, op.text)

\* undo() where it gets past the lock.  The call it makes records itself, so
\* pop_back() removes that record and the undone operation stays.
Undone(d) ==
  LET last == Last(d.history)
      text == IF last.timestamp \in DOMAIN d.deleted THEN d.deleted[last.timestamp] ELSE << >>
      done == Perform(d, createInverse(last, text))
  IN IF ~isValidPosition(d.lines, last.position) THEN d
     ELSE [done EXCEPT !.history = Front(@),
                       !.deleted = [t \in DOMAIN @ \ {last.timestamp} |-> @[t]],
                       !.redo = Append(@, last), !.version = @ + 1]

-----------------------------------------------------------------------------
(* The calls.                                                               *)

EditorInit ==
  /\ doc = NewDocument
  /\ cursors = [u \in {} |-> CursorPosition(0, 0)] /\ selections = << >>
  /\ locks \in BOOLEAN /\ stuck = FALSE /\ broken = FALSE /\ undone = FALSE
  /\ clock = 0 /\ edits = 0

Callable == ~stuck /\ ~broken
MayEdit == Callable /\ edits < MaxEdits
Fresh == [doc EXCEPT !.notified = << >>]

\* The call returns with document d, or blocks on mutex_.
Leaves(d, u) ==
  /\ Len(getText(d.lines)) <= MaxLength
  /\ doc' = d /\ undone' = u /\ edits' = edits + 1
  /\ UNCHANGED <<cursors, selections, locks, stuck, broken, clock>>
Returns(d) == Leaves(d, undone)
Blocks ==
  /\ stuck' = TRUE
  /\ UNCHANGED <<doc, cursors, selections, locks, broken, undone, clock, edits>>

InsertText ==
  /\ MayEdit
  /\ \E p \in ValidPositions(doc.lines) \cup Range(cursors), t \in Texts :
       Returns(insertText(Fresh, p, t))

DeleteText ==
  /\ MayEdit
  /\ \E p \in ValidPositions(doc.lines), n \in 1..3 :
       IF locks /\ ~FitsLine(doc, p, n) THEN Blocks ELSE Returns(deleteText(Fresh, p, n))

ReplaceText ==
  /\ MayEdit
  /\ \E p \in ValidPositions(doc.lines), n \in 1..2, t \in Texts :
       IF locks /\ (~FitsLine(doc, p, n) \/ NL \in ToSet(t))
       THEN Blocks ELSE Returns(replaceText(Fresh, p, n, t))

SetText == MayEdit /\ \E t \in Texts : Returns(setText(Fresh, t))

undo ==
  /\ MayEdit /\ doc.history # << >>
  /\ IF locks THEN Blocks ELSE Leaves(Undone(Fresh), TRUE)

\* redo(): the call it makes clears redoStack_, whose last element it then
\* removes.
redo ==
  /\ MayEdit /\ doc.redo # << >>
  /\ isValidPosition(doc.lines, Last(doc.redo).position)
  /\ broken' = TRUE
  /\ UNCHANGED <<doc, cursors, selections, locks, stuck, undone, clock, edits>>

clearHistory ==
  /\ MayEdit
  /\ Returns([Fresh EXCEPT !.history = << >>, !.redo = << >>, !.deleted = << >>])

setCursorPosition(u) ==
  /\ Callable
  /\ \E p \in ValidPositions(doc.lines) :
       cursors' = [v \in DOMAIN cursors \cup {u} |-> IF v = u THEN p ELSE cursors[v]]
  /\ doc' = Fresh
  /\ UNCHANGED <<selections, locks, stuck, broken, undone, clock, edits>>

setSelection ==
  /\ Callable
  /\ \E p, q \in ValidPositions(doc.lines) : selections' = <<p, q>>
  /\ doc' = Fresh
  /\ UNCHANGED <<cursors, locks, stuck, broken, undone, clock, edits>>

Tick ==
  /\ clock < MaxClock /\ clock' = clock + 1
  /\ UNCHANGED <<doc, cursors, selections, locks, stuck, broken, undone, edits>>

EditorNext ==
  \/ InsertText \/ DeleteText \/ ReplaceText \/ SetText \/ undo \/ redo \/ clearHistory
  \/ \E u \in Users : setCursorPosition(u)
  \/ setSelection \/ Tick

-----------------------------------------------------------------------------
(* The types of the variables; there is always a line.                      *)
EditorTypeOK ==
  /\ doc.lines \in Seq(Seq(Chars)) /\ doc.lines # << >>
  /\ {locks, stuck, broken, undone} \subseteq BOOLEAN
  /\ clock \in 0..MaxClock /\ edits \in 0..MaxEdits
  /\ DOMAIN cursors \subseteq Users
  /\ \A t \in DOMAIN doc.deleted : t \in 0..MaxClock

(* cursorToLinear() and linearToCursor() are inverse to each other on the   *)
(* positions of the document, and the end is the position after the last    *)
(* character.                                                               *)
PositionsRoundTrip ==
  LET lines == doc.lines
  IN /\ \A p \in ValidPositions(lines) : linearToCursor(lines, cursorToLinear(lines, p)) = p
     /\ \A n \in 0..getTextLength(lines) : cursorToLinear(lines, linearToCursor(lines, n)) = n
     /\ getTextLength(lines) = Len(getText(lines))

\* An operation as seen by a listener that keeps the text as one sequence.
Replay(text, op, at) ==
  SubSeq(text, 1, at)
  \o (IF op.type = "DELETE" THEN << >> ELSE op.text)
  \o SubSeq(text, at + 1 + (IF op.type = "INSERT" THEN 0 ELSE op.length), Len(text))

(* A listener that replays what it is told on its own copy of the text      *)
(* keeps it equal to getText(), through single-line and multi-line edits,   *)
(* deletes past the end, and undo: no call but setText() changes the text   *)
(* without telling.                                                         *)
ListenersCanFollow ==
  edits' # edits /\ ~SetText =>
    LET Follow(text, op) == Replay(text, op, cursorToLinear(Split(text), op.position))
    IN getText(doc'.lines) = FoldLeft(Follow, getText(doc.lines), doc'.notified)

(* What a call records as removed is what stood there, from its position on *)
(* and up to its length or the end of the text.                             *)
RemovedStoodThere ==
  edits' # edits /\ doc'.notified # << >> =>
    LET op == Head(doc'.notified)
    IN op.type # "INSERT" => op.removed = getTextRange(doc.lines, op.position, op.length)

(* Whoever compares version_ notices every change of the text, undo         *)
(* included: it never goes back, and grows when the text changes.           *)
VersionsTellTextsApart ==
  /\ doc'.version >= doc.version
  /\ doc'.lines # doc.lines => doc'.version > doc.version

(* The text undo() needs is there: the newest operation of each            *)
(* millisecond finds in deletedTexts_ the very text it removed.  An older   *)
(* one of the same millisecond has lost it, and so has one that an undo()   *)
(* past the lock has left in the history.                                   *)
DeletedTextKept ==
  \A i \in 1..Len(doc.history) :
    LET op == doc.history[i]
    IN /\ ~undone /\ op.length > 0
       /\ \A j \in (i + 1)..Len(doc.history) : doc.history[j].timestamp # op.timestamp
       => op.timestamp \in DOMAIN doc.deleted /\ doc.deleted[op.timestamp] = op.removed

(* The history keeps its limit, and at most one operation waits for redo(): *)
(* every edit empties redoStack_, the one undo() makes included.            *)
EditorHistoryBounded ==
  /\ Len(doc.history) <= MaxHistory
  /\ Len(doc.redo) <= 1

(* The lines, the history and the remembered texts fit together.            *)
EditorKept == EditorTypeOK /\ PositionsRoundTrip /\ DeletedTextKept /\ EditorHistoryBounded

(* A listener of the callbacks has the text, and the version tells it when  *)
(* the text has changed.                                                    *)
ChangesAreTold ==
  [][ListenersCanFollow /\ RemovedStoodThere /\ VersionsTellTextsApart]_editorVars
=============================================================================
