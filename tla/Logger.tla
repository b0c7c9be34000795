-------------------------------- MODULE Logger --------------------------------
(***************************************************************************)
(* util::Logger (include/common/util/logger.h): threads that log, the file *)
(* and its rotation, and a process that may end at any step and start      *)
(* again on the files it left.                                             *)
(*                                                                         *)
(* log() tests the level without a lock and writes with mutex_ held, the   *)
(* rotation included.  initialize() logs with mutex_ held: with a level    *)
(* that lets INFO through it waits for itself.  A second initialize()      *)
(* finds the stream open: open() fails, the stream is bad and lines are    *)
(* lost until a rotation opens it again.                                   *)
(***************************************************************************)
EXTENDS Integers, Sequences, SequencesExt, FiniteSets

CONSTANTS
  Logging,      \* the threads that log
  Nobody,       \* nobody holds mutex_
  Starter,      \* the thread that calls initialize() and setLogLevel()
  MaxFileLines, \* MAX_FILE_SIZE, in lines
  MaxBackups,   \* MAX_BACKUP_FILES
  MaxLines,     \* bound: lines given to an initialized logger
  MaxCrashes    \* bound: crashes

ASSUME LoggerAssumption ==
  /\ MaxFileLines \in Nat \ {0} /\ MaxBackups \in Nat \ {0}
  /\ Nobody \notin Logging /\ Starter \notin Logging

\* enum class LogLevel
TRACE == 0  DEBUG == 1  INFO == 2  WARNING == 3  ERROR == 4  FATAL == 5
LogLevel == TRACE..FATAL

VARIABLES
  minLevel,     \* minLevel_
  initialized,  \* initialized_
  isOpen,       \* logFile_.is_open()
  failbit,      \* logFile_.fail()
  holder,       \* who holds mutex_
  waiting,      \* thread -> level of the line it waits to write, or -1
  rotation,     \* the step of rotateLogFiles() that is next: see RotationStep
  file,         \* lines in logFilePath_; NoFile when it does not exist
  backup,       \* lines in logFilePath_.1 and so on
  lines,        \* number of lines written
  failures,     \* a step of the rotation failed, or the process ended in one: history
  crashes,      \* number of crashes
  hung,         \* initialize() waits for mutex_, which it holds
  again,        \* initialize() was called with the stream open: history
  lost          \* number of lines lost although the logger was initialized: history

streamVars == <<failbit, again, lost>>
loggerVars == <<minLevel, initialized, isOpen, holder, waiting, rotation, file, backup, lines,
                failures, crashes, hung, streamVars>>

\* MaxBackups: the oldest backup is removed; i below it: backup i moves up;
\* 0: the file becomes the first backup.
Reopening == -1
NotRotating == -2
RotationStep == NotRotating..MaxBackups

NoFile == <<-1>>
Exists(f) == f # NoFile

isLevelEnabled(l) == l >= minLevel

LoggerInit ==
  /\ minLevel = INFO /\ initialized = FALSE /\ isOpen = FALSE /\ holder = Nobody
  /\ waiting = [t \in Logging |-> -1] /\ rotation = NotRotating
  /\ file = NoFile /\ backup = [i \in 1..MaxBackups |-> NoFile]
  /\ lines = 0 /\ failures = FALSE /\ crashes = 0 /\ hung = FALSE
  /\ failbit = FALSE /\ again = FALSE /\ lost = 0

\* initialize(), when the file can be opened (to append); otherwise it only
\* sets the level.  open() of a stream that is open fails.
initialize(level) ==
  /\ holder = Nobody /\ minLevel' = level
  /\ IF isOpen
     THEN /\ failbit' = TRUE /\ again' = TRUE
          /\ UNCHANGED <<initialized, isOpen, file, hung, holder>>
     ELSE /\ initialized' = TRUE /\ isOpen' = TRUE /\ failbit' = FALSE
          /\ file' = IF Exists(file) THEN file ELSE << >>
          /\ hung' = (INFO >= level)
          /\ holder' = IF hung' THEN Starter ELSE Nobody
          /\ UNCHANGED again
  /\ UNCHANGED <<waiting, rotation, backup, lines, failures, crashes, lost>>

setLogLevel(level) ==
  /\ holder = Nobody /\ level # minLevel
  /\ minLevel' = level
  /\ UNCHANGED <<initialized, isOpen, holder, waiting, rotation, file, backup, lines, failures,
                 crashes, hung, streamVars>>

\* log() up to the lock, also through LogStream and the functions named after
\* the levels.
log(t, level) ==
  /\ waiting[t] = -1 /\ isLevelEnabled(level)
  /\ waiting' = [waiting EXCEPT ![t] = level]
  /\ UNCHANGED <<minLevel, initialized, isOpen, holder, rotation, file, backup, lines, failures,
                 crashes, hung, streamVars>>

\* The rest of log(): without initialize(), or to a stream that is bad, the
\* line is lost.  checkRotation() closes a full file and begins the rotation.
Write(t) ==
  /\ waiting[t] # -1 /\ holder = Nobody
  /\ IF ~initialized
     THEN /\ waiting' = [waiting EXCEPT ![t] = -1]
          /\ UNCHANGED <<isOpen, holder, rotation, file, lines, lost>>
     ELSE /\ lines + lost < MaxLines
          /\ IF failbit
             THEN lost' = lost + 1 /\ UNCHANGED <<file, lines>>
             ELSE lines' = lines + 1 /\ file' = Append(file, lines + 1) /\ UNCHANGED lost
          /\ IF Len(file') >= MaxFileLines
             THEN /\ isOpen' = FALSE /\ holder' = t /\ rotation' = MaxBackups
                  /\ UNCHANGED waiting
             ELSE /\ waiting' = [waiting EXCEPT ![t] = -1]
                  /\ UNCHANGED <<isOpen, holder, rotation>>
  /\ UNCHANGED <<minLevel, initialized, backup, failures, crashes, hung, failbit, again>>

-----------------------------------------------------------------------------
(* rotateLogFiles(), a file at a time: the oldest is removed, each of the   *)
(* others moves up, and the file becomes the first.  A step that fails ends *)
(* the rotation.                                                            *)

RemoveOldest ==
  /\ rotation = MaxBackups
  /\ backup' = [backup EXCEPT ![MaxBackups] = NoFile]
  /\ rotation' = MaxBackups - 1
  /\ UNCHANGED <<minLevel, initialized, isOpen, holder, waiting, file, lines, failures,
                 crashes, hung, streamVars>>

MoveUp(i) ==
  /\ rotation = i
  /\ backup' = IF Exists(backup[i]) THEN [backup EXCEPT ![i + 1] = backup[i], ![i] = NoFile]
               ELSE backup
  /\ rotation' = i - 1
  /\ UNCHANGED <<minLevel, initialized, isOpen, holder, waiting, file, lines, failures,
                 crashes, hung, streamVars>>

MoveFile ==
  /\ rotation = 0
  /\ backup' = [backup EXCEPT ![1] = file] /\ file' = NoFile
  /\ rotation' = Reopening
  /\ UNCHANGED <<minLevel, initialized, isOpen, holder, waiting, lines, failures, crashes, hung,
                 streamVars>>

RotationFails ==
  /\ rotation \in 0..MaxBackups /\ rotation' = Reopening
  /\ failures' = TRUE
  /\ UNCHANGED <<minLevel, initialized, isOpen, holder, waiting, file, backup, lines, crashes,
                 hung, streamVars>>

\* Mutant of Reopen: the file is truncated.
Reopen_Truncates ==
  /\ rotation = Reopening
  /\ isOpen' = TRUE /\ file' = << >> /\ failbit' = FALSE
  /\ rotation' = NotRotating /\ holder' = Nobody
  /\ waiting' = [waiting EXCEPT ![holder] = -1]
  /\ UNCHANGED <<minLevel, initialized, backup, lines, failures, crashes, hung, again, lost>>

\* Mutant of Reopen: the mutex stays locked.
Reopen_KeepsMutex ==
  /\ rotation = Reopening
  /\ isOpen' = TRUE /\ failbit' = FALSE /\ file' = IF Exists(file) THEN file ELSE << >>
  /\ rotation' = NotRotating
  /\ waiting' = [waiting EXCEPT ![holder] = -1]
  /\ UNCHANGED <<minLevel, initialized, holder, backup, lines, failures, crashes, hung, again, lost>>

\* The end of checkRotation() and of log(): the file is opened again, to
\* append.  If that fails the logger is not initialized any more.
Reopen ==
  /\ rotation = Reopening
  /\ \/ /\ isOpen' = TRUE /\ failbit' = FALSE /\ file' = (IF Exists(file) THEN file ELSE << >>)
        /\ UNCHANGED initialized
     \/ initialized' = FALSE /\ failbit' = TRUE /\ UNCHANGED <<isOpen, file>>
  /\ rotation' = NotRotating /\ holder' = Nobody
  /\ waiting' = [waiting EXCEPT ![holder] = -1]
  /\ UNCHANGED <<minLevel, backup, lines, failures, crashes, hung, again, lost>>

\* The process ends and starts again: the files stay.
Crash ==
  /\ crashes < MaxCrashes /\ crashes' = crashes + 1
  /\ failures' = (failures \/ rotation # NotRotating)
  /\ minLevel' = INFO /\ initialized' = FALSE /\ isOpen' = FALSE /\ holder' = Nobody
  /\ waiting' = [t \in Logging |-> -1] /\ rotation' = NotRotating /\ hung' = FALSE
  /\ failbit' = FALSE
  /\ UNCHANGED <<file, backup, lines, again, lost>>

Rotate ==
  RemoveOldest \/ (\E i \in 1..(MaxBackups - 1) : MoveUp(i)) \/ MoveFile \/ Reopen

LoggerNext ==
  \/ \E l \in {INFO, WARNING, ERROR} : initialize(l) \/ setLogLevel(l)
  \/ \E t \in Logging, l \in {INFO, ERROR} : log(t, l)
  \/ \E t \in Logging : Write(t)
  \/ Rotate \/ RotationFails \/ Crash

\* A thread that holds mutex_ goes on, and one that can lock it does.
LoggerFairness == WF_loggerVars(Rotate) /\ \A t \in Logging : WF_loggerVars(Write(t))

-----------------------------------------------------------------------------
(* The types of the variables; who rotates holds mutex_.                    *)
LoggerTypeOK ==
  /\ minLevel \in LogLevel /\ {initialized, isOpen, failures, hung} \subseteq BOOLEAN
  /\ holder \in Logging \cup {Nobody, Starter}
  /\ rotation \in RotationStep
  /\ rotation # NotRotating <=> holder \in Logging
  /\ \A t \in Logging : waiting[t] \in LogLevel \cup {-1}

\* The lines of backup p; place 0 is the file.
Place == 0..MaxBackups
Part(p) == LET f == IF p = 0 THEN file ELSE backup[p] IN IF Exists(f) THEN f ELSE << >>

(* Only the oldest lines are ever lost: the backups, read from the last to  *)
(* the first, and the file hold the newest lines in order and without a     *)
(* gap, whatever step of a rotation fails or the process ends in.           *)
LogHasNoGaps ==
  \A p \in Place : \A i \in 1..Len(Part(p)) :
    /\ Part(p)[i] \in 1..lines
    /\ Part(p)[i] = lines \/ \E q \in Place : \E j \in 1..Len(Part(q)) : Part(q)[j] = Part(p)[i] + 1
    /\ \A q \in Place : \A j \in 1..Len(Part(q)) :
         p > q \/ (p = q /\ i < j) => Part(p)[i] < Part(q)[j]

(* No file outgrows MAX_FILE_SIZE unless a rotation failed.                 *)
LogFilesBounded ==
  ~failures => \A f \in ToSet(backup) \cup {file} : Len(f) <= MaxFileLines

(* An initialized logger writes every line it is given, through rotations   *)
(* that fail and a process that ends, until initialize() is called again    *)
(* with the stream open.                                                    *)
LinesLostOnlyIfInitializedTwice ==
  /\ failbit \in BOOLEAN /\ again \in BOOLEAN /\ lost \in Nat
  /\ initialized /\ failbit => again
  /\ lost > 0 => again

(* log() returns, unless initialize() hangs: neither a failed step of the   *)
(* rotation nor another thread's rotation leaves mutex_ locked.             *)
LogReturns ==
  \A t \in Logging : waiting[t] # -1 ~> (waiting[t] = -1 \/ hung \/ lines + lost = MaxLines)

(* What was logged is in the files, without gaps, and there are no more of  *)
(* them than configured.                                                    *)
LogKept ==
  LoggerTypeOK /\ LogHasNoGaps /\ LogFilesBounded /\ LinesLostOnlyIfInitializedTwice
=============================================================================
