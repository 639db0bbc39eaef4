---------------------------- MODULE RuntimeLogger ----------------------------
(***************************************************************************)
(* RuntimeLogger: the recent lines a window shows, and the log file with    *)
(* its two backups.  The graphical and the command-line program use the     *)
(* same files; a logger opens the file for every line and counts the bytes  *)
(* it believes the file to have.                                            *)
(*                                                                          *)
(* append() holds the logger's mutex, so it is one step.  A file is its     *)
(* size, or NoFile.                                                         *)
(***************************************************************************)
EXTENDS Integers, Sequences, FiniteSets

CONSTANTS
  Programs,           \* programs that may run at the same time
  MaxLines,           \* maxLines_
  MaxPersistentBytes, \* maxPersistentBytes_
  LineSizes,          \* sizes of a formatted line
  MaxWritten,         \* lines a program writes between two clear()
  MaxFailures         \* file operations that fail

ASSUME LoggerAssumption ==
  /\ IsFiniteSet(Programs)
  /\ MaxLines \in Nat \ {0} /\ MaxPersistentBytes \in Nat
  /\ LineSizes \subseteq 1..MaxPersistentBytes

VARIABLES
  running,            \* programs whose logger exists
  lines, lastError,   \* lines_, lastError_
  persistentBytes,    \* persistentBytes_
  log, backup1, backup2,
  written,            \* every line since the last clear()
  failures            \* renames of the log file that have failed

files == <<log, backup1, backup2>>
logVars == <<running, lines, lastError, persistentBytes, files, written, failures>>

NoFile == -1
NoError == 0
Size(f) == IF f = NoFile THEN 0 ELSE f

LogInit ==
  /\ running = {} /\ lines = [p \in Programs |-> <<>>] /\ lastError = [p \in Programs |-> NoError]
  /\ persistentBytes = [p \in Programs |-> 0]
  /\ log = NoFile /\ backup1 = NoFile /\ backup2 = NoFile
  /\ written = [p \in Programs |-> <<>>] /\ failures = 0

OpenLogger(p) ==
  /\ p \notin running /\ running' = running \cup {p}
  /\ persistentBytes' = [persistentBytes EXCEPT ![p] = Size(log)]
  /\ UNCHANGED <<lines, lastError, files, written, failures>>

(* The program ends or dies, and its logger with it.                        *)
CloseLogger(p) ==
  /\ p \in running /\ running' = running \ {p}
  /\ lines' = [lines EXCEPT ![p] = <<>>] /\ lastError' = [lastError EXCEPT ![p] = NoError]
  /\ written' = [written EXCEPT ![p] = <<>>] /\ persistentBytes' = [persistentBytes EXCEPT ![p] = 0]
  /\ UNCHANGED <<files, failures>>

Clear(p) ==
  /\ p \in running /\ written[p] # <<>> /\ written' = [written EXCEPT ![p] = <<>>]
  /\ lines' = [lines EXCEPT ![p] = <<>>] /\ lastError' = [lastError EXCEPT ![p] = NoError]
  /\ UNCHANGED <<running, persistentBytes, files, failures>>

(* Mistake: the oldest line is never dropped.                               *)
RememberedForever(s, line) == Append(s, line)

Remembered(s, line) == IF Len(s) >= MaxLines THEN Append(Tail(s), line) ELSE Append(s, line)

(* Mistake: the log file is copied, not moved.                              *)
RotateByCopying(ok1, ok2) ==
  [log |-> log, backup1 |-> log, backup2 |-> backup1]

(* rotatePersistentLogsLocked(): errors are ignored.  The second backup is  *)
(* removed; a rename that fails leaves its file where it was.               *)
Rotate(ok1, ok2) ==
  [log |-> IF ok2 THEN NoFile ELSE log,
   backup1 |-> IF ok2 /\ log # NoFile THEN log ELSE IF ok1 THEN NoFile ELSE backup1,
   backup2 |-> IF ok1 THEN backup1 ELSE NoFile]

Full(p, size) == persistentBytes[p] + size > MaxPersistentBytes

(* append(): rotate if need be, and write the line if the file opens.       *)
AppendLine(p, error, size, ok1, ok2, opens) ==
  LET line == Len(written[p]) + 1
      full == Full(p, size)
      now == IF full THEN Rotate(ok1, ok2) ELSE [log |-> log, backup1 |-> backup1, backup2 |-> backup2]
      counted == IF full THEN 0 ELSE persistentBytes[p]
  IN /\ p \in running /\ line <= MaxWritten
     /\ written' = [written EXCEPT ![p] = Append(@, <<line, error>>)]
     /\ lines' = [lines EXCEPT ![p] = Remembered(@, <<line, error>>)]
     /\ lastError' = [lastError EXCEPT ![p] = IF error THEN line ELSE @]
     /\ failures' = failures + (IF full /\ ~ok2 THEN 1 ELSE 0) /\ failures' <= MaxFailures
     /\ backup1' = now.backup1 /\ backup2' = now.backup2
     /\ log' = IF opens THEN Size(now.log) + size ELSE now.log
     /\ persistentBytes' = [persistentBytes EXCEPT ![p] = IF opens THEN counted + size ELSE counted]
     /\ UNCHANGED running

LogNext ==
  \E p \in Programs :
    \/ OpenLogger(p) \/ CloseLogger(p) \/ Clear(p)
    \/ \E error, opens \in BOOLEAN, size \in LineSizes :
         \E ok1, ok2 \in IF Full(p, size) THEN BOOLEAN ELSE {TRUE} : AppendLine(p, error, size, ok1, ok2, opens)

LogSpec == LogInit /\ [][LogNext]_logVars
------------------------------------------------------------------------------
(* No log file outgrows the limit by more than one limit for every other    *)
(* program that writes to it and every rename that failed: each program     *)
(* counts only its own bytes, and counts from zero when it could not move   *)
(* the file away.                                                           *)
LogBounded ==
  \A f \in {log, backup1, backup2} : f <= MaxPersistentBytes * (Cardinality(Programs) + failures)

(* snapshot() shows the newest lines since the last clear(), and an error   *)
(* as long as one was written since then: scan() and start() take an empty  *)
(* lastError() to mean that discovery found nothing but did not fail.       *)
RecentLines ==
  \A p \in running :
    LET n == Len(written[p])
        kept == IF n < MaxLines THEN n ELSE MaxLines
        errors == {i \in 1..n : written[p][i][2]}
    IN /\ lines[p] = SubSeq(written[p], n - kept + 1, n)
       /\ lastError[p] = IF errors = {} THEN NoError ELSE CHOOSE i \in errors : \A j \in errors : j <= i

(* The logger as a whole: files bounded, lines and last error those of this *)
(* run.                                                                     *)
LogConsistent == LogBounded /\ RecentLines
=============================================================================
