---------------------------------- MODULE Log ----------------------------------
(***************************************************************************)
(* The logger of every server (libs/log/log.go) and the rotating files it  *)
(* writes to (libs/log/file/file.go).  Callers put lines into a channel    *)
(* under a read lock; one goroutine writes them; Close takes the write     *)
(* lock, closes the channel and waits for the goroutine.  The goroutine    *)
(* exits the process once it has written a fatal line.  The writer archives *)
(* the file under a day and an index when a line no longer fits or the day *)
(* has changed.  A process that has ended may be started again: it finds   *)
(* the files of the runs before.                                           *)
(*                                                                         *)
(* Every line has size 1 and is named by its place in the channel's order. *)
(* Filtering by level, the console and the text of a line are left out.    *)
(***************************************************************************)
EXTENDS Naturals, Sequences, FiniteSets

CONSTANTS
  LogCallers,    \* goroutines that print
  LogCap,        \* capacity of logChan, 500 in the code
  LogMaxSize,    \* MaxSize of the writer, in lines
  LogMaxLines,   \* bound: lines printed
  LogMaxDay,     \* bound: days
  LogMaxRuns     \* bound: processes, one after the other

ASSUME LogAssumption ==
  /\ LogCap \in Nat \ {0} /\ LogMaxSize \in Nat \ {0}
  /\ LogMaxLines \in Nat /\ LogMaxDay \in Nat \ {0} /\ LogMaxRuns \in Nat \ {0}

Days == 1..LogMaxDay
NoFile == <<0>>   \* no file of the current name: 0 is no line

VARIABLES
  logRun,      \* number of this process
  logExited,   \* the process has ended by os.Exit
  logClose,    \* Close: "open", "wanted" (waits for the lock), "draining", "closed"
  logReaders,  \* callers that hold the read lock
  logChan,     \* the channel
  logLoop,     \* goLogWrite runs
  logFile,     \* the Writer: its file and its fields
  logDisk,     \* cur: lines of the current file; arch: those of the archives
  logDay,      \* the clock
  logLast,     \* history: the last line put into the channel
  logCut,      \* history: lines still in the channel when a process exited
  logCause     \* history: what happened that lines may be lost from

logVars == <<logRun, logExited, logClose, logReaders, logChan, logLoop, logFile,
             logDisk, logDay, logLast, logCut, logCause>>

\* A Writer before its first Write: handle is "none" while file is nil, "nil"
\* while the fileInfo has no os.File, "open", or "shut" once closed.
NewWriter == [handle |-> "none", curSize |-> 0, curIndex |-> 0, createDay |-> 0,
              lastDay |-> 0, curFileIndex |-> 0]

LogInit ==
  /\ logRun = 1 /\ logExited = FALSE
  /\ logClose = "open" /\ logReaders = {} /\ logChan = <<>> /\ logLoop = TRUE
  /\ logFile = NewWriter
  /\ logDisk = [cur |-> NoFile, arch |-> <<>>]
  /\ logDay = 1 /\ logLast = 0 /\ logCut = {} /\ logCause = {}

(* --------------------------------- The Writer -------------------------- *)

\* An outcome: the Writer, the files, success, and what may lose lines.
Result(f, d, ok, cause) == [f |-> f, d |-> d, ok |-> ok, cause |-> cause]

\* Mutant: counts on from 1 every day, whatever is on the disk.
GetCurFileIndexNoStat(f, arch) == IF f.curFileIndex = 0 THEN 1 ELSE f.curFileIndex

\* getCurFileIndex: looks for a free name when there is no index, else trusts it.
GetCurFileIndex(f, arch) ==
  IF f.curFileIndex # 0 THEN f.curFileIndex
  ELSE CHOOSE i \in 1..(Cardinality(DOMAIN arch) + 1) :
         /\ <<f.lastDay, i>> \notin DOMAIN arch
         /\ \A j \in 1..(i-1) : <<f.lastDay, j>> \in DOMAIN arch

\* os.Rename of the current file, over an archive of that name.
Rename(d, name) ==
  [cur |-> NoFile,
   arch |-> [n \in DOMAIN d.arch \cup {name} |-> IF n = name THEN d.cur ELSE d.arch[n]]]

\* openNew, which reads the clock again once it has the new file, at day: the
\* directory or the rename fails, opening the new file fails, or none does.
OpenNew(f, d, day, cause) ==
  LET moved == IF d.cur = NoFile THEN d ELSE Rename(d, <<f.createDay, f.curIndex>>)
      i == GetCurFileIndex(f, moved.arch)
  IN  {Result(f, d, FALSE, {"fault"}), Result(f, moved, FALSE, {"fault"}),
       Result([f EXCEPT !.handle = "open", !.curSize = 0, !.curIndex = i,
                        !.createDay = day, !.curFileIndex = i + 1],
              [moved EXCEPT !.cur = <<>>], TRUE,
              cause \cup IF day = logDay THEN {} ELSE {"midnight"})}

\* close: a file is not closed twice.
CloseFile(f) == IF f.handle = "open" THEN [f EXCEPT !.handle = "shut"] ELSE f

\* rotate.
Rotate(f, d, day) ==
  IF f.handle = "shut" THEN {Result(f, d, FALSE, {"fault"})} ELSE OpenNew(CloseFile(f), d, day, {})

\* openExistingOrNew: no file; os.Stat fails; the file is full, or just would
\* be; os.OpenFile succeeds, or fails and openNew is tried.
OpenExistingOrNew(d, day) ==
  LET f == [NewWriter EXCEPT !.handle = "nil", !.lastDay = logDay]
      i == GetCurFileIndex(f, d.arch)
      new == [f EXCEPT !.curFileIndex = i]
      old == [new EXCEPT !.curIndex = i, !.createDay = logDay, !.curSize = Len(d.cur)]
  IN  IF d.cur = NoFile THEN OpenNew(new, d, day, {})
      ELSE {Result(new, d, FALSE, {"fault"})} \cup
           IF Len(d.cur) + 1 >= LogMaxSize THEN OpenNew(old, d, day, {"full"})
           ELSE {Result([old EXCEPT !.handle = "open", !.curFileIndex = i + 1], d, TRUE, {})}
                  \cup OpenNew(old, d, day, {"fault"})

\* What Write does before it writes: the first one, one on another day, one
\* that does not fit, any other.
Opened(f, d, day) ==
  IF f.handle = "none" THEN OpenExistingOrNew(d, day)
  ELSE IF f.lastDay # logDay
       THEN Rotate([f EXCEPT !.lastDay = logDay, !.curFileIndex = 0], d, day)
  ELSE IF f.curSize + 1 > LogMaxSize THEN Rotate(f, d, day)
  ELSE {Result(f, d, TRUE, {})}

\* Write: the line is lost unless a file is open in the end.
Write(f, d, line, day) ==
  {IF r.ok /\ r.f.handle = "open"
   THEN [r EXCEPT !.f.curSize = @ + 1, !.d.cur = Append(@, line)] ELSE r :
     r \in Opened(f, d, day)}

(* --------------------------------- The Logger -------------------------- *)

LogClosed == logClose \in {"draining", "closed"}

\* doPrintf takes the read lock, which a waiting or present Close keeps it from.
LogLock(c) ==
  /\ ~logExited /\ c \notin logReaders /\ logClose \in {"open", "closed"}
  /\ logLast + Cardinality(logReaders) < LogMaxLines
  /\ logReaders' = logReaders \cup {c}
  /\ UNCHANGED <<logRun, logExited, logClose, logChan, logLoop, logFile, logDisk,
                 logDay, logLast, logCut, logCause>>

\* It sends the line, as soon as there is room, unless the logger is closed.
LogPrint(c, fatal) ==
  /\ c \in logReaders
  /\ logReaders' = logReaders \ {c}
  /\ IF LogClosed THEN UNCHANGED <<logChan, logLast>>
     ELSE /\ Len(logChan) < LogCap
          /\ logLast' = logLast + 1
          /\ logChan' = Append(logChan, [line |-> logLast + 1, fatal |-> fatal])
  /\ UNCHANGED <<logRun, logExited, logClose, logLoop, logFile, logDisk, logDay, logCut, logCause>>

LogCloseWant ==
  /\ ~logExited /\ logClose = "open" /\ logClose' = "wanted"
  /\ UNCHANGED <<logRun, logExited, logReaders, logChan, logLoop, logFile, logDisk,
                 logDay, logLast, logCut, logCause>>

\* Close has the lock; it marks the logger and closes the channel.
LogCloseLock ==
  /\ logClose = "wanted" /\ logReaders = {} /\ logClose' = "draining"
  /\ UNCHANGED <<logRun, logExited, logReaders, logChan, logLoop, logFile, logDisk,
                 logDay, logLast, logCut, logCause>>

\* Mutant: does not wait for the goroutine.
LogCloseEndNoWait ==
  /\ logClose = "draining" /\ logClose' = "closed"
  /\ logFile' = CloseFile(logFile)
  /\ UNCHANGED <<logRun, logExited, logReaders, logChan, logLoop, logDisk, logDay,
                 logLast, logCut, logCause>>

\* wg.Wait is over and the file is closed.
LogCloseEnd ==
  /\ logClose = "draining" /\ ~logLoop /\ logClose' = "closed"
  /\ logFile' = CloseFile(logFile)
  /\ UNCHANGED <<logRun, logExited, logReaders, logChan, logLoop, logDisk, logDay,
                 logLast, logCut, logCause>>

\* Nothing of the process remains but its files.
Exit(chan) ==
  /\ logExited' = TRUE /\ logLoop' = FALSE /\ logReaders' = {} /\ logClose' = "closed"
  /\ logChan' = <<>>
  /\ logCut' = logCut \cup {chan[i].line : i \in DOMAIN chan}

\* goLogWrite writes a line, and exits after a fatal one.
LogWrite ==
  /\ logLoop /\ logChan # <<>>
  /\ LET item == Head(logChan)
     IN  /\ \E day \in {logDay, logDay + 1} \cap Days :
              \E r \in Write(logFile, logDisk, item.line, day) :
                /\ day = logDay \/ "midnight" \in r.cause
                /\ logFile' = r.f /\ logDisk' = r.d /\ logDay' = day
                /\ logCause' = logCause \cup r.cause
         /\ IF item.fatal THEN Exit(Tail(logChan))
            ELSE logChan' = Tail(logChan)
                 /\ UNCHANGED <<logExited, logLoop, logReaders, logClose, logCut>>
  /\ UNCHANGED <<logRun, logLast>>

\* Mutant: ends when Close is wanted and the channel empty, before the callers are out.
LogLoopEndEarly ==
  /\ logLoop /\ logChan = <<>> /\ logClose # "open"
  /\ logLoop' = FALSE
  /\ UNCHANGED <<logRun, logExited, logClose, logReaders, logChan, logFile, logDisk,
                 logDay, logLast, logCut, logCause>>

\* The channel is closed and empty.
LogLoopEnd ==
  /\ logLoop /\ logChan = <<>> /\ LogClosed
  /\ logLoop' = FALSE
  /\ UNCHANGED <<logRun, logExited, logClose, logReaders, logChan, logFile, logDisk,
                 logDay, logLast, logCut, logCause>>

LogMidnight ==
  /\ logDay < LogMaxDay /\ logDay' = logDay + 1
  /\ UNCHANGED <<logRun, logExited, logClose, logReaders, logChan, logLoop, logFile,
                 logDisk, logLast, logCut, logCause>>

\* The server is started again: New, with a new Writer.
LogRestart ==
  /\ logClose = "closed" /\ logReaders = {} /\ ~logLoop /\ logRun < LogMaxRuns
  /\ logRun' = logRun + 1 /\ logExited' = FALSE
  /\ logClose' = "open" /\ logLoop' = TRUE
  /\ logFile' = NewWriter
  /\ UNCHANGED <<logReaders, logChan, logDisk, logDay, logLast, logCut, logCause>>

LogStep(c) == LogLock(c) \/ \E fatal \in BOOLEAN : LogPrint(c, fatal)

LogNext ==
  \/ \E c \in LogCallers : LogStep(c)
  \/ LogCloseWant \/ LogCloseLock \/ LogCloseEnd
  \/ LogWrite \/ LogLoopEnd
  \/ LogMidnight \/ LogRestart

\* What the goroutines do by themselves; nobody has to print, to close or to
\* start again.
LogGoes ==
  \/ \E c \in LogCallers : \E fatal \in BOOLEAN : LogPrint(c, fatal)
  \/ LogCloseLock \/ LogCloseEnd \/ LogWrite \/ LogLoopEnd

LogSpec == LogInit /\ [][LogNext]_logVars

-------------------------------------------------------------------------------
Lines == 1..logLast
InFile(s) == {s[i] : i \in DOMAIN s} \ {0}
Archived == UNION {InFile(logDisk.arch[n]) : n \in DOMAIN logDisk.arch}
OnDisk == InFile(logDisk.cur) \cup Archived
Queued == {logChan[i].line : i \in DOMAIN logChan}

\* Types of the variables.
LogTypeOK ==
  /\ logRun \in 1..LogMaxRuns /\ logExited \in BOOLEAN
  /\ logClose \in {"open", "wanted", "draining", "closed"}
  /\ logReaders \subseteq LogCallers /\ logLoop \in BOOLEAN
  /\ logChan \in Seq([line : Lines, fatal : BOOLEAN]) /\ Len(logChan) <= LogCap
  /\ logFile \in [handle : {"none", "nil", "open", "shut"}, curSize : Nat, curIndex : Nat,
                  createDay : 0..LogMaxDay, lastDay : 0..LogMaxDay, curFileIndex : Nat]
  /\ DOMAIN logDisk.arch \subseteq (0..LogMaxDay) \X Nat
  /\ OnDisk \subseteq Lines /\ logCut \subseteq Lines
  /\ logDay \in Days /\ logLast \in 0..LogMaxLines
  /\ logCause \subseteq {"fault", "full", "midnight"}

\* The archives in the order of their names, then the current file.
Before(m, n) == m[1] < n[1] \/ (m[1] = n[1] /\ m[2] < n[2])
InOrder ==
  /\ \A m, n \in DOMAIN logDisk.arch : Before(m, n) =>
       \A i \in InFile(logDisk.arch[m]), j \in InFile(logDisk.arch[n]) : i < j
  /\ \A i \in Archived, j \in InFile(logDisk.cur) : i < j

\* No line is lost or out of order: what callers have printed is in the
\* channel or in the files, which read in the order of their names give the
\* lines in the order of the channel, over days, rotations and restarts; and
\* once Close has returned all of it is in the files (log.go:98-104,
\* file.go:57-71, 85-99).  Excepted are lines after a fatal one, and what the
\* history names: a failed call on the file system; a full file met by the
\* first Write, which is archived under an index that is then used again, so
\* that the next rotation replaces the archive (file.go:129, 158); midnight
\* between the two readings of the clock of one Write (file.go:57, 130).
LogKept ==
  /\ logCause = {} => /\ Lines = Queued \cup OnDisk \cup logCut
                      /\ InOrder
  /\ logClose = "closed" => logChan = <<>>

\* Nobody waits for ever: while Close has not returned, or a caller is in
\* doPrintf, some goroutine can go on, with a full channel and a waiting Close
\* too, and whatever it does leaves less to do (log.go:98-104, 114-137, 176-180).
LogEnds ==
  logClose \in {"wanted", "draining"} \/ logReaders # {} => ENABLED LogGoes
===============================================================================
