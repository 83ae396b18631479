---------------------------- MODULE LogPipeline ----------------------------
(***************************************************************************)
(* The file logger of common/logger/file/loglib.go.  Any goroutine puts a  *)
(* line into the list; one goroutine takes batches from it and appends     *)
(* them to the file of the hour.  When a line comes in a later hour than   *)
(* the one before, the old file is closed, its lines are counted and a row *)
(* is inserted into load_checkpoint for the loader.  One mutex guards the  *)
(* list, and the batch keeps it while it writes, counts and inserts.       *)
(***************************************************************************)
EXTENDS Integers, Sequences, FiniteSets, SequencesExt

CONSTANTS
    Line,         \* the lines callers log, each once
    Long,         \* those longer than the 64 KB of a bufio.Scanner
    MaxHour,      \* bound on the clock
    Batch,        \* ms_dealnumfre
    MaxFaults,    \* bound on failed operations
    MaxSetbacks,  \* bound on how often the clock is set back
    MaxCrashes,   \* bound on the crashes of the process
    None          \* no file yet

ASSUME LongAssumption == Long \subseteq Line
ASSUME BatchAssumption == Batch \in Nat \ {0}
ASSUME BoundAssumption ==
    MaxHour \in Nat /\ MaxFaults \in Nat /\ MaxSetbacks \in Nat /\ MaxCrashes \in Nat

Hour == 0..MaxHour

ASSUME NoneAssumption == None \notin Hour

Label == {"wait", "batch", "open", "count", "insert", "print"}
Harm == {"open", "print", "count", "insert", "setback", "crash"}
Checkpoint == [file: Hour, numbers: Nat]

VARIABLES
    errLog,       \* whether the file's name contains err.log
    hour,         \* the hour the clock shows
    calls,        \* calls[l]: the LogFile call of line l
    list,         \* ms_loglist
    pc,           \* where the writer is; it holds ms_lock unless it waits
    done,         \* the lines of this batch so far
    stamp,        \* the hour Write_Log read for the line at the front
    curfile,      \* ms_curfile
    opened,       \* whether ms_logfile could be opened
    numbers,      \* the line count inputTask is about to insert
    files,        \* files[h]: the lines in the file of hour h
    checkpoints,  \* the rows of load_checkpoint, in their order
    logged,       \* history: the lines accepted, in their order
    harm          \* history: what went wrong, one entry for each time

memory == <<list, pc, done, stamp, curfile, opened, numbers>>
vars == <<errLog, hour, calls, memory, files, checkpoints, logged, harm>>

\* Besides the types: the writer is at a line whenever it is in Write_Log, and
\* a batch is never longer than Batch.
TypeOK ==
    /\ errLog \in BOOLEAN
    /\ hour \in Hour
    /\ calls \in [Line -> {"none", "calling", "returned", "lost"}]
    /\ list \in Seq(Line)
    /\ pc \in Label
    /\ done \in 0..(Batch - 1)
    /\ stamp \in Hour
    /\ curfile \in Hour \cup {None}
    /\ opened \in BOOLEAN
    /\ numbers \in Nat
    /\ files \in [Hour -> Seq(Line)]
    /\ checkpoints \in Seq(Checkpoint)
    /\ logged \in Seq(Line)
    /\ harm \in [Harm -> Nat]
    /\ pc \notin {"wait", "batch"} => list # <<>>

Init ==
    /\ errLog \in BOOLEAN
    /\ hour = 0
    /\ calls = [l \in Line |-> "none"]
    /\ list = <<>>
    /\ pc = "wait"
    /\ done = 0
    /\ stamp = 0
    /\ curfile = None
    /\ opened = FALSE
    /\ numbers = 0
    /\ files = [h \in Hour |-> <<>>]
    /\ checkpoints = <<>>
    /\ logged = <<>>
    /\ harm = [h \in Harm |-> 0]

-----------------------------------------------------------------------------
(***************************************************************************)
(* Callers.                                                                *)
(***************************************************************************)
CallLogFile(l) ==
    /\ calls[l] = "none"
    /\ calls' = [calls EXCEPT ![l] = "calling"]
    /\ UNCHANGED <<errLog, hour, memory, files, checkpoints, logged, harm>>

\* Mutant: PushFront.
LogFileFront(l) ==
    /\ calls[l] = "calling"
    /\ pc = "wait"
    /\ calls' = [calls EXCEPT ![l] = "returned"]
    /\ list' = <<l>> \o list
    /\ logged' = Append(logged, l)
    /\ UNCHANGED <<errLog, hour, pc, done, stamp, curfile, opened, numbers, files,
                   checkpoints, harm>>

\* The caller waits for ms_lock, which a batch holds.
LogFile(l) ==
    /\ calls[l] = "calling"
    /\ pc = "wait"
    /\ calls' = [calls EXCEPT ![l] = "returned"]
    /\ list' = Append(list, l)
    /\ logged' = Append(logged, l)
    /\ UNCHANGED <<errLog, hour, pc, done, stamp, curfile, opened, numbers, files,
                   checkpoints, harm>>

-----------------------------------------------------------------------------
(***************************************************************************)
(* The writer: Start_Log's goroutine.                                      *)
(***************************************************************************)
Faults == harm["open"] + harm["print"] + harm["count"] + harm["insert"]

Fails(kind) == Faults < MaxFaults /\ harm' = [harm EXCEPT ![kind] = @ + 1]

\* The timer fires: Lock.
Tick ==
    /\ pc = "wait"
    /\ pc' = "batch"
    /\ done' = 0
    /\ UNCHANGED <<errLog, hour, calls, list, stamp, curfile, opened, numbers, files,
                   checkpoints, logged, harm>>

\* Mutant: the lock is kept.
EndBatchLocked == pc = "batch" /\ list = <<>> /\ UNCHANGED vars

EndBatch ==
    /\ pc = "batch"
    /\ list = <<>>
    /\ pc' = "wait"
    /\ UNCHANGED <<errLog, hour, calls, list, done, stamp, curfile, opened, numbers,
                   files, checkpoints, logged, harm>>

\* Write_Log begins: it reads the clock, and looks for the file of the hour.
\* An err.log file has no checkpoint.
BeginLine ==
    /\ pc = "batch"
    /\ list # <<>>
    /\ stamp' = hour
    /\ pc' = IF curfile = hour THEN "print"
             ELSE IF curfile = None \/ errLog THEN "open" ELSE "count"
    /\ UNCHANGED <<errLog, hour, calls, list, done, curfile, opened, numbers, files,
                   checkpoints, logged, harm>>

\* inputTask up to the INSERT.  A line too long for the Scanner is an error,
\* and so is a file that cannot be opened; a file without lines needs no row.
CountLines ==
    LET lines == files[curfile]
    IN  /\ pc = "count"
        /\ \/ Fails("count") /\ pc' = "open" /\ UNCHANGED numbers
           \/ /\ lines = <<>> \/ \E k \in DOMAIN lines : lines[k] \in Long
              /\ pc' = "open" /\ UNCHANGED <<numbers, harm>>
           \/ /\ lines # <<>> /\ \A k \in DOMAIN lines : lines[k] \notin Long
              /\ numbers' = Len(lines)
              /\ pc' = "insert" /\ UNCHANGED harm
        /\ UNCHANGED <<errLog, hour, calls, list, done, stamp, curfile, opened, files,
                       checkpoints, logged>>

\* Mutant: an INSERT whose answer was an error is made again.
InsertCheckpointAgain ==
    /\ pc = "insert"
    /\ checkpoints' = Append(checkpoints, [file |-> curfile, numbers |-> numbers])
    /\ \/ pc' = "open" /\ UNCHANGED harm
       \/ Fails("insert") /\ UNCHANGED pc
    /\ UNCHANGED <<errLog, hour, calls, list, done, stamp, curfile, opened, numbers,
                   files, logged>>

\* Mutant: the row is that of the new file, as in the call that is commented out.
InsertCheckpointOfNew ==
    /\ pc = "insert"
    /\ checkpoints' = Append(checkpoints, [file |-> stamp, numbers |-> numbers])
    /\ numbers' = 0
    /\ pc' = "open"
    /\ UNCHANGED <<errLog, hour, calls, list, done, stamp, curfile, opened, files,
                   logged, harm>>

\* The INSERT; an error may come before or after MySQL has the row.
InsertCheckpoint ==
    LET inserted == Append(checkpoints, [file |-> curfile, numbers |-> numbers])
    IN  /\ pc = "insert"
        /\ \/ checkpoints' = inserted /\ UNCHANGED harm
           \/ Fails("insert") /\ checkpoints' \in {inserted, checkpoints}
        /\ numbers' = 0
        /\ pc' = "open"
        /\ UNCHANGED <<errLog, hour, calls, list, done, stamp, curfile, opened, files,
                       logged>>

\* Mutant: without O_APPEND, with O_TRUNC.
OpenFileTruncating ==
    /\ pc = "open"
    /\ curfile' = stamp
    /\ opened' = TRUE
    /\ files' = [files EXCEPT ![stamp] = <<>>]
    /\ pc' = "print"
    /\ UNCHANGED <<errLog, hour, calls, list, done, stamp, numbers, checkpoints,
                   logged, harm>>

\* The error of os.OpenFile is dropped, and ms_curfile set in any case.
OpenFile ==
    /\ pc = "open"
    /\ curfile' = stamp
    /\ \/ opened' = TRUE /\ UNCHANGED harm
       \/ opened' = FALSE /\ Fails("open")
    /\ pc' = "print"
    /\ UNCHANGED <<errLog, hour, calls, list, done, stamp, numbers, files, checkpoints,
                   logged>>

\* Mutant: the count is compared after the next line.
AfterLineLate == IF done = Batch THEN [pc |-> "wait", done |-> 0]
                 ELSE [pc |-> "batch", done |-> done + 1]

\* A full batch lets go of the lock, and the writer waits for the timer.
AfterLine == IF done + 1 = Batch THEN [pc |-> "wait", done |-> 0]
             ELSE [pc |-> "batch", done |-> done + 1]

\* Println, whose error is dropped (there always is one when the file could
\* not be opened); the line leaves the list in any case.
PrintLine ==
    /\ pc = "print"
    /\ \/ /\ opened
          /\ files' = [files EXCEPT ![curfile] = Append(@, Head(list))]
          /\ UNCHANGED harm
       \/ opened /\ Fails("print") /\ UNCHANGED files
       \/ ~opened /\ UNCHANGED <<files, harm>>
    /\ list' = Tail(list)
    /\ pc' = AfterLine.pc
    /\ done' = AfterLine.done
    /\ UNCHANGED <<errLog, hour, calls, stamp, curfile, opened, numbers, checkpoints,
                   logged>>

Write_Log == BeginLine \/ CountLines \/ InsertCheckpoint \/ OpenFile \/ PrintLine

Start_Log == Tick \/ EndBatch \/ Write_Log

-----------------------------------------------------------------------------
(***************************************************************************)
(* The clock and the process.                                              *)
(***************************************************************************)
NextHour ==
    /\ hour < MaxHour
    /\ hour' = hour + 1
    /\ UNCHANGED <<errLog, calls, memory, files, checkpoints, logged, harm>>

SetBack ==
    /\ hour > 0
    /\ harm["setback"] < MaxSetbacks
    /\ hour' = hour - 1
    /\ harm' = [harm EXCEPT !["setback"] = @ + 1]
    /\ UNCHANGED <<errLog, calls, memory, files, checkpoints, logged>>

\* The process dies and starts again with a new Logger.
Crash ==
    /\ harm["crash"] < MaxCrashes
    /\ harm' = [harm EXCEPT !["crash"] = @ + 1]
    /\ calls' = [l \in Line |-> IF calls[l] = "calling" THEN "lost" ELSE calls[l]]
    /\ list' = <<>>
    /\ pc' = "wait"
    /\ done' = 0
    /\ curfile' = None
    /\ opened' = FALSE
    /\ stamp' = 0
    /\ numbers' = 0
    /\ UNCHANGED <<errLog, hour, files, checkpoints, logged>>

Next == \/ \E l \in Line : CallLogFile(l) \/ LogFile(l)
        \/ Start_Log
        \/ NextHour \/ SetBack \/ Crash

Spec == Init /\ [][Next]_vars

\* The timer fires and the disk answers; the connection to MySQL has no read
\* timeout, so nothing makes the INSERT end.  A caller that waits for the lock
\* again and again gets it: sync.Mutex hands it over to a starving goroutine.
FairSpec ==
    /\ Spec
    /\ WF_vars(pc # "insert" /\ Start_Log)
    /\ \A l \in Line : SF_vars(LogFile(l))

-----------------------------------------------------------------------------
(***************************************************************************)
(* Properties.                                                             *)
(***************************************************************************)
Without(kinds) == \A k \in kinds : harm[k] = 0

\* Each place a line can be in: a position of a file, or of the list.
PlacesIn(h, l) == {k \in DOMAIN files[h] : files[h][k] = l}
Places(l) == UNION {{h} \X PlacesIn(h, l) : h \in Hour}
Queued(l) == {k \in DOMAIN list : list[k] = l}

Position(s, l) == CHOOSE k \in DOMAIN s : s[k] = l

\* A line is written at most once, whatever fails and whatever the clock does;
\* and if neither an open nor a write failed and the process did not die, each
\* accepted line is in a file or still in the list.
LinesOnce ==
    \A l \in Line :
        LET n == Cardinality(Places(l)) + Cardinality(Queued(l))
        IN  /\ n <= (IF calls[l] = "returned" THEN 1 ELSE 0)
            /\ Without({"open", "print", "crash"}) /\ calls[l] = "returned" => n = 1

\* The lines of a file are in the order in which LogFile accepted them, across
\* batches, restarts and clock changes; and across files, unless the clock was
\* set back.
FilesInOrder ==
    \A g, h \in Hour : \A j \in DOMAIN files[g], k \in DOMAIN files[h] :
        (g = h /\ j < k) \/ (g < h /\ Without({"setback"})) =>
            Position(logged, files[g][j]) < Position(logged, files[h][k])

\* The loader can trust a checkpoint: unless the clock is set back, a file gets
\* at most one, not before its last line, and the numbers are its lines.
CheckpointsFinal ==
    /\ Without({"setback"}) =>
          \A j \in DOMAIN checkpoints :
              /\ checkpoints[j].numbers = Len(files[checkpoints[j].file])
              /\ \A k \in DOMAIN checkpoints :
                    checkpoints[j].file = checkpoints[k].file => j = k
    /\ errLog => checkpoints = <<>>

\* Every file the logger has left for another one has a checkpoint with all its
\* lines, also when the clock is set back, if the process did not die, no count
\* or INSERT failed and it has no overlong line.
LeftFilesCheckpointed ==
    ~errLog /\ Without({"count", "insert", "crash"}) =>
        \A h \in Hour \ {curfile} :
            (files[h] # <<>> /\ \A k \in DOMAIN files[h] : files[h][k] \notin Long) =>
                \E c \in DOMAIN checkpoints :
                    checkpoints[c] = [file |-> h, numbers |-> Len(files[h])]

\* Every call of LogFile returns and its line leaves the list, written or not,
\* unless the process dies or an INSERT that is never answered keeps the lock:
\* then every caller waits with the writer.
EveryLineHandled ==
    \A l \in Line :
        (calls[l] = "calling") ~> \/ calls[l] # "calling" /\ Queued(l) = {}
                                  \/ [](pc = "insert")
=============================================================================
