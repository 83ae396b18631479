------------------------- MODULE LogPipelineProofs -------------------------
(***************************************************************************)
(* The file logger loses and repeats no line, keeps their order and counts *)
(* each file once, for any set of lines, batch size, number of hours and   *)
(* bounds on what goes wrong.                                              *)
(*                                                                         *)
(* Every line that is in a file was accepted before every line that is     *)
(* still in the list (Ordered), so that the line which is printed next is  *)
(* the latest of all files.  As long as the clock is not set back, nothing *)
(* is in a file later than the one being written, and no checkpoint is of  *)
(* that file or a later one (OnTime), so that a file which was counted is  *)
(* not written any more.                                                   *)
(***************************************************************************)
EXTENDS LogPipeline, FiniteSetTheorems, TLAPS

\* The writer has taken a line and read the clock for it.
InLine == pc \notin {"wait", "batch"}

\* What the writer holds at each of its steps.
Held ==
    /\ pc \in {"count", "insert"} => ~errLog /\ curfile # None
    /\ pc = "print" <=> InLine /\ curfile = stamp
    /\ pc = "insert" => numbers = Len(files[curfile])
    /\ curfile # None /\ harm["open"] = 0 => opened

TypeInv == TypeOK /\ Held

Where(l) == Position(logged, l)

\* The log has each accepted line once.
Log ==
    /\ \A j, k \in DOMAIN logged : logged[j] = logged[k] => j = k
    /\ \A l \in Line : calls[l] = "returned" <=> \E k \in DOMAIN logged : logged[k] = l

\* What is in the list or a file was accepted; the list and each file are in
\* the order of the log, all files come before the list, and no line is in two
\* files.
Ordered ==
    /\ \A k \in DOMAIN list : calls[list[k]] = "returned"
    /\ \A h \in Hour : \A j \in DOMAIN files[h] : calls[files[h][j]] = "returned"
    /\ \A j, k \in DOMAIN list : j < k => Where(list[j]) < Where(list[k])
    /\ \A h \in Hour : \A j, k \in DOMAIN files[h] :
          j < k => Where(files[h][j]) < Where(files[h][k])
    /\ \A h \in Hour : \A j \in DOMAIN files[h], k \in DOMAIN list :
          Where(files[h][j]) < Where(list[k])
    /\ \A g, h \in Hour : \A j \in DOMAIN files[g], k \in DOMAIN files[h] :
          g # h => files[g][j] # files[h][k]

\* If nothing failed that loses a line, each accepted one is somewhere.
Somewhere(l) ==
    \/ \E k \in DOMAIN list : list[k] = l
    \/ \E h \in Hour : \E k \in DOMAIN files[h] : files[h][k] = l

Kept ==
    Without({"open", "print", "crash"}) =>
        \A l \in Line : calls[l] = "returned" => Somewhere(l)

\* Unless the clock was set back: the hours that have files, and the file that
\* is open, are not later than the clock, nor than the hour read for the line.
FilesOnTime ==
    /\ InLine => stamp <= hour
    /\ curfile # None => curfile <= hour /\ (InLine => curfile <= stamp)
    /\ \A h \in Hour : files[h] # <<>> => h <= hour /\ (InLine => h <= stamp)
    /\ \A g, h \in Hour : \A j \in DOMAIN files[g], k \in DOMAIN files[h] :
          g < h => Where(files[g][j]) < Where(files[h][k])

\* And the checkpoints are of earlier files, complete and one for each; the
\* file that is open gets its row just before it is left.
RowsOnTime ==
    \A j \in DOMAIN checkpoints :
        /\ checkpoints[j].file < hour /\ (InLine => checkpoints[j].file < stamp)
        /\ pc # "open" => checkpoints[j].file # curfile
        /\ checkpoints[j].numbers = Len(files[checkpoints[j].file])
        /\ \A k \in DOMAIN checkpoints :
              checkpoints[j].file = checkpoints[k].file => j = k

OnTime == Without({"setback"}) => FilesOnTime /\ RowsOnTime

\* A file of errors has no row.
NoErrRows == errLog => checkpoints = <<>>

\* Every file that was left, and the one that is about to be, has its row.
HasRow(h) ==
    \E c \in DOMAIN checkpoints : checkpoints[c] = [file |-> h, numbers |-> Len(files[h])]

Countable(h) == files[h] # <<>> /\ \A k \in DOMAIN files[h] : files[h][k] \notin Long

LeftHaveRows ==
    ~errLog /\ Without({"count", "insert", "crash"}) =>
        \A h \in Hour : (h # curfile \/ pc = "open") /\ Countable(h) => HasRow(h)

LogInv == TypeInv /\ Log /\ Ordered /\ Kept /\ OnTime /\ NoErrRows /\ LeftHaveRows

-----------------------------------------------------------------------------
(***************************************************************************)
(* Sequences.                                                              *)
(***************************************************************************)

\* In a sequence without repetitions a member has one position.
LEMMA PositionOf ==
    ASSUME NEW s \in Seq(Line), \A j, k \in DOMAIN s : s[j] = s[k] => j = k,
           NEW k \in DOMAIN s
    PROVE  Position(s, s[k]) = k
<1>1. \E j \in DOMAIN s : s[j] = s[k]
  OBVIOUS
<1>2. Position(s, s[k]) \in DOMAIN s /\ s[Position(s, s[k])] = s[k]
  BY <1>1 DEF Position
<1>3. QED
  BY <1>2

\* An accepted line has a position in the log.
LEMMA WhereType ==
    ASSUME LogInv, NEW l \in Line, calls[l] = "returned"
    PROVE  Where(l) \in Int
<1>1. PICK n \in DOMAIN logged : logged[n] = l
  BY DEF LogInv, Log
<1>2. logged \in Seq(Line) /\ \A p, q \in DOMAIN logged : logged[p] = logged[q] => p = q
  BY DEF LogInv, TypeInv, TypeOK, Log
<1>3. Where(l) = n
  BY <1>1, <1>2, PositionOf DEF Where
<1>4. QED
  BY <1>2, <1>3

\* A row of load_checkpoint is of an hour.
LEMMA RowHour ==
    ASSUME LogInv
    PROVE  \A j \in DOMAIN checkpoints : checkpoints[j].file \in Hour
<1>1. checkpoints \in Seq(Checkpoint)
  BY DEF LogInv, TypeInv, TypeOK
<1>2. \A j \in DOMAIN checkpoints : checkpoints[j] \in Checkpoint
  BY <1>1
<1>3. QED
  BY <1>2 DEF Checkpoint

\* The members of a sequence with one more at the end.
LEMMA AppendElements ==
    ASSUME NEW s \in Seq(Line), NEW l \in Line
    PROVE  /\ Append(s, l) \in Seq(Line) /\ Append(s, l) # <<>>
           /\ Len(s) \in Nat /\ DOMAIN s = 1..Len(s)
           /\ Len(Append(s, l)) = Len(s) + 1
           /\ DOMAIN Append(s, l) = 1..(Len(s) + 1)
           /\ \A j \in DOMAIN s : Append(s, l)[j] = s[j]
           /\ Append(s, l)[Len(s) + 1] = l
OBVIOUS

LEMMA TailElements ==
    ASSUME NEW s \in Seq(Line), s # <<>>
    PROVE  /\ Tail(s) \in Seq(Line) /\ Head(s) \in Line /\ Head(s) = s[1]
           /\ Len(s) \in Nat /\ DOMAIN s = 1..Len(s) /\ 1 \in DOMAIN s
           /\ DOMAIN Tail(s) = 1..(Len(s) - 1)
           /\ \A j \in DOMAIN Tail(s) : j + 1 \in DOMAIN s /\ Tail(s)[j] = s[j + 1]
<1>1. /\ Len(s) \in Nat /\ Len(s) > 0 /\ DOMAIN s = 1..Len(s)
      /\ Tail(s) \in Seq(Line) /\ Head(s) = s[1] /\ Len(Tail(s)) = Len(s) - 1
  OBVIOUS
<1>2. DOMAIN Tail(s) = 1..(Len(s) - 1)
  BY <1>1
<1>3. \A j \in DOMAIN Tail(s) : j + 1 \in DOMAIN s /\ Tail(s)[j] = s[j + 1]
  BY <1>1, <1>2
<1>4. QED
  BY <1>1, <1>2, <1>3

\* A line that is new in a sequence comes last, and moves no other.
LEMMA AppendPosition ==
    ASSUME NEW s \in Seq(Line), \A j, k \in DOMAIN s : s[j] = s[k] => j = k,
           NEW l \in Line, \A k \in DOMAIN s : s[k] # l
    PROVE  /\ \A j, k \in DOMAIN Append(s, l) : Append(s, l)[j] = Append(s, l)[k] => j = k
           /\ \A k \in DOMAIN s : Position(Append(s, l), s[k]) = Position(s, s[k])
           /\ \A k \in DOMAIN s : Position(s, s[k]) < Position(Append(s, l), l)
<1>1. /\ Append(s, l) \in Seq(Line) /\ Len(s) \in Nat /\ DOMAIN s = 1..Len(s)
      /\ DOMAIN Append(s, l) = 1..(Len(s) + 1)
      /\ \A j \in DOMAIN s : Append(s, l)[j] = s[j]
      /\ Append(s, l)[Len(s) + 1] = l
  BY AppendElements
<1>2. \A j, k \in DOMAIN Append(s, l) : Append(s, l)[j] = Append(s, l)[k] => j = k
  <2> SUFFICES ASSUME NEW j \in DOMAIN Append(s, l), NEW k \in DOMAIN Append(s, l),
                      Append(s, l)[j] = Append(s, l)[k]
               PROVE  j = k
    OBVIOUS
  <2>1. (j \in DOMAIN s \/ j = Len(s) + 1) /\ (k \in DOMAIN s \/ k = Len(s) + 1)
    BY <1>1
  <2>2. QED
    BY <1>1, <2>1
<1>3. Position(Append(s, l), l) = Len(s) + 1
  <2>1. Len(s) + 1 \in DOMAIN Append(s, l)
    BY <1>1
  <2>2. QED
    BY <1>1, <1>2, <2>1, PositionOf
<1>4. ASSUME NEW k \in DOMAIN s
      PROVE  Position(s, s[k]) = k /\ Position(Append(s, l), s[k]) = k /\ k < Len(s) + 1
  <2>1. k \in DOMAIN Append(s, l) /\ Append(s, l)[k] = s[k] /\ k < Len(s) + 1
    BY <1>1
  <2>2. Position(Append(s, l), Append(s, l)[k]) = k
    BY <1>1, <1>2, <2>1, PositionOf
  <2>3. QED
    BY <2>1, <2>2, PositionOf
<1>5. QED
  BY <1>2, <1>3, <1>4

-----------------------------------------------------------------------------
(***************************************************************************)
(* What went wrong stays noted.                                            *)
(***************************************************************************)
StillNoted == harm' \in [Harm -> Nat] /\ \A k \in Harm : harm'[k] = 0 => harm[k] = 0

LEMMA NoteOneMore ==
    ASSUME harm \in [Harm -> Nat], NEW kind \in Harm,
           harm' = [harm EXCEPT ![kind] = @ + 1]
    PROVE  StillNoted /\ harm'[kind] # 0
<1>1. harm[kind] \in Nat /\ harm'[kind] = harm[kind] + 1
  OBVIOUS
<1>2. \A k \in Harm : k # kind => harm'[k] = harm[k]
  OBVIOUS
<1>3. harm' \in [Harm -> Nat]
  BY <1>1
<1>4. QED
  BY <1>1, <1>2, <1>3 DEF StillNoted

LEMMA NothingNoted ==
    ASSUME harm \in [Harm -> Nat], UNCHANGED harm
    PROVE  StillNoted
BY DEF StillNoted

LEMMA NoteFails ==
    ASSUME harm \in [Harm -> Nat], NEW kind \in Harm, Fails(kind)
    PROVE  StillNoted /\ harm'[kind] # 0
<1>1. harm' = [harm EXCEPT ![kind] = @ + 1]
  BY DEF Fails
<1>2. QED
  BY <1>1, NoteOneMore

LEMMA StillWithout ==
    ASSUME StillNoted, NEW kinds \in SUBSET Harm, Without(kinds)'
    PROVE  Without(kinds)
BY DEF StillNoted, Without

-----------------------------------------------------------------------------
(***************************************************************************)
(* What the steps leave alone.                                             *)
(***************************************************************************)
\* The order is the log's, whatever else moves; lines only leave the list.
LEMMA AcceptedStay ==
    ASSUME LogInv, UNCHANGED <<files, logged, list, harm>>,
           \A l \in Line : calls'[l] = "returned" <=> calls[l] = "returned"
    PROVE  Ordered' /\ Kept'
<1>1. /\ \A k \in DOMAIN list : list[k] \in Line
      /\ \A h \in Hour : \A k \in DOMAIN files[h] : files[h][k] \in Line
  BY DEF LogInv, TypeInv, TypeOK
<1>2. Ordered'
  BY <1>1 DEF LogInv, Ordered, Where
<1>3. Kept'
  BY DEF LogInv, Kept, Somewhere, Without
<1>4. QED
  BY <1>2, <1>3

Lines == <<calls, list, files, logged>>

LEMMA LinesStay ==
    ASSUME LogInv, UNCHANGED Lines, StillNoted
    PROVE  Log' /\ Ordered' /\ Kept'
<1>1. calls' = calls /\ list' = list /\ files' = files /\ logged' = logged
  BY DEF Lines
<1>2. Log'
  BY <1>1 DEF LogInv, Log
<1>3. Ordered'
  BY <1>1 DEF LogInv, Ordered, Where
<1>4. Kept'
  <2>1. {"open", "print", "crash"} \subseteq Harm
    BY DEF Harm
  <2>2. ASSUME Without({"open", "print", "crash"})' PROVE Without({"open", "print", "crash"})
    BY <2>1, <2>2, StillWithout
  <2>3. QED
    BY <1>1, <2>2 DEF LogInv, Kept, Somewhere
<1>5. QED
  BY <1>2, <1>3, <1>4

LEMMA LogInit == Init => LogInv
<1> SUFFICES ASSUME Init PROVE LogInv
  OBVIOUS
<1>1. /\ list = <<>> /\ logged = <<>> /\ checkpoints = <<>> /\ curfile = None /\ pc = "wait"
      /\ \A h \in Hour : files[h] = <<>>
      /\ \A l \in Line : calls[l] = "none"
      /\ DOMAIN list = {} /\ DOMAIN logged = {} /\ DOMAIN checkpoints = {}
      /\ \A h \in Hour : DOMAIN files[h] = {}
  BY DEF Init
<1>2. TypeOK
  <2>1. 0 \in Hour
    BY BoundAssumption DEF Hour
  <2>2. files \in [Hour -> Seq(Line)] /\ list \in Seq(Line) /\ logged \in Seq(Line)
        /\ checkpoints \in Seq(Checkpoint)
    BY DEF Init
  <2>3. calls \in [Line -> {"none", "calling", "returned", "lost"}] /\ harm \in [Harm -> Nat]
    BY DEF Init
  <2>4. done \in 0..(Batch - 1)
    BY BatchAssumption DEF Init
  <2>5. opened \in BOOLEAN /\ errLog \in BOOLEAN
    BY DEF Init
  <2>6. hour \in Hour /\ stamp \in Hour /\ numbers \in Nat
    BY <2>1 DEF Init
  <2>7. QED
    BY <1>1, <2>2, <2>3, <2>4, <2>5, <2>6 DEF TypeOK, Label
<1>3. Held
  BY <1>1 DEF Held, InLine
<1>4. Log /\ Ordered
  BY <1>1 DEF Log, Ordered
<1>5. Kept
  BY <1>1 DEF Kept
<1>6. OnTime
  BY <1>1 DEF OnTime, FilesOnTime, RowsOnTime, InLine
<1>7. NoErrRows /\ LeftHaveRows
  BY <1>1 DEF NoErrRows, LeftHaveRows, Countable
<1>8. QED
  BY <1>2, <1>3, <1>4, <1>5, <1>6, <1>7 DEF LogInv, TypeInv

-----------------------------------------------------------------------------
(***************************************************************************)
(* Callers.                                                                *)
(***************************************************************************)
LEMMA CallKeeps ==
    ASSUME LogInv, NEW l \in Line, CallLogFile(l)
    PROVE  LogInv'
<1>1. /\ UNCHANGED <<errLog, hour, list, pc, done, stamp, curfile, opened, numbers, files,
                     checkpoints, logged, harm>>
      /\ calls[l] = "none" /\ calls' = [calls EXCEPT ![l] = "calling"]
      /\ calls \in [Line -> {"none", "calling", "returned", "lost"}]
  BY DEF CallLogFile, memory, LogInv, TypeInv, TypeOK
<1>2. /\ calls' \in [Line -> {"none", "calling", "returned", "lost"}]
      /\ \A m \in Line : calls'[m] = "returned" <=> calls[m] = "returned"
  BY <1>1
<1>3. TypeInv'
  BY <1>1, <1>2 DEF LogInv, TypeInv, TypeOK, Held, InLine
<1>4. Log'
  BY <1>1, <1>2 DEF LogInv, Log
<1>5. Ordered' /\ Kept'
  BY <1>1, <1>2, AcceptedStay
<1>6. OnTime' /\ NoErrRows' /\ LeftHaveRows'
  BY <1>1 DEF LogInv, OnTime, FilesOnTime, RowsOnTime, InLine, Where, Without, NoErrRows,
              LeftHaveRows, Countable, HasRow
<1>7. QED
  BY <1>3, <1>4, <1>5, <1>6 DEF LogInv

\* The line is put behind all others, in the list and in the log.
LEMMA LogFileKeeps ==
    ASSUME LogInv, NEW l \in Line, LogFile(l)
    PROVE  LogInv'
<1>1. /\ UNCHANGED <<errLog, hour, pc, done, stamp, curfile, opened, numbers, files,
                     checkpoints, harm>>
      /\ calls[l] = "calling" /\ calls' = [calls EXCEPT ![l] = "returned"]
      /\ list' = Append(list, l) /\ logged' = Append(logged, l)
      /\ list \in Seq(Line) /\ logged \in Seq(Line) /\ pc = "wait"
      /\ files \in [Hour -> Seq(Line)]
      /\ calls \in [Line -> {"none", "calling", "returned", "lost"}]
  BY DEF LogFile, LogInv, TypeInv, TypeOK
<1>2. /\ calls' \in [Line -> {"none", "calling", "returned", "lost"}]
      /\ calls'[l] = "returned"
      /\ \A m \in Line \ {l} : calls'[m] = calls[m]
  BY <1>1
<1>3. /\ list' \in Seq(Line) /\ DOMAIN list = 1..Len(list) /\ Len(list) \in Nat
      /\ DOMAIN list' = 1..(Len(list) + 1) /\ list'[Len(list) + 1] = l
      /\ \A k \in DOMAIN list : list'[k] = list[k]
  BY <1>1, AppendElements
<1>4. /\ logged' \in Seq(Line) /\ DOMAIN logged = 1..Len(logged) /\ Len(logged) \in Nat
      /\ DOMAIN logged' = 1..(Len(logged) + 1) /\ logged'[Len(logged) + 1] = l
      /\ \A k \in DOMAIN logged : logged'[k] = logged[k]
  BY <1>1, AppendElements
<1>5. \A k \in DOMAIN logged : logged[k] # l
  BY <1>1 DEF LogInv, Log
<1>6. /\ \A j, k \in DOMAIN logged' : logged'[j] = logged'[k] => j = k
      /\ \A k \in DOMAIN logged : Position(logged', logged[k]) = Position(logged, logged[k])
      /\ \A k \in DOMAIN logged : Position(logged, logged[k]) < Position(logged', l)
  <2>1. \A j, k \in DOMAIN logged : logged[j] = logged[k] => j = k
    BY DEF LogInv, Log
  <2>2. QED
    BY <1>1, <1>5, <2>1, AppendPosition
<1>7. \A m \in Line : calls[m] = "returned" =>
          /\ Where(m)' = Where(m) /\ Where(m) < Where(l)'
          /\ calls'[m] = "returned"
  <2> SUFFICES ASSUME NEW m \in Line, calls[m] = "returned"
               PROVE  /\ Where(m)' = Where(m) /\ Where(m) < Where(l)'
                      /\ calls'[m] = "returned"
    OBVIOUS
  <2>1. PICK k \in DOMAIN logged : logged[k] = m
    BY DEF LogInv, Log
  <2>2. m # l
    BY <1>1
  <2>3. QED
    BY <1>2, <1>6, <2>1, <2>2 DEF Where
<1>8. Log'
  <2>1. ASSUME NEW m \in Line, calls'[m] = "returned"
        PROVE  \E k \in DOMAIN logged' : logged'[k] = m
    <3>1. CASE m = l
      BY <1>4, <3>1
    <3>2. CASE m # l
      <4>1. PICK k \in DOMAIN logged : logged[k] = m
        BY <1>2, <2>1, <3>2 DEF LogInv, Log
      <4>2. QED
        BY <1>4, <4>1
    <3>3. QED
      BY <3>1, <3>2
  <2>2. ASSUME NEW k \in DOMAIN logged' PROVE calls'[logged'[k]] = "returned"
    <3>1. CASE k \in DOMAIN logged
      <4>1. logged[k] \in Line
        BY <1>1, <3>1
      <4>2. calls[logged[k]] = "returned"
        BY <3>1, <4>1 DEF LogInv, Log
      <4>3. QED
        BY <1>4, <1>7, <3>1, <4>1, <4>2
    <3>2. CASE k = Len(logged) + 1
      BY <1>2, <1>4, <3>2
    <3>3. QED
      BY <1>4, <3>1, <3>2
  <2>3. QED
    BY <1>6, <2>1, <2>2 DEF Log
<1>9. \A k \in DOMAIN list : list[k] \in Line /\ calls[list[k]] = "returned"
  BY <1>1 DEF LogInv, Ordered
<1>10. \A h \in Hour : \A j \in DOMAIN files[h] :
           files[h][j] \in Line /\ calls[files[h][j]] = "returned"
  BY <1>1 DEF LogInv, Ordered
<1>11. Ordered'
  <2>1. ASSUME NEW k \in DOMAIN list'
        PROVE  \/ k \in DOMAIN list /\ list'[k] = list[k]
               \/ k = Len(list) + 1 /\ list'[k] = l
    BY <1>3
  <2>2. \A k \in DOMAIN list' : calls'[list'[k]] = "returned"
    BY <1>2, <1>7, <1>9, <2>1
  <2>3. \A h \in Hour : \A j \in DOMAIN files'[h] : calls'[files'[h][j]] = "returned"
    BY <1>1, <1>7, <1>10
  <2>4. ASSUME NEW j \in DOMAIN list', NEW k \in DOMAIN list', j < k
        PROVE  Where(list[j])' < Where(list[k])'
    <3>1. j \in DOMAIN list /\ list'[j] = list[j]
      BY <1>3, <2>4
    <3>2. CASE k \in DOMAIN list /\ list'[k] = list[k]
      <4>1. Where(list[j]) < Where(list[k])
        BY <2>4, <3>1, <3>2 DEF LogInv, Ordered
      <4>2. QED
        BY <1>7, <1>9, <3>1, <3>2, <4>1 DEF Where
    <3>3. CASE list'[k] = l
      BY <1>7, <1>9, <3>1, <3>3 DEF Where
    <3>4. QED
      BY <2>1, <3>2, <3>3
  <2>5. ASSUME NEW h \in Hour, NEW j \in DOMAIN files'[h], NEW k \in DOMAIN files'[h], j < k
        PROVE  Where(files[h][j])' < Where(files[h][k])'
    <3>1. Where(files[h][j]) < Where(files[h][k])
      BY <1>1, <2>5 DEF LogInv, Ordered
    <3>2. QED
      BY <1>1, <1>7, <1>10, <3>1 DEF Where
  <2>6. ASSUME NEW h \in Hour, NEW j \in DOMAIN files'[h], NEW k \in DOMAIN list'
        PROVE  Where(files[h][j])' < Where(list[k])'
    <3>1. CASE k \in DOMAIN list /\ list'[k] = list[k]
      <4>1. Where(files[h][j]) < Where(list[k])
        BY <1>1, <3>1 DEF LogInv, Ordered
      <4>2. QED
        BY <1>1, <1>7, <1>9, <1>10, <3>1, <4>1 DEF Where
    <3>2. CASE list'[k] = l
      BY <1>1, <1>7, <1>10, <3>2 DEF Where
    <3>3. QED
      BY <2>1, <3>1, <3>2
  <2>7. \A g, h \in Hour : \A j \in DOMAIN files'[g], k \in DOMAIN files'[h] :
            g # h => files'[g][j] # files'[h][k]
    BY <1>1 DEF LogInv, Ordered
  <2>8. QED
    BY <2>2, <2>3, <2>4, <2>5, <2>6, <2>7 DEF Ordered
<1>12. Kept'
  <2> SUFFICES ASSUME Without({"open", "print", "crash"})', NEW m \in Line,
                      calls'[m] = "returned"
               PROVE  Somewhere(m)'
    BY DEF Kept
  <2>1. Without({"open", "print", "crash"})
    BY <1>1 DEF Without
  <2>2. CASE m = l
    BY <1>3, <2>2 DEF Somewhere
  <2>3. CASE m # l
    <3>1. Somewhere(m)
      BY <1>2, <2>1, <2>3 DEF LogInv, Kept
    <3>2. ASSUME NEW k \in DOMAIN list, list[k] = m PROVE \E j \in DOMAIN list' : list'[j] = m
      BY <1>3, <3>2
    <3>3. QED
      BY <1>1, <3>1, <3>2 DEF Somewhere
  <2>4. QED
    BY <2>2, <2>3
<1>13. OnTime'
  <2> SUFFICES ASSUME Without({"setback"})' PROVE FilesOnTime' /\ RowsOnTime'
    BY DEF OnTime
  <2>1. FilesOnTime /\ RowsOnTime
    BY <1>1 DEF LogInv, OnTime, Without
  <2>2. ASSUME NEW g \in Hour, NEW h \in Hour, NEW j \in DOMAIN files[g],
               NEW k \in DOMAIN files[h], g < h
        PROVE  Where(files[g][j])' < Where(files[h][k])'
    <3>1. Where(files[g][j]) < Where(files[h][k])
      BY <2>1, <2>2 DEF FilesOnTime
    <3>2. QED
      BY <1>1, <1>7, <1>10, <3>1 DEF Where
  <2>3. FilesOnTime'
    BY <1>1, <2>1, <2>2 DEF FilesOnTime, InLine
  <2>4. RowsOnTime'
    BY <1>1, <2>1 DEF RowsOnTime, InLine
  <2>5. QED
    BY <2>3, <2>4
<1>14. TypeInv'
  BY <1>1, <1>2, <1>3, <1>4 DEF LogInv, TypeInv, TypeOK, Held, InLine
<1>15. NoErrRows' /\ LeftHaveRows'
  BY <1>1 DEF LogInv, NoErrRows, LeftHaveRows, Countable, HasRow, Without
<1>16. QED
  BY <1>8, <1>11, <1>12, <1>13, <1>14, <1>15 DEF LogInv

-----------------------------------------------------------------------------
(***************************************************************************)
(* The writer.                                                             *)
(***************************************************************************)
LEMMA TickKeeps ==
    ASSUME LogInv, Tick \/ EndBatch
    PROVE  LogInv'
<1>1. /\ UNCHANGED <<errLog, hour, calls, list, stamp, curfile, opened, numbers, files,
                     checkpoints, logged, harm>>
      /\ pc \in {"wait", "batch"} /\ pc' \in {"wait", "batch"}
      /\ done' \in {0, done}
  BY DEF Tick, EndBatch
<1>2. TypeInv'
  <2>1. done' \in 0..(Batch - 1) /\ pc' \in Label
    BY <1>1, BatchAssumption DEF LogInv, TypeInv, TypeOK, Label
  <2>2. TypeOK'
    BY <1>1, <2>1 DEF LogInv, TypeInv, TypeOK
  <2>3. Held'
    BY <1>1 DEF LogInv, TypeInv, Held, InLine
  <2>4. QED
    BY <2>2, <2>3 DEF TypeInv
<1>3. Log' /\ Ordered' /\ Kept'
  BY <1>1, LinesStay, NothingNoted DEF Lines, LogInv, TypeInv, TypeOK
<1>4. OnTime'
  BY <1>1 DEF LogInv, OnTime, FilesOnTime, RowsOnTime, InLine, Where, Without
<1>5. NoErrRows' /\ LeftHaveRows'
  BY <1>1 DEF LogInv, NoErrRows, LeftHaveRows, Countable, HasRow, Without
<1>6. QED
  BY <1>2, <1>3, <1>4, <1>5 DEF LogInv

\* The hour is read once for the line; the open file is not a later one.
LEMMA BeginLineKeeps ==
    ASSUME LogInv, BeginLine
    PROVE  LogInv'
<1>1. /\ UNCHANGED <<errLog, hour, calls, list, done, curfile, opened, numbers, files,
                     checkpoints, logged, harm>>
      /\ pc = "batch" /\ list # <<>> /\ stamp' = hour /\ hour \in Nat
      /\ pc' = IF curfile = hour THEN "print"
               ELSE IF curfile = None \/ errLog THEN "open" ELSE "count"
  BY DEF BeginLine, LogInv, TypeInv, TypeOK, Hour
<1>2. pc' \in {"print", "open", "count"}
  BY <1>1
<1>3. TypeInv'
  <2>1. TypeOK'
    BY <1>1, <1>2 DEF LogInv, TypeInv, TypeOK, Label
  <2>2. Held'
    BY <1>1, <1>2 DEF LogInv, TypeInv, Held, InLine
  <2>3. QED
    BY <2>1, <2>2 DEF TypeInv
<1>4. Log' /\ Ordered' /\ Kept'
  BY <1>1, LinesStay, NothingNoted DEF Lines, LogInv, TypeInv, TypeOK
<1>5. OnTime'
  <2> SUFFICES ASSUME Without({"setback"})' PROVE FilesOnTime' /\ RowsOnTime'
    BY DEF OnTime
  <2>1. FilesOnTime /\ RowsOnTime
    BY <1>1 DEF LogInv, OnTime, Without
  <2>2. FilesOnTime'
    BY <1>1, <2>1 DEF FilesOnTime, InLine, Where
  <2>3. RowsOnTime'
    BY <1>1, <1>2, <2>1 DEF RowsOnTime, InLine
  <2>4. QED
    BY <2>2, <2>3
<1>6. NoErrRows'
  BY <1>1 DEF LogInv, NoErrRows
<1>7. LeftHaveRows'
  <2> SUFFICES ASSUME ~errLog, Without({"count", "insert", "crash"}), NEW h \in Hour,
                      h # curfile \/ pc' = "open", Countable(h)
               PROVE  HasRow(h)
    BY <1>1 DEF LeftHaveRows, Without, Countable, HasRow
  <2>1. h # curfile
    BY <1>1, NoneAssumption
  <2>2. QED
    BY <2>1 DEF LogInv, LeftHaveRows
<1>8. QED
  BY <1>3, <1>4, <1>5, <1>6, <1>7 DEF LogInv

\* The numbers are those of the file; without them the row would be missing,
\* which is noted, or the file has none.
LEMMA CountLinesKeeps ==
    ASSUME LogInv, CountLines
    PROVE  LogInv'
<1>1. /\ UNCHANGED <<errLog, hour, calls, list, done, stamp, curfile, opened, files,
                     checkpoints, logged>>
      /\ pc = "count" /\ curfile # None /\ curfile # stamp /\ curfile \in Hour /\ ~errLog
      /\ files[curfile] \in Seq(Line) /\ harm \in [Harm -> Nat]
  BY DEF CountLines, LogInv, TypeInv, TypeOK, Held, InLine
<1>2. \/ /\ StillNoted /\ harm'["count"] # 0 /\ pc' = "open" /\ numbers' = numbers
      \/ /\ ~Countable(curfile) /\ harm' = harm /\ pc' = "open" /\ numbers' = numbers
      \/ /\ numbers' = Len(files[curfile]) /\ pc' = "insert" /\ harm' = harm
  <2>1. ASSUME Fails("count") PROVE StillNoted /\ harm'["count"] # 0
    BY <1>1, <2>1, NoteFails DEF Harm
  <2>2. QED
    BY <2>1 DEF CountLines, Countable
<1>3. StillNoted
  BY <1>1, <1>2, NothingNoted
<1>4. pc' \in {"open", "insert"} /\ numbers' \in Nat
  BY <1>1, <1>2 DEF LogInv, TypeInv, TypeOK
<1>5. TypeInv'
  <2>1. TypeOK'
    BY <1>1, <1>3, <1>4 DEF StillNoted, LogInv, TypeInv, TypeOK, Label
  <2>2. harm'["open"] = 0 => harm["open"] = 0
    BY <1>3 DEF StillNoted, Harm
  <2>3. Held'
    BY <1>1, <1>2, <1>4, <2>2 DEF LogInv, TypeInv, Held, InLine
  <2>4. QED
    BY <2>1, <2>3 DEF TypeInv
<1>6. Log' /\ Ordered' /\ Kept'
  BY <1>1, <1>3, LinesStay DEF Lines
<1>7. OnTime'
  <2> SUFFICES ASSUME Without({"setback"})' PROVE FilesOnTime' /\ RowsOnTime'
    BY DEF OnTime
  <2>1. FilesOnTime /\ RowsOnTime
    BY <1>3, StillWithout DEF LogInv, OnTime, Harm
  <2>2. FilesOnTime'
    BY <1>1, <1>4, <2>1 DEF FilesOnTime, InLine, Where
  <2>3. RowsOnTime'
    BY <1>1, <1>4, <2>1 DEF RowsOnTime, InLine
  <2>4. QED
    BY <2>2, <2>3
<1>8. NoErrRows'
  BY <1>1 DEF LogInv, NoErrRows
<1>9. LeftHaveRows'
  <2> SUFFICES ASSUME ~errLog, Without({"count", "insert", "crash"})', NEW h \in Hour,
                      h # curfile \/ pc' = "open", Countable(h)
               PROVE  HasRow(h)
    BY <1>1 DEF LeftHaveRows, Countable, HasRow
  <2>1. Without({"count", "insert", "crash"})
    BY <1>3, StillWithout DEF Harm
  <2>2. h # curfile
    BY <1>2 DEF Without
  <2>3. QED
    BY <2>1, <2>2 DEF LogInv, LeftHaveRows
<1>10. QED
  BY <1>5, <1>6, <1>7, <1>8, <1>9 DEF LogInv

\* The row of the open file, which is earlier than the line's and has none yet.
LEMMA InsertKeeps ==
    ASSUME LogInv, InsertCheckpoint
    PROVE  LogInv'
<1> DEFINE row == [file |-> curfile, numbers |-> numbers]
<1>1. /\ UNCHANGED <<errLog, hour, calls, list, done, stamp, curfile, opened, files, logged>>
      /\ pc = "insert" /\ pc' = "open" /\ numbers' = 0
      /\ curfile # None /\ curfile # stamp /\ curfile \in Hour /\ ~errLog
      /\ numbers = Len(files[curfile]) /\ numbers \in Nat
      /\ checkpoints \in Seq(Checkpoint) /\ harm \in [Harm -> Nat]
  BY DEF InsertCheckpoint, LogInv, TypeInv, TypeOK, Held, InLine
<1>2. \/ checkpoints' = Append(checkpoints, row) /\ harm' = harm
      \/ /\ StillNoted /\ harm'["insert"] # 0
         /\ checkpoints' = Append(checkpoints, row) \/ checkpoints' = checkpoints
  <2>1. ASSUME Fails("insert") PROVE StillNoted /\ harm'["insert"] # 0
    BY <1>1, <2>1, NoteFails DEF Harm
  <2>2. QED
    BY <2>1 DEF InsertCheckpoint
<1>3. StillNoted
  BY <1>1, <1>2, NothingNoted
<1>4. row \in Checkpoint /\ row.file = curfile /\ row.numbers = Len(files[curfile])
  BY <1>1 DEF Checkpoint
<1>5. /\ Len(checkpoints) \in Nat /\ DOMAIN checkpoints = 1..Len(checkpoints)
      /\ Append(checkpoints, row) \in Seq(Checkpoint)
      /\ DOMAIN Append(checkpoints, row) = 1..(Len(checkpoints) + 1)
      /\ \A j \in DOMAIN checkpoints : Append(checkpoints, row)[j] = checkpoints[j]
      /\ Append(checkpoints, row)[Len(checkpoints) + 1] = row
  <2> HIDE DEF row
  <2> QED BY <1>1, <1>4
<1> HIDE DEF row
<1>6. checkpoints' \in Seq(Checkpoint)
  BY <1>1, <1>2, <1>5
<1>7. TypeInv'
  <2>1. TypeOK'
    BY <1>1, <1>3, <1>6 DEF StillNoted, LogInv, TypeInv, TypeOK, Label
  <2>2. harm'["open"] = 0 => harm["open"] = 0
    BY <1>3 DEF StillNoted, Harm
  <2>3. Held'
    BY <1>1, <2>2 DEF LogInv, TypeInv, Held, InLine
  <2>4. QED
    BY <2>1, <2>3 DEF TypeInv
<1>8. Log' /\ Ordered' /\ Kept'
  BY <1>1, <1>3, LinesStay DEF Lines
<1>9. OnTime'
  <2> SUFFICES ASSUME Without({"setback"})' PROVE FilesOnTime' /\ RowsOnTime'
    BY DEF OnTime
  <2>1. FilesOnTime /\ RowsOnTime
    BY <1>3, StillWithout DEF LogInv, OnTime, Harm
  <2>2. FilesOnTime'
    BY <1>1, <2>1 DEF FilesOnTime, InLine, Where
  <2>3. curfile < stamp /\ curfile < hour
    BY <1>1, <2>1 DEF FilesOnTime, InLine, Hour, LogInv, TypeInv, TypeOK
  <2>4. RowsOnTime'
    <3>1. CASE checkpoints' = checkpoints
      BY <1>1, <2>1, <3>1 DEF RowsOnTime, InLine
    <3>2. CASE checkpoints' = Append(checkpoints, row)
      <4>1. ASSUME NEW j \in DOMAIN checkpoints'
            PROVE  \/ j \in DOMAIN checkpoints /\ checkpoints'[j] = checkpoints[j]
                   \/ j = Len(checkpoints) + 1 /\ checkpoints'[j] = row
        BY <1>5, <3>2
      <4>2. ASSUME NEW j \in DOMAIN checkpoints
            PROVE  /\ checkpoints[j].file < hour /\ checkpoints[j].file < stamp
                   /\ checkpoints[j].file # curfile
                   /\ checkpoints[j].numbers = Len(files[checkpoints[j].file])
                   /\ \A k \in DOMAIN checkpoints :
                         checkpoints[j].file = checkpoints[k].file => j = k
        BY <1>1, <2>1 DEF RowsOnTime, InLine
      <4>3. ASSUME NEW j \in DOMAIN checkpoints'
            PROVE  /\ checkpoints'[j].file < hour /\ checkpoints'[j].file < stamp
                   /\ checkpoints'[j].numbers = Len(files[checkpoints'[j].file])
        BY <1>4, <2>3, <4>1, <4>2
      <4>4. ASSUME NEW j \in DOMAIN checkpoints', NEW k \in DOMAIN checkpoints',
                   checkpoints'[j].file = checkpoints'[k].file
            PROVE  j = k
        BY <1>4, <4>1, <4>2, <4>4
      <4>5. QED
        BY <1>1, <4>3, <4>4 DEF RowsOnTime
    <3>3. QED
      BY <1>2, <3>1, <3>2
  <2>5. QED
    BY <2>2, <2>4
<1>10. NoErrRows'
  BY <1>1 DEF NoErrRows
<1>11. LeftHaveRows'
  <2> SUFFICES ASSUME Without({"count", "insert", "crash"})', NEW h \in Hour, Countable(h)
               PROVE  HasRow(h)'
    BY <1>1 DEF LeftHaveRows, Countable
  <2>1. Without({"count", "insert", "crash"})
    BY <1>3, StillWithout DEF Harm
  <2>2. checkpoints' = Append(checkpoints, row)
    BY <1>2 DEF Without
  <2>3. CASE h = curfile
    <3>1. row = [file |-> h, numbers |-> Len(files[h])]
      BY <1>1, <2>3 DEF row
    <3>2. Len(checkpoints) + 1 \in DOMAIN checkpoints'
      BY <1>5, <2>2
    <3>3. QED
      BY <1>1, <1>5, <2>2, <3>1, <3>2 DEF HasRow
  <2>4. CASE h # curfile
    <3>1. HasRow(h)
      BY <1>1, <2>1, <2>4 DEF LogInv, LeftHaveRows
    <3>2. PICK c \in DOMAIN checkpoints :
              checkpoints[c] = [file |-> h, numbers |-> Len(files[h])]
      BY <3>1 DEF HasRow
    <3>3. c \in DOMAIN checkpoints' /\ checkpoints'[c] = checkpoints[c]
      BY <1>5, <2>2
    <3>4. QED
      BY <1>1, <3>2, <3>3 DEF HasRow
  <2>5. QED
    BY <2>3, <2>4
<1>12. QED
  BY <1>7, <1>8, <1>9, <1>10, <1>11 DEF LogInv

\* The file of the line's hour is opened; every file but it has its row.
LEMMA OpenFileKeeps ==
    ASSUME LogInv, OpenFile
    PROVE  LogInv'
<1>1. /\ UNCHANGED <<errLog, hour, calls, list, done, stamp, numbers, files, checkpoints,
                     logged>>
      /\ pc = "open" /\ pc' = "print" /\ curfile' = stamp /\ curfile # stamp
      /\ stamp \in Hour /\ harm \in [Harm -> Nat]
  BY DEF OpenFile, LogInv, TypeInv, TypeOK, Held, InLine
<1>2. \/ opened' = TRUE /\ harm' = harm
      \/ opened' = FALSE /\ StillNoted /\ harm'["open"] # 0
  BY <1>1, NoteFails DEF OpenFile, Harm
<1>3. StillNoted
  BY <1>1, <1>2, NothingNoted
<1>4. TypeInv'
  <2>1. opened' \in BOOLEAN
    BY <1>2
  <2>2. TypeOK'
    BY <1>1, <1>3, <2>1 DEF StillNoted, LogInv, TypeInv, TypeOK, Label
  <2>3. harm'["open"] = 0 => opened'
    BY <1>2
  <2>4. Held'
    BY <1>1, <2>3 DEF Held, InLine
  <2>5. QED
    BY <2>2, <2>4 DEF TypeInv
<1>5. Log' /\ Ordered' /\ Kept'
  BY <1>1, <1>3, LinesStay DEF Lines
<1>6. OnTime'
  <2> SUFFICES ASSUME Without({"setback"})' PROVE FilesOnTime' /\ RowsOnTime'
    BY DEF OnTime
  <2>1. FilesOnTime /\ RowsOnTime
    BY <1>3, StillWithout DEF LogInv, OnTime, Harm
  <2>2. FilesOnTime'
    BY <1>1, <2>1 DEF FilesOnTime, InLine, Where, Hour
  <2>3. \A j \in DOMAIN checkpoints : checkpoints[j].file # stamp
    <3>1. ASSUME NEW j \in DOMAIN checkpoints PROVE checkpoints[j].file # stamp
      <4>1. checkpoints[j].file < stamp
        BY <1>1, <2>1 DEF RowsOnTime, InLine
      <4>2. stamp \in Int
        BY <1>1 DEF Hour
      <4>3. QED
        BY <4>1, <4>2
    <3>2. QED
      BY <3>1
  <2>4. RowsOnTime'
    BY <1>1, <2>1, <2>3 DEF RowsOnTime, InLine
  <2>5. QED
    BY <2>2, <2>4
<1>7. NoErrRows'
  BY <1>1 DEF LogInv, NoErrRows
<1>8. LeftHaveRows'
  <2> SUFFICES ASSUME ~errLog, Without({"count", "insert", "crash"})', NEW h \in Hour,
                      Countable(h)
               PROVE  HasRow(h)
    BY <1>1 DEF LeftHaveRows, Countable, HasRow
  <2>1. Without({"count", "insert", "crash"})
    BY <1>3, StillWithout DEF Harm
  <2>2. QED
    BY <1>1, <2>1 DEF LogInv, LeftHaveRows
<1>9. QED
  BY <1>4, <1>5, <1>6, <1>7, <1>8 DEF LogInv

\* After the line there is the batch or the wait, and the count is below Batch.
LEMMA AfterLineType ==
    ASSUME done \in 0..(Batch - 1)
    PROVE  AfterLine.pc \in {"wait", "batch"} /\ AfterLine.done \in 0..(Batch - 1)
<1>1. CASE done + 1 = Batch
  BY <1>1, BatchAssumption DEF AfterLine
<1>2. CASE done + 1 # Batch
  <2>1. AfterLine = [pc |-> "batch", done |-> done + 1]
    BY <1>2 DEF AfterLine
  <2>2. done + 1 \in 0..(Batch - 1)
    BY <1>2, BatchAssumption
  <2>3. QED
    BY <2>1, <2>2
<1>3. QED
  BY <1>1, <1>2

\* The line at the front goes to the end of the file that is open, or nowhere.
LEMMA PrintedLine ==
    ASSUME TypeInv, PrintLine
    PROVE  /\ curfile \in Hour /\ curfile = stamp
           /\ files' \in [Hour -> Seq(Line)]
           /\ \A h \in Hour \ {curfile} : files'[h] = files[h]
           /\ \A h \in Hour : \A j \in DOMAIN files[h] :
                 j \in DOMAIN files'[h] /\ files'[h][j] = files[h][j]
           /\ \A h \in Hour : \A j \in DOMAIN files'[h] :
                 \/ j \in DOMAIN files[h] /\ files'[h][j] = files[h][j]
                 \/ /\ h = curfile /\ files'[h][j] = list[1]
                    /\ \A k \in DOMAIN files'[h] : k <= j
           /\ StillNoted
           /\ Without({"open", "print"})' =>
                 \E j \in DOMAIN files'[curfile] : files'[curfile][j] = list[1]
<1>1. /\ pc = "print" /\ curfile = stamp /\ stamp \in Hour /\ list \in Seq(Line) /\ list # <<>>
      /\ files \in [Hour -> Seq(Line)] /\ harm \in [Harm -> Nat]
      /\ harm["open"] = 0 => opened
  <2>1. pc = "print" /\ list # <<>>
    BY DEF PrintLine, TypeInv, TypeOK
  <2>2. curfile = stamp /\ stamp \in Hour
    BY <2>1 DEF TypeInv, TypeOK, Held
  <2>3. harm["open"] = 0 => opened
    BY <2>2, NoneAssumption DEF TypeInv, Held
  <2>4. QED
    BY <2>1, <2>2, <2>3 DEF TypeInv, TypeOK
<1>2. Head(list) \in Line /\ Head(list) = list[1]
  BY <1>1, TailElements
<1>3. ASSUME files' = [files EXCEPT ![curfile] = Append(@, Head(list))]
      PROVE  /\ files' \in [Hour -> Seq(Line)]
             /\ \A h \in Hour \ {curfile} : files'[h] = files[h]
             /\ \A h \in Hour : \A j \in DOMAIN files[h] :
                   j \in DOMAIN files'[h] /\ files'[h][j] = files[h][j]
             /\ \A h \in Hour : \A j \in DOMAIN files'[h] :
                   \/ j \in DOMAIN files[h] /\ files'[h][j] = files[h][j]
                   \/ /\ h = curfile /\ files'[h][j] = list[1]
                      /\ \A k \in DOMAIN files'[h] : k <= j
             /\ \E j \in DOMAIN files'[curfile] : files'[curfile][j] = list[1]
  <2> DEFINE old == files[curfile]
             new == Append(old, list[1])
  <2>1. old \in Seq(Line)
    BY <1>1
  <2>2. /\ new \in Seq(Line) /\ Len(old) \in Nat
        /\ DOMAIN old = 1..Len(old) /\ DOMAIN new = 1..(Len(old) + 1)
        /\ \A j \in DOMAIN old : new[j] = old[j]
        /\ new[Len(old) + 1] = list[1]
    BY <1>2, <2>1, AppendElements
  <2>3. files'[curfile] = new /\ \A h \in Hour \ {curfile} : files'[h] = files[h]
    BY <1>1, <1>2, <1>3
  <2>4. files' \in [Hour -> Seq(Line)]
    BY <1>1, <1>2, <1>3, <2>2
  <2> HIDE DEF new
  <2>5. ASSUME NEW j \in DOMAIN new
        PROVE  \/ j \in DOMAIN old /\ new[j] = old[j]
               \/ new[j] = list[1] /\ \A k \in DOMAIN new : k <= j
    BY <2>2
  <2>6. \A j \in DOMAIN old : j \in DOMAIN new /\ new[j] = old[j]
    BY <2>2
  <2>7. Len(old) + 1 \in DOMAIN new
    BY <2>2
  <2>8. \A h \in Hour : \A j \in DOMAIN files[h] :
            j \in DOMAIN files'[h] /\ files'[h][j] = files[h][j]
    BY <2>3, <2>6
  <2>9. \A h \in Hour : \A j \in DOMAIN files'[h] :
            \/ j \in DOMAIN files[h] /\ files'[h][j] = files[h][j]
            \/ /\ h = curfile /\ files'[h][j] = list[1]
               /\ \A k \in DOMAIN files'[h] : k <= j
    BY <2>3, <2>5
  <2>10. QED
    BY <2>2, <2>3, <2>4, <2>7, <2>8, <2>9
<1>4. CASE files' = [files EXCEPT ![curfile] = Append(@, Head(list))] /\ UNCHANGED harm
  BY <1>1, <1>3, <1>4, NothingNoted
<1>5. CASE files' = files /\ opened /\ Fails("print")
  <2>1. StillNoted /\ harm'["print"] # 0
    BY <1>1, <1>5, NoteFails DEF Harm
  <2>2. ~Without({"open", "print"})'
    BY <2>1 DEF Without
  <2>3. QED
    BY <1>1, <1>5, <2>1, <2>2
<1>6. CASE files' = files /\ ~opened /\ UNCHANGED harm
  <2>1. ~Without({"open", "print"})'
    BY <1>1, <1>6 DEF Without
  <2>2. QED
    BY <1>1, <1>6, <2>1, NothingNoted
<1>7. QED
  BY <1>4, <1>5, <1>6 DEF PrintLine

\* The line that is printed is the latest of all files, and goes to the last of
\* the files that have lines, which no checkpoint is of.
LEMMA PrintLineKeeps ==
    ASSUME LogInv, PrintLine
    PROVE  LogInv'
<1>1. /\ UNCHANGED <<errLog, hour, calls, stamp, curfile, opened, numbers, checkpoints, logged>>
      /\ pc = "print" /\ InLine /\ pc' \in {"wait", "batch"} /\ ~InLine'
      /\ done' \in 0..(Batch - 1)
      /\ list \in Seq(Line) /\ list # <<>> /\ list' = Tail(list)
      /\ files \in [Hour -> Seq(Line)]
  BY AfterLineType DEF PrintLine, InLine, LogInv, TypeInv, TypeOK
<1>2. /\ curfile \in Hour /\ curfile = stamp
      /\ files' \in [Hour -> Seq(Line)]
      /\ \A h \in Hour \ {curfile} : files'[h] = files[h]
      /\ \A h \in Hour : \A j \in DOMAIN files[h] :
            j \in DOMAIN files'[h] /\ files'[h][j] = files[h][j]
      /\ StillNoted
      /\ Without({"open", "print"})' =>
            \E j \in DOMAIN files'[curfile] : files'[curfile][j] = list[1]
  BY PrintedLine DEF LogInv
<1>3. ASSUME NEW h \in Hour, NEW j \in DOMAIN files'[h]
      PROVE  \/ j \in DOMAIN files[h] /\ files'[h][j] = files[h][j]
             \/ /\ h = curfile /\ files'[h][j] = list[1]
                /\ \A k \in DOMAIN files'[h] : k <= j
  BY PrintedLine DEF LogInv
<1>4. /\ list' \in Seq(Line) /\ 1 \in DOMAIN list /\ Len(list) \in Nat
      /\ DOMAIN list = 1..Len(list) /\ DOMAIN list' = 1..(Len(list) - 1)
      /\ \A k \in DOMAIN list' : k + 1 \in DOMAIN list /\ list'[k] = list[k + 1]
  BY <1>1, TailElements
<1>5. \A h \in Hour : DOMAIN files'[h] \subseteq Nat
  BY <1>2
<1>6. TypeInv'
  <2>1. TypeOK'
    BY <1>1, <1>2, <1>4 DEF StillNoted, LogInv, TypeInv, TypeOK, Label
  <2>2. harm'["open"] = 0 => harm["open"] = 0
    BY <1>2 DEF StillNoted, Harm
  <2>3. Held'
    BY <1>1, <2>2 DEF LogInv, TypeInv, Held, InLine
  <2>4. QED
    BY <2>1, <2>3 DEF TypeInv
<1>7. Log'
  BY <1>1 DEF LogInv, Log
<1>8. Ordered'
  <2>1. \A k \in DOMAIN list' : calls'[list'[k]] = "returned"
    BY <1>1, <1>4 DEF LogInv, Ordered
  <2>2. ASSUME NEW h \in Hour, NEW j \in DOMAIN files'[h]
        PROVE  calls'[files'[h][j]] = "returned"
    BY <1>1, <1>3, <1>4 DEF LogInv, Ordered
  <2>3. ASSUME NEW j \in DOMAIN list', NEW k \in DOMAIN list', j < k
        PROVE  Where(list[j])' < Where(list[k])'
    <3>1. j + 1 \in DOMAIN list /\ k + 1 \in DOMAIN list /\ j + 1 < k + 1
      BY <1>4, <2>3
    <3>2. Where(list[j + 1]) < Where(list[k + 1])
      BY <3>1 DEF LogInv, Ordered
    <3>3. QED
      BY <1>1, <1>4, <3>2 DEF Where
  <2>4. ASSUME NEW h \in Hour, NEW j \in DOMAIN files'[h], NEW k \in DOMAIN files'[h], j < k
        PROVE  Where(files[h][j])' < Where(files[h][k])'
    <3>1. j \in DOMAIN files[h] /\ files'[h][j] = files[h][j]
      <4>1. ~(\A m \in DOMAIN files'[h] : m <= j)
        BY <1>5, <2>4
      <4>2. QED
        BY <1>3, <4>1
    <3>2. CASE k \in DOMAIN files[h] /\ files'[h][k] = files[h][k]
      <4>1. Where(files[h][j]) < Where(files[h][k])
        BY <2>4, <3>1, <3>2 DEF LogInv, Ordered
      <4>2. QED
        BY <1>1, <3>1, <3>2, <4>1 DEF Where
    <3>3. CASE files'[h][k] = list[1]
      <4>1. Where(files[h][j]) < Where(list[1])
        BY <1>4, <3>1 DEF LogInv, Ordered
      <4>2. QED
        BY <1>1, <3>1, <3>3, <4>1 DEF Where
    <3>4. QED
      BY <1>3, <3>2, <3>3
  <2>5. ASSUME NEW h \in Hour, NEW j \in DOMAIN files'[h], NEW k \in DOMAIN list'
        PROVE  Where(files[h][j])' < Where(list[k])'
    <3>1. k + 1 \in DOMAIN list /\ list'[k] = list[k + 1] /\ 1 < k + 1
      BY <1>4
    <3>2. CASE j \in DOMAIN files[h] /\ files'[h][j] = files[h][j]
      <4>1. Where(files[h][j]) < Where(list[k + 1])
        BY <3>1, <3>2 DEF LogInv, Ordered
      <4>2. QED
        BY <1>1, <3>1, <3>2, <4>1 DEF Where
    <3>3. CASE files'[h][j] = list[1]
      <4>1. Where(list[1]) < Where(list[k + 1])
        BY <1>4, <3>1 DEF LogInv, Ordered
      <4>2. QED
        BY <1>1, <3>1, <3>3, <4>1 DEF Where
    <3>4. QED
      BY <1>3, <3>2, <3>3
  <2>6. ASSUME NEW g \in Hour, NEW h \in Hour, NEW j \in DOMAIN files'[g],
               NEW k \in DOMAIN files'[h], g # h
        PROVE  files'[g][j] # files'[h][k]
    <3>1. \A f \in Hour : \A m \in DOMAIN files[f] : files[f][m] # list[1]
      <4>1. ASSUME NEW f \in Hour, NEW m \in DOMAIN files[f], files[f][m] = list[1]
            PROVE  FALSE
        <5>1. Where(list[1]) < Where(list[1])
          BY <1>4, <4>1 DEF LogInv, Ordered
        <5>2. calls[list[1]] = "returned" /\ list[1] \in Line
          <6>1. calls[list[1]] = "returned"
            BY <1>4 DEF LogInv, Ordered
          <6>2. QED
            BY <1>1, <1>4, <6>1
        <5>3. Where(list[1]) \in Int
          BY <5>2, WhereType
        <5>4. QED
          BY <5>1, <5>3
      <4>2. QED
        BY <4>1
    <3>2. CASE g = curfile
      <4>1. k \in DOMAIN files[h] /\ files'[h][k] = files[h][k]
        BY <1>3, <2>6, <3>2
      <4>2. QED
        BY <1>3, <2>6, <3>1, <4>1 DEF LogInv, Ordered
    <3>3. CASE g # curfile
      <4>1. j \in DOMAIN files[g] /\ files'[g][j] = files[g][j]
        BY <1>3, <3>3
      <4>2. QED
        BY <1>3, <2>6, <3>1, <4>1 DEF LogInv, Ordered
    <3>4. QED
      BY <3>2, <3>3
  <2>7. QED
    BY <2>1, <2>2, <2>3, <2>4, <2>5, <2>6 DEF Ordered
<1>9. Kept'
  <2> SUFFICES ASSUME Without({"open", "print", "crash"})', NEW m \in Line,
                      calls'[m] = "returned"
               PROVE  Somewhere(m)'
    BY DEF Kept
  <2>1. Without({"open", "print", "crash"}) /\ Without({"open", "print"})'
    <3>1. Without({"open", "print", "crash"})
      BY <1>2, StillWithout DEF Harm
    <3>2. QED
      BY <3>1 DEF Without
  <2>2. Somewhere(m)
    BY <1>1, <2>1 DEF LogInv, Kept
  <2>3. ASSUME NEW k \in DOMAIN list, list[k] = m, k # 1
        PROVE  \E j \in DOMAIN list' : list'[j] = m
    <3>1. k - 1 \in DOMAIN list' /\ (k - 1) + 1 = k
      BY <1>4, <2>3
    <3>2. QED
      BY <1>4, <2>3, <3>1
  <2>4. CASE list[1] = m
    BY <1>2, <2>1, <2>4 DEF Somewhere
  <2>5. ASSUME NEW h \in Hour, NEW k \in DOMAIN files[h], files[h][k] = m
        PROVE  Somewhere(m)'
    BY <1>2, <2>5 DEF Somewhere
  <2>6. QED
    BY <2>2, <2>3, <2>4, <2>5 DEF Somewhere
<1>10. OnTime'
  <2> SUFFICES ASSUME Without({"setback"})' PROVE FilesOnTime' /\ RowsOnTime'
    BY DEF OnTime
  <2>1. FilesOnTime /\ RowsOnTime
    BY <1>2, StillWithout DEF LogInv, OnTime, Harm
  <2>2. /\ stamp \in Int /\ stamp <= hour
        /\ \A h \in Hour : h \in Int
    BY <1>1, <1>2, <2>1 DEF FilesOnTime, Hour
  <2>3. ASSUME NEW g \in Hour, NEW h \in Hour, NEW j \in DOMAIN files'[g],
               NEW k \in DOMAIN files'[h], g < h
        PROVE  Where(files[g][j])' < Where(files[h][k])'
    <3>1. j \in DOMAIN files[g] /\ files'[g][j] = files[g][j]
      <4>1. ASSUME g = curfile
            PROVE  FALSE
        <5>1. g # h
          BY <2>2, <2>3
        <5>2. files'[h] = files[h] /\ files[h] # <<>>
          BY <1>1, <1>2, <2>3, <4>1, <5>1
        <5>3. h <= stamp
          BY <1>1, <2>1, <5>2 DEF FilesOnTime
        <5>4. QED
          BY <1>2, <2>2, <2>3, <4>1, <5>3
      <4>2. QED
        BY <1>3, <4>1
    <3>2. CASE k \in DOMAIN files[h] /\ files'[h][k] = files[h][k]
      <4>1. Where(files[g][j]) < Where(files[h][k])
        BY <2>1, <2>3, <3>1, <3>2 DEF FilesOnTime
      <4>2. QED
        BY <1>1, <3>1, <3>2, <4>1 DEF Where
    <3>3. CASE files'[h][k] = list[1]
      <4>1. Where(files[g][j]) < Where(list[1])
        BY <1>4, <3>1 DEF LogInv, Ordered
      <4>2. QED
        BY <1>1, <3>1, <3>3, <4>1 DEF Where
    <3>4. QED
      BY <1>3, <3>2, <3>3
  <2>4. \A h \in Hour : files'[h] # <<>> => h <= hour
    <3>1. ASSUME NEW h \in Hour, files'[h] # <<>> PROVE h <= hour
      <4>1. CASE h = curfile
        BY <1>2, <2>2, <4>1
      <4>2. CASE h # curfile
        BY <1>2, <2>1, <3>1, <4>2 DEF FilesOnTime
      <4>3. QED
        BY <4>1, <4>2
    <3>2. QED
      BY <3>1
  <2>5. FilesOnTime'
    BY <1>1, <2>1, <2>3, <2>4 DEF FilesOnTime
  <2>6. ASSUME NEW j \in DOMAIN checkpoints
        PROVE  /\ checkpoints[j].file # curfile
               /\ files'[checkpoints[j].file] = files[checkpoints[j].file]
    <3>1. checkpoints[j].file \in Hour
      BY RowHour
    <3>2. checkpoints[j].file < stamp
      BY <1>1, <2>1 DEF RowsOnTime
    <3>3. checkpoints[j].file # curfile
      BY <1>2, <2>2, <3>1, <3>2
    <3>4. QED
      BY <1>2, <3>1, <3>3
  <2>7. RowsOnTime'
    BY <1>1, <2>1, <2>6 DEF RowsOnTime
  <2>8. QED
    BY <2>5, <2>7
<1>11. NoErrRows'
  BY <1>1 DEF LogInv, NoErrRows
<1>12. LeftHaveRows'
  <2> SUFFICES ASSUME ~errLog, Without({"count", "insert", "crash"})', NEW h \in Hour,
                      h # curfile, Countable(h)'
               PROVE  HasRow(h)'
    BY <1>1 DEF LeftHaveRows
  <2>1. Without({"count", "insert", "crash"})
    BY <1>2, StillWithout DEF Harm
  <2>2. files'[h] = files[h]
    BY <1>2
  <2>3. HasRow(h)
    BY <2>1, <2>2 DEF LogInv, LeftHaveRows, Countable
  <2>4. QED
    BY <1>1, <2>2, <2>3 DEF HasRow
<1>13. QED
  BY <1>6, <1>7, <1>8, <1>9, <1>10, <1>11, <1>12 DEF LogInv

-----------------------------------------------------------------------------
(***************************************************************************)
(* The clock and the process.                                              *)
(***************************************************************************)
LEMMA NextHourKeeps ==
    ASSUME LogInv, NextHour
    PROVE  LogInv'
<1>1. /\ UNCHANGED <<errLog, calls, list, pc, done, stamp, curfile, opened, numbers, files,
                     checkpoints, logged, harm>>
      /\ hour \in Int /\ hour' = hour + 1 /\ hour' \in Hour
  BY BoundAssumption DEF NextHour, memory, LogInv, TypeInv, TypeOK, Hour
<1>2. TypeInv'
  BY <1>1 DEF LogInv, TypeInv, TypeOK, Held, InLine
<1>3. Log' /\ Ordered' /\ Kept'
  BY <1>1, LinesStay, NothingNoted DEF Lines, LogInv, TypeInv, TypeOK
<1>4. OnTime'
  <2> SUFFICES ASSUME Without({"setback"})' PROVE FilesOnTime' /\ RowsOnTime'
    BY DEF OnTime
  <2>1. FilesOnTime /\ RowsOnTime
    BY <1>1 DEF LogInv, OnTime, Without
  <2>2. \A h \in Hour : h <= hour => h <= hour'
    BY <1>1 DEF Hour
  <2>3. stamp \in Hour /\ curfile \in Hour \cup {None}
    BY DEF LogInv, TypeInv, TypeOK
  <2>4. FilesOnTime'
    BY <1>1, <2>1, <2>2, <2>3 DEF FilesOnTime, InLine, Where
  <2>5. ASSUME NEW j \in DOMAIN checkpoints PROVE checkpoints[j].file < hour'
    <3>1. checkpoints[j].file \in Int
      BY RowHour DEF Hour
    <3>2. QED
      BY <1>1, <2>1, <3>1 DEF RowsOnTime
  <2>6. RowsOnTime'
    BY <1>1, <2>1, <2>5 DEF RowsOnTime, InLine
  <2>7. QED
    BY <2>4, <2>6
<1>5. NoErrRows' /\ LeftHaveRows'
  BY <1>1 DEF LogInv, NoErrRows, LeftHaveRows, Countable, HasRow, Without
<1>6. QED
  BY <1>2, <1>3, <1>4, <1>5 DEF LogInv

LEMMA SetBackKeeps ==
    ASSUME LogInv, SetBack
    PROVE  LogInv'
<1>1. /\ UNCHANGED <<errLog, calls, list, pc, done, stamp, curfile, opened, numbers, files,
                     checkpoints, logged>>
      /\ hour' \in Hour /\ harm' = [harm EXCEPT !["setback"] = @ + 1]
      /\ harm \in [Harm -> Nat]
  BY BoundAssumption DEF SetBack, memory, LogInv, TypeInv, TypeOK, Hour
<1>2. StillNoted /\ harm'["setback"] # 0
  BY <1>1, NoteOneMore DEF Harm
<1>3. TypeInv'
  <2>1. harm'["open"] = 0 => harm["open"] = 0
    BY <1>2 DEF StillNoted, Harm
  <2>2. QED
    BY <1>1, <1>2, <2>1 DEF StillNoted, LogInv, TypeInv, TypeOK, Held, InLine
<1>4. Log' /\ Ordered' /\ Kept'
  BY <1>1, <1>2, LinesStay DEF Lines
<1>5. OnTime'
  BY <1>2 DEF OnTime, Without
<1>6. NoErrRows'
  BY <1>1 DEF LogInv, NoErrRows
<1>7. LeftHaveRows'
  <2>1. Without({"count", "insert", "crash"})' => Without({"count", "insert", "crash"})
    BY <1>2, StillWithout DEF Harm
  <2>2. QED
    BY <1>1, <2>1 DEF LogInv, LeftHaveRows, Countable, HasRow
<1>8. QED
  BY <1>3, <1>4, <1>5, <1>6, <1>7 DEF LogInv

\* The files, the rows and what was accepted survive; the list does not.
LEMMA CrashKeeps ==
    ASSUME LogInv, Crash
    PROVE  LogInv'
<1>1. /\ UNCHANGED <<errLog, hour, files, checkpoints, logged>>
      /\ list' = <<>> /\ pc' = "wait" /\ done' = 0 /\ curfile' = None /\ stamp' = 0
      /\ numbers' = 0 /\ opened' = FALSE
      /\ calls' = [l \in Line |-> IF calls[l] = "calling" THEN "lost" ELSE calls[l]]
      /\ harm' = [harm EXCEPT !["crash"] = @ + 1]
      /\ harm \in [Harm -> Nat] /\ files \in [Hour -> Seq(Line)]
      /\ calls \in [Line -> {"none", "calling", "returned", "lost"}]
      /\ checkpoints \in Seq(Checkpoint)
  BY DEF Crash, LogInv, TypeInv, TypeOK
<1>2. StillNoted /\ harm'["crash"] # 0
  BY <1>1, NoteOneMore DEF Harm
<1>3. /\ calls' \in [Line -> {"none", "calling", "returned", "lost"}]
      /\ \A l \in Line : calls'[l] = "returned" <=> calls[l] = "returned"
  BY <1>1
<1>4. list' \in Seq(Line) /\ DOMAIN list' = {}
  BY <1>1
<1>5. ~InLine'
  BY <1>1 DEF InLine
<1>6. TypeInv'
  <2>1. stamp' \in Hour /\ done' \in 0..(Batch - 1) /\ numbers' \in Nat /\ pc' \in Label
    BY <1>1, BoundAssumption, BatchAssumption DEF Hour, Label
  <2>2. opened' \in BOOLEAN
    BY <1>1
  <2>3. TypeOK'
    BY <1>1, <1>2, <1>3, <1>4, <2>1, <2>2 DEF StillNoted, LogInv, TypeInv, TypeOK
  <2>4. Held'
    BY <1>1, <1>5 DEF Held
  <2>5. QED
    BY <2>3, <2>4 DEF TypeInv
<1>7. Log'
  BY <1>1, <1>3 DEF LogInv, Log
<1>8. Ordered'
  <2>1. \A h \in Hour : \A k \in DOMAIN files[h] : files[h][k] \in Line
    BY <1>1
  <2>2. QED
    BY <1>1, <1>3, <1>4, <2>1 DEF LogInv, Ordered, Where
<1>9. Kept'
  BY <1>2 DEF Kept, Without
<1>10. OnTime'
  <2> SUFFICES ASSUME Without({"setback"})' PROVE FilesOnTime' /\ RowsOnTime'
    BY DEF OnTime
  <2>1. FilesOnTime /\ RowsOnTime
    BY <1>2, StillWithout DEF LogInv, OnTime, Harm
  <2>2. FilesOnTime'
    BY <1>1, <1>5, <2>1 DEF FilesOnTime, Where
  <2>3. \A j \in DOMAIN checkpoints : checkpoints[j].file # None
    BY RowHour, NoneAssumption
  <2>4. RowsOnTime'
    BY <1>1, <1>5, <2>1, <2>3 DEF RowsOnTime
  <2>5. QED
    BY <2>2, <2>4
<1>11. NoErrRows'
  BY <1>1 DEF LogInv, NoErrRows
<1>12. LeftHaveRows'
  BY <1>2 DEF LeftHaveRows, Without
<1>13. QED
  BY <1>6, <1>7, <1>8, <1>9, <1>10, <1>11, <1>12 DEF LogInv

LEMMA LogStutter ==
    ASSUME LogInv, UNCHANGED vars
    PROVE  LogInv'
<1>1. UNCHANGED <<errLog, hour, calls, list, pc, done, stamp, curfile, opened, numbers, files,
                  checkpoints, logged, harm>>
  BY DEF vars, memory
<1>2. TypeInv'
  BY <1>1 DEF LogInv, TypeInv, TypeOK, Held, InLine
<1>3. Log' /\ Ordered' /\ Kept'
  BY <1>1, LinesStay, NothingNoted DEF Lines, LogInv, TypeInv, TypeOK
<1>4. OnTime'
  BY <1>1 DEF LogInv, OnTime, FilesOnTime, RowsOnTime, InLine, Where, Without
<1>5. NoErrRows' /\ LeftHaveRows'
  BY <1>1 DEF LogInv, NoErrRows, LeftHaveRows, Countable, HasRow, Without
<1>6. QED
  BY <1>2, <1>3, <1>4, <1>5 DEF LogInv

LEMMA LogStep == LogInv /\ [Next]_vars => LogInv'
<1> SUFFICES ASSUME LogInv, [Next]_vars PROVE LogInv'
  OBVIOUS
<1>1. ASSUME NEW l \in Line, CallLogFile(l) PROVE LogInv'
  BY <1>1, CallKeeps
<1>2. ASSUME NEW l \in Line, LogFile(l) PROVE LogInv'
  BY <1>2, LogFileKeeps
<1>3. CASE Tick \/ EndBatch
  BY <1>3, TickKeeps
<1>4. CASE BeginLine
  BY <1>4, BeginLineKeeps
<1>5. CASE CountLines
  BY <1>5, CountLinesKeeps
<1>6. CASE InsertCheckpoint
  BY <1>6, InsertKeeps
<1>7. CASE OpenFile
  BY <1>7, OpenFileKeeps
<1>8. CASE PrintLine
  BY <1>8, PrintLineKeeps
<1>9. CASE NextHour
  BY <1>9, NextHourKeeps
<1>10. CASE SetBack
  BY <1>10, SetBackKeeps
<1>11. CASE Crash
  BY <1>11, CrashKeeps
<1>12. CASE UNCHANGED vars
  BY <1>12, LogStutter
<1>13. QED
  BY <1>1, <1>2, <1>3, <1>4, <1>5, <1>6, <1>7, <1>8, <1>9, <1>10, <1>11, <1>12
     DEF Next, Start_Log, Write_Log

LEMMA LogAlways == Spec => []LogInv
BY LogInit, LogStep, PTL DEF Spec

-----------------------------------------------------------------------------
(***************************************************************************)
(* Theorems.                                                               *)
(***************************************************************************)

\* The writer's state is typed at every step, and it never looks at the front of
\* an empty list.
THEOREM LogTypeCorrect == Spec => []TypeOK
<1>1. LogInv => TypeOK
  BY DEF LogInv, TypeInv
<1> QED BY LogAlways, <1>1, PTL

\* A set whose members are all the same has none or one.
LEMMA AtMostOne ==
    ASSUME NEW S, \A x, y \in S : x = y
    PROVE  \/ S = {} /\ Cardinality(S) = 0
           \/ S # {} /\ Cardinality(S) = 1
<1>1. CASE S = {}
  BY <1>1, FS_EmptySet
<1>2. CASE S # {}
  <2>1. PICK x : x \in S
    BY <1>2
  <2>2. S = {} \cup {x}
    BY <2>1
  <2>3. IsFiniteSet({}) /\ Cardinality({}) = 0
    BY FS_EmptySet
  <2>4. Cardinality({} \cup {x}) = 1
    BY <2>3, FS_AddElement
  <2>5. QED
    BY <1>2, <2>2, <2>4
<1>3. QED
  BY <1>1, <1>2

\* A line has at most one place, and never one in a file and one in the list.
LEMMA OnePlace ==
    ASSUME LogInv, NEW l \in Line
    PROVE  /\ \A p, q \in Places(l) : p = q
           /\ \A j, k \in Queued(l) : j = k
           /\ Places(l) = {} \/ Queued(l) = {}
           /\ Places(l) # {} \/ Queued(l) # {} => calls[l] = "returned"
<1>1. /\ list \in Seq(Line) /\ DOMAIN list \subseteq Int
      /\ \A h \in Hour : DOMAIN files[h] \subseteq Int
  BY DEF LogInv, TypeInv, TypeOK
<1>2. \A p \in Places(l) : \E h \in Hour : \E k \in DOMAIN files[h] :
          p = <<h, k>> /\ files[h][k] = l
  BY DEF Places, PlacesIn
<1>3. Places(l) # {} \/ Queued(l) # {} => calls[l] = "returned"
  BY <1>2 DEF Queued, LogInv, Ordered
<1>4. calls[l] = "returned" => ~(Where(l) < Where(l))
  <2>1. calls[l] = "returned" => Where(l) \in Int
    BY WhereType
  <2>2. QED
    BY <2>1
<1>5. ASSUME NEW p \in Places(l), NEW q \in Places(l) PROVE p = q
  <2>1. PICK g \in Hour : \E j \in DOMAIN files[g] : p = <<g, j>> /\ files[g][j] = l
    BY <1>2
  <2>2. PICK j \in DOMAIN files[g] : p = <<g, j>> /\ files[g][j] = l
    BY <2>1
  <2>3. PICK h \in Hour : \E k \in DOMAIN files[h] : q = <<h, k>> /\ files[h][k] = l
    BY <1>2
  <2>4. PICK k \in DOMAIN files[h] : q = <<h, k>> /\ files[h][k] = l
    BY <2>3
  <2>5. g = h
    BY <2>2, <2>4 DEF LogInv, Ordered
  <2>6. ~(j < k) /\ ~(k < j)
    BY <1>3, <1>4, <2>2, <2>4, <2>5 DEF LogInv, Ordered
  <2>7. QED
    BY <1>1, <2>2, <2>4, <2>5, <2>6
<1>6. ASSUME NEW j \in Queued(l), NEW k \in Queued(l) PROVE j = k
  <2>1. j \in DOMAIN list /\ k \in DOMAIN list /\ list[j] = l /\ list[k] = l
    BY DEF Queued
  <2>2. ~(j < k) /\ ~(k < j)
    BY <1>3, <1>4, <2>1 DEF LogInv, Ordered
  <2>3. QED
    BY <1>1, <2>1, <2>2
<1>7. ASSUME NEW p \in Places(l), NEW k \in Queued(l) PROVE FALSE
  <2>1. PICK g \in Hour : \E j \in DOMAIN files[g] : p = <<g, j>> /\ files[g][j] = l
    BY <1>2
  <2>2. PICK j \in DOMAIN files[g] : files[g][j] = l
    BY <2>1
  <2>3. k \in DOMAIN list /\ list[k] = l
    BY DEF Queued
  <2>4. Where(l) < Where(l)
    BY <2>2, <2>3 DEF LogInv, Ordered
  <2>5. QED
    BY <1>3, <1>4, <2>4
<1>8. QED
  BY <1>3, <1>5, <1>6, <1>7

\* No line is written twice, and none is lost unless an open or a write failed
\* or the process died: for any number of lines and whatever else goes wrong.
THEOREM LinesWrittenOnce == Spec => []LinesOnce
<1>1. LogInv => LinesOnce
  <2> SUFFICES ASSUME LogInv, NEW l \in Line
               PROVE  LET n == Cardinality(Places(l)) + Cardinality(Queued(l))
                      IN  /\ n <= (IF calls[l] = "returned" THEN 1 ELSE 0)
                          /\ Without({"open", "print", "crash"}) /\ calls[l] = "returned"
                                => n = 1
    BY DEF LinesOnce
  <2>1. \/ Places(l) = {} /\ Cardinality(Places(l)) = 0
        \/ Places(l) # {} /\ Cardinality(Places(l)) = 1
    BY OnePlace, AtMostOne
  <2>2. \/ Queued(l) = {} /\ Cardinality(Queued(l)) = 0
        \/ Queued(l) # {} /\ Cardinality(Queued(l)) = 1
    BY OnePlace, AtMostOne
  <2>3. /\ Places(l) = {} \/ Queued(l) = {}
        /\ Places(l) # {} \/ Queued(l) # {} => calls[l] = "returned"
    BY OnePlace
  <2>4. ASSUME Without({"open", "print", "crash"}), calls[l] = "returned"
        PROVE  Places(l) # {} \/ Queued(l) # {}
    <3>1. Somewhere(l)
      BY <2>4 DEF LogInv, Kept
    <3>2. ASSUME NEW h \in Hour, NEW k \in DOMAIN files[h], files[h][k] = l
          PROVE  <<h, k>> \in Places(l)
      <4>1. <<h, k>> \in {h} \X PlacesIn(h, l)
        BY <3>2 DEF PlacesIn
      <4>2. QED
        BY <4>1 DEF Places
    <3>3. QED
      BY <3>1, <3>2 DEF Somewhere, Queued
  <2>5. QED
    BY <2>1, <2>2, <2>3, <2>4
<1> QED BY LogAlways, <1>1, PTL

\* The order in which lines were accepted is that of each file, and of the files
\* unless the clock was set back.
THEOREM FilesKeepOrder == Spec => []FilesInOrder
<1>1. LogInv => FilesInOrder
  BY DEF LogInv, Ordered, OnTime, FilesOnTime, FilesInOrder, Where
<1> QED BY LogAlways, <1>1, PTL

\* A row of load_checkpoint is the only one of its file and counts all the lines
\* it ever gets, unless the clock was set back.
THEOREM CheckpointsAreFinal == Spec => []CheckpointsFinal
<1>1. LogInv => CheckpointsFinal
  BY DEF LogInv, OnTime, RowsOnTime, NoErrRows, CheckpointsFinal
<1> QED BY LogAlways, <1>1, PTL

\* No file that the logger left for another one is missing from load_checkpoint,
\* if no count, no INSERT and no process failed and its lines can be counted.
THEOREM LeftFilesHaveRows == Spec => []LeftFilesCheckpointed
<1>1. LogInv => LeftFilesCheckpointed
  BY DEF LogInv, LeftHaveRows, Countable, HasRow, LeftFilesCheckpointed
<1> QED BY LogAlways, <1>1, PTL
=============================================================================
