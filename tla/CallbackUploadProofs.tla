------------------------ MODULE CallbackUploadProofs ------------------------
(***************************************************************************)
(* Type correctness of CallbackUpload, for any set of requests, file names *)
(* and uploads, and what a handler holds at each of its steps.             *)
(*                                                                         *)
(* Then ownership: a request processes its own two workbooks unless        *)
(* another one that uses a file of the same name was in flight with it.    *)
(* As long as no rival is met, what a request has saved and not yet read   *)
(* back is still in the directory (Saved), because whoever writes to one   *)
(* of its paths shares a file with it and has been noted in met (Apart).   *)
(***************************************************************************)
EXTENDS CallbackUpload, FiniteSetTheorems, WellFoundedInduction, TLAPS

\* A non-empty set of numbers has a least element (Least).
LEMMA LeastIsLeast ==
    ASSUME NEW S \in SUBSET Nat, S # {}
    PROVE  Least(S) \in S /\ \A j \in S : Least(S) <= j
<1>1. PICK x \in S : \A y \in S : ~(<<y, x>> \in OpToRel(<, Nat))
  BY WFMin, NatLessThanWellFounded
<1>2. ASSUME NEW y \in S PROVE x <= y
  <2>1. <<y, x>> \in Nat \X Nat
    OBVIOUS
  <2>2. ~(y < x)
    BY <1>1, <2>1 DEF OpToRel
  <2> QED BY <2>2
<1> QED BY <1>2 DEF Least

\* The rows filed under a key are rows of the sheet (Records).
LEMMA RecordsAreRows ==
    ASSUME NEW p \in Platform, NEW book \in Book, NEW key
    PROVE  Records(p, book, key) \in SUBSET (1..Len(book.rows))
<1>1. SourceRows(book) \in SUBSET (1..Len(book.rows))
  BY DEF SourceRows, Book
<1>2. DOMAIN ReadDataSource(p, book).keys = SourceRows(book)
  BY DEF Platform, ReadDataSource, JuliangReadDataSource, GdtReadDataSource,
         HonorReadDataSource, UcReadDataSource, KsReadDataSource, ByCampaign
<1> QED BY <1>1, <1>2 DEF Records

\* A slice is finite, so its length is a number (Executed).
LEMMA RecordsFinite ==
    ASSUME NEW p \in Platform, NEW book \in Book, NEW key
    PROVE  Cardinality(Records(p, book, key)) \in Nat
<1>1. Len(book.rows) \in Nat
  BY DEF Book
<1>2. IsFiniteSet(1..Len(book.rows))
  BY <1>1, FS_Interval
<1>3. IsFiniteSet(Records(p, book, key))
  BY <1>2, FS_Subset, RecordsAreRows
<1> QED BY <1>3, FS_CardinalityType

\* The click list is indexed by row numbers and its counts are numbers.
LEMMA ClickListType ==
    ASSUME NEW p \in Platform, NEW book \in Book
    PROVE  /\ DOMAIN ReadClickData(p, book) \in SUBSET (Nat \ {0})
           /\ \A j \in DOMAIN ReadClickData(p, book) :
                 ReadClickData(p, book)[j].count \in Int
<1>1. ReadClickData(p, book) = JuliangReadClickData(book)
  BY DEF Platform, ReadClickData, GdtReadClickData, HonorReadClickData,
         UcReadClickData, KsReadClickData
<1>2. DOMAIN book.rows \in SUBSET (Nat \ {0})
  BY DEF Book
<1>3. DOMAIN JuliangReadClickData(book) \in SUBSET (Nat \ {0})
  BY <1>2 DEF JuliangReadClickData
<1>4. ASSUME NEW j \in DOMAIN JuliangReadClickData(book)
      PROVE  JuliangReadClickData(book)[j].count \in Int
  <2>1. Value(book, j, CountNames).text \in DOMAIN Atoi
    BY <1>4 DEF JuliangReadClickData, IsCount
  <2>2. Atoi[Value(book, j, CountNames).text] \in Int
    BY <2>1, AtoiAssumption
  <2> QED BY <2>2, <1>4 DEF JuliangReadClickData
<1> QED BY <1>1, <1>3, <1>4

\* What the loop reports as executed is a number.
LEMMA ExecutedType ==
    ASSUME NEW p \in Platform, NEW book \in Book, NEW click, click.count \in Int
    PROVE  Executed(p, book, click) \in Int
BY RecordsFinite DEF Executed

-----------------------------------------------------------------------------
(***************************************************************************)
(* Type correctness.  What a handler holds depends on where it is: a       *)
(* source is read before the click list, and a row is taken from the list  *)
(* before its records are sent.                                            *)
(***************************************************************************)
Holds(r) ==
    /\ pc[r] # "idle" => upload[r] \in Upload
    /\ pc[r] \notin {"idle", "form", "replied", "lost"} =>
          Len(upload[r].files) = 2
    /\ pc[r] \in {"readClicks", "loop", "send"} => source[r] \in Book
    /\ pc[r] \in {"loop", "send"} => clicks[r] \in Book
    /\ pc[r] = "send" => row[r] \in DOMAIN ClickList(r)

TypeInv == TypeOK /\ \A r \in Request : Holds(r)

\* Truncated and torn files are contents like any other.
LEMMA UnreadableIsBook == EmptyFile \in Book /\ TornFile \in Book
BY DEF EmptyFile, TornFile, Unreadable, Book

\* The handlers' actions, whatever the platform.
LEMMA HandleCases ==
    ASSUME NEW r \in Request, Handle(r)
    PROVE  upload[r] # None /\ (UploadExcelFiles(r) \/ ProcessExcelAndCallback(r))
BY DEF Handle, Serving, JuliangUpload, JuliangProcess, GdtUpload, GdtProcess,
       HonorUpload, HonorProcess, UcUpload, UcProcess, KsUpload, KsProcess

LEMMA InitType == Init => TypeInv
BY UnreadableIsBook, MaxCrashesAssumption
   DEF Init, TypeInv, TypeOK, Holds, Label, Slot

\* A request in the place and with the data of before.
Same(q) ==
    /\ pc'[q] = pc[q] /\ upload'[q] = upload[q] /\ slot'[q] = slot[q]
    /\ source'[q] = source[q] /\ clicks'[q] = clicks[q] /\ row'[q] = row[q]

LEMMA SameHolds ==
    ASSUME NEW q \in Request, Holds(q), Same(q)
    PROVE  Holds(q)'
BY DEF Holds, Same, ClickList

\* A handler touches the data of its own request only.
LEMMA Frame ==
    ASSUME TypeOK, NEW r \in Request, NEW q \in Request \ {r},
           Receive(r) \/ UploadExcelFiles(r) \/ ProcessExcelAndCallback(r)
    PROVE  Same(q)
<1> USE DEF TypeOK, Same, Goto, Answer
<1>1. CASE Receive(r)
  BY <1>1 DEF Receive
<1>2. CASE ParseForm(r)
  BY <1>2 DEF ParseForm
<1>3. CASE CreateFile(r)
  BY <1>3 DEF CreateFile
<1>4. CASE CopyFile(r)
  BY <1>4 DEF CopyFile
<1>5. CASE ReadSource(r)
  BY <1>5 DEF ReadSource
<1>6. CASE ReadClicks(r)
  BY <1>6 DEF ReadClicks
<1>7. CASE TakeRow(r)
  BY <1>7 DEF TakeRow
<1>8. CASE SendRecord(r)
  BY <1>8 DEF SendRecord
<1>9. CASE CompleteRow(r)
  BY <1>9 DEF CompleteRow
<1>10. CASE Finish(r)
  BY <1>10 DEF Finish
<1> QED BY <1>1, <1>2, <1>3, <1>4, <1>5, <1>6, <1>7, <1>8, <1>9, <1>10
        DEF UploadExcelFiles, ProcessExcelAndCallback

\* Moving to a label and answering keep pc and reply in their sets.
LEMMA GotoType ==
    ASSUME TypeOK, NEW r \in Request, NEW label \in Label, Goto(r, label)
    PROVE  /\ pc' \in [Request -> Label] /\ reply' \in [Request -> Reply \cup {None}]
           /\ pc'[r] = label
BY DEF TypeOK, Goto

LEMMA AnswerType ==
    ASSUME TypeOK, NEW r \in Request, NEW status \in {200, 400, 500},
           Answer(r, status)
    PROVE  /\ pc' \in [Request -> Label] /\ reply' \in [Request -> Reply \cup {None}]
           /\ pc'[r] = "replied"
BY DEF TypeOK, Answer, Label, Reply

LEMMA ReceiveType ==
    ASSUME TypeInv, NEW r \in Request, Receive(r)
    PROVE  TypeOK' /\ Holds(r)'
<1> USE DEF TypeInv
<1>1. /\ pc' \in [Request -> Label] /\ reply' \in [Request -> Reply \cup {None}]
      /\ pc'[r] = "form"
  BY GotoType DEF Receive, Label
<1>2. PICK u \in Submissions[r] : upload' = [upload EXCEPT ![r] = u]
  BY DEF Receive
<1>3. u \in Upload
  BY <1>2, SubmissionsAssumption
<1>4. upload' \in [Request -> Upload \cup {None}] /\ upload'[r] = u
  BY <1>2, <1>3 DEF TypeOK
<1>5. met' \in [Request -> SUBSET Request]
  BY DEF Receive, TypeOK
<1>6. TypeOK'
  BY <1>1, <1>4, <1>5 DEF Receive, TypeOK
<1>7. Holds(r)'
  BY <1>1, <1>3, <1>4 DEF Holds
<1> QED BY <1>6, <1>7

LEMMA ParseFormType ==
    ASSUME TypeInv, NEW r \in Request, upload[r] # None, ParseForm(r)
    PROVE  TypeOK' /\ Holds(r)'
<1> USE DEF TypeInv
<1>1. CASE Answer(r, 400)
  <2>1. /\ pc' \in [Request -> Label] /\ reply' \in [Request -> Reply \cup {None}]
        /\ pc'[r] = "replied"
    BY <1>1, AnswerType
  <2> QED BY <2>1 DEF ParseForm, TypeOK, Holds
<1>2. CASE Len(upload[r].files) = 2 /\ Goto(r, "open")
  BY <1>2, GotoType DEF ParseForm, TypeOK, Holds, Label
<1> QED BY <1>1, <1>2 DEF ParseForm

\* A file of an upload with two files: its path and its content.
LEMMA FileType ==
    ASSUME TypeInv, NEW r \in Request, NEW s \in Slot,
           pc[r] \notin {"idle", "form", "replied", "lost"}
    PROVE  /\ s \in DOMAIN upload[r].files
           /\ upload[r].files[s] \in File
           /\ SavePath(r, s) \in Path
<1>1. upload[r] \in Upload /\ Len(upload[r].files) = 2
  BY DEF TypeInv, TypeOK, Holds
<1>2. upload[r].files \in Seq(File) /\ s \in 1..2
  BY <1>1 DEF Upload, Slot
<1>3. s \in DOMAIN upload[r].files
  <2>1. DOMAIN upload[r].files = 1..2
    BY <1>1, <1>2
  <2> QED BY <1>2, <2>1
<1>4. upload[r].files[s] \in File
  BY <1>2, <1>3
<1> QED BY <1>3, <1>4 DEF SavePath, Path, File

LEMMA CreateFileType ==
    ASSUME TypeInv, NEW r \in Request, upload[r] # None, CreateFile(r)
    PROVE  TypeOK' /\ Holds(r)'
<1> USE DEF TypeInv
<1>1. CASE Answer(r, 400) /\ UNCHANGED disk
  <2>1. /\ pc' \in [Request -> Label] /\ reply' \in [Request -> Reply \cup {None}]
        /\ pc'[r] = "replied"
    BY <1>1, AnswerType
  <2> QED BY <1>1, <2>1 DEF CreateFile, TypeOK, Holds
<1>2. CASE Answer(r, 500) /\ UNCHANGED disk
  <2>1. /\ pc' \in [Request -> Label] /\ reply' \in [Request -> Reply \cup {None}]
        /\ pc'[r] = "replied"
    BY <1>2, AnswerType
  <2> QED BY <1>2, <2>1 DEF CreateFile, TypeOK, Holds
<1>3. CASE /\ disk' = [disk EXCEPT ![SavePath(r, slot[r])] = EmptyFile]
           /\ Goto(r, "write")
  <2>1. disk' \in [Path -> Book]
    BY <1>3, UnreadableIsBook DEF TypeOK
  <2>2. /\ pc' \in [Request -> Label] /\ reply' \in [Request -> Reply \cup {None}]
        /\ pc'[r] = "write"
    BY <1>3, GotoType DEF Label
  <2>3. pc[r] = "open"
    BY DEF CreateFile
  <2> QED BY <2>1, <2>2, <2>3 DEF CreateFile, TypeOK, Holds
<1> QED BY <1>1, <1>2, <1>3 DEF CreateFile

LEMMA CopyFileType ==
    ASSUME TypeInv, NEW r \in Request, upload[r] # None, CopyFile(r)
    PROVE  TypeOK' /\ Holds(r)'
<1> USE DEF TypeInv
<1> DEFINE path == SavePath(r, slot[r])
<1>0. pc[r] = "write" /\ slot[r] \in Slot
  BY DEF CopyFile, TypeOK
<1>1. CASE /\ disk' = [disk EXCEPT ![path] = TornFile]
           /\ Answer(r, 500)
           /\ UNCHANGED slot
  <2>1. disk' \in [Path -> Book]
    BY <1>1, UnreadableIsBook DEF TypeOK
  <2>2. /\ pc' \in [Request -> Label] /\ reply' \in [Request -> Reply \cup {None}]
        /\ pc'[r] = "replied"
    BY <1>1, AnswerType
  <2> QED BY <1>1, <2>1, <2>2, <1>0 DEF CopyFile, TypeOK, Holds
<1>2. ASSUME NEW content \in {upload[r].files[slot[r]].book, TornFile},
             disk' = [disk EXCEPT ![path] = content],
             slot' = [slot EXCEPT ![r] = NextSlot(@)],
             Goto(r, IF slot[r] = 1 THEN "open" ELSE "readSource")
      PROVE  TypeOK' /\ Holds(r)'
  <2>1. content \in Book
    BY <1>0, <1>2, FileType, UnreadableIsBook DEF File
  <2>2. disk' \in [Path -> Book]
    BY <1>2, <2>1 DEF TypeOK
  <2>3. slot' \in [Request -> Slot]
    BY <1>2 DEF TypeOK, Slot, NextSlot
  <2>4. /\ pc' \in [Request -> Label] /\ reply' \in [Request -> Reply \cup {None}]
        /\ pc'[r] \in {"open", "readSource"}
    BY <1>2, GotoType DEF Label
  <2> QED BY <1>0, <2>2, <2>3, <2>4 DEF CopyFile, TypeOK, Holds
<1>3. \/ /\ disk' = [disk EXCEPT ![path] = TornFile]
         /\ Answer(r, 500)
         /\ UNCHANGED slot
      \/ /\ \E content \in {upload[r].files[slot[r]].book, TornFile} :
               disk' = [disk EXCEPT ![path] = content]
         /\ slot' = [slot EXCEPT ![r] = NextSlot(@)]
         /\ Goto(r, IF slot[r] = 1 THEN "open" ELSE "readSource")
  BY DEF CopyFile
<1> QED BY <1>1, <1>2, <1>3

\* What a handler finds in a file is a content (Found).
LEMMA FoundType ==
    ASSUME TypeInv, NEW r \in Request, NEW s \in Slot,
           pc[r] \notin {"idle", "form", "replied", "lost"},
           NEW book \in Found(r, SavePath(r, s))
    PROVE  book \in Book
<1>1. SavePath(r, s) \in Path
  BY FileType
<1>2. disk[SavePath(r, s)] \in Book /\ TornFile \in Book
  BY <1>1, UnreadableIsBook DEF TypeInv, TypeOK
<1> QED BY <1>2 DEF Found

LEMMA ReadSourceType ==
    ASSUME TypeInv, NEW r \in Request, upload[r] # None, ReadSource(r)
    PROVE  TypeOK' /\ Holds(r)'
<1> USE DEF TypeInv
<1>0. pc[r] = "readSource"
  BY DEF ReadSource
<1>1. CASE Answer(r, 500) /\ UNCHANGED source
  <2>1. /\ pc' \in [Request -> Label] /\ reply' \in [Request -> Reply \cup {None}]
        /\ pc'[r] = "replied"
    BY <1>1, AnswerType
  <2> QED BY <1>0, <1>1, <2>1 DEF ReadSource, TypeOK, Holds
<1>2. ASSUME NEW book \in Found(r, SavePath(r, 1)),
             source' = [source EXCEPT ![r] = book], Goto(r, "readClicks")
      PROVE  TypeOK' /\ Holds(r)'
  <2>1. book \in Book
    BY <1>0, <1>2, FoundType DEF Slot
  <2>2. source' \in [Request -> Book \cup {None}] /\ source'[r] = book
    BY <1>2, <2>1 DEF TypeOK
  <2>3. /\ pc' \in [Request -> Label] /\ reply' \in [Request -> Reply \cup {None}]
        /\ pc'[r] = "readClicks"
    BY <1>2, GotoType DEF Label
  <2> QED BY <1>0, <2>1, <2>2, <2>3 DEF ReadSource, TypeOK, Holds
<1> QED BY <1>1, <1>2 DEF ReadSource

LEMMA ReadClicksType ==
    ASSUME TypeInv, NEW r \in Request, upload[r] # None, ReadClicks(r)
    PROVE  TypeOK' /\ Holds(r)'
<1> USE DEF TypeInv
<1>0. pc[r] = "readClicks"
  BY DEF ReadClicks
<1>1. CASE Answer(r, 500) /\ UNCHANGED clicks
  <2>1. /\ pc' \in [Request -> Label] /\ reply' \in [Request -> Reply \cup {None}]
        /\ pc'[r] = "replied"
    BY <1>1, AnswerType
  <2> QED BY <1>0, <1>1, <2>1 DEF ReadClicks, TypeOK, Holds
<1>2. ASSUME NEW book \in Found(r, SavePath(r, 2)),
             clicks' = [clicks EXCEPT ![r] = book], Goto(r, "loop")
      PROVE  TypeOK' /\ Holds(r)'
  <2>1. book \in Book
    BY <1>0, <1>2, FoundType DEF Slot
  <2>2. clicks' \in [Request -> Book \cup {None}] /\ clicks'[r] = book
    BY <1>2, <2>1 DEF TypeOK
  <2>3. /\ pc' \in [Request -> Label] /\ reply' \in [Request -> Reply \cup {None}]
        /\ pc'[r] = "loop"
    BY <1>2, GotoType DEF Label
  <2> QED BY <1>0, <2>1, <2>2, <2>3 DEF ReadClicks, TypeOK, Holds
<1> QED BY <1>1, <1>2 DEF ReadClicks

\* In the loop both workbooks are read, and the platform is one of the five.
LEMMA LoopFacts ==
    ASSUME TypeInv, NEW r \in Request, pc[r] \in {"loop", "send"}
    PROVE  /\ upload[r].platform \in Platform
           /\ source[r] \in Book /\ clicks[r] \in Book
           /\ DOMAIN ClickList(r) \in SUBSET (Nat \ {0})
           /\ \A j \in DOMAIN ClickList(r) : ToSend(r, j) \in Int
           /\ \A click : Slice(r, click) \in SUBSET Nat
<1>1. upload[r].platform \in Platform /\ source[r] \in Book /\ clicks[r] \in Book
  BY DEF TypeInv, Holds, Upload
<1>2. /\ DOMAIN ClickList(r) \in SUBSET (Nat \ {0})
      /\ \A j \in DOMAIN ClickList(r) : ClickList(r)[j].count \in Int
  BY <1>1, ClickListType DEF ClickList
<1>3. \A j \in DOMAIN ClickList(r) : ToSend(r, j) \in Int
  BY <1>1, <1>2, ExecutedType DEF ToSend
<1>4. ASSUME NEW click PROVE Slice(r, click) \in SUBSET Nat
  <2>1. Records(upload[r].platform, source[r], click.ad)
           \in SUBSET (1..Len(source[r].rows))
    BY <1>1, RecordsAreRows
  <2>2. Len(source[r].rows) \in Nat
    BY <1>1 DEF Book
  <2> QED BY <2>1, <2>2 DEF Slice
<1> QED BY <1>1, <1>2, <1>3, <1>4

LEMMA TakeRowType ==
    ASSUME TypeInv, NEW r \in Request, upload[r] # None, TakeRow(r)
    PROVE  TypeOK' /\ Holds(r)'
<1> USE DEF TypeInv
<1> DEFINE j == Least(Pending(r))
<1>0. pc[r] = "loop" /\ Pending(r) # {}
  BY DEF TakeRow
<1>1. DOMAIN ClickList(r) \in SUBSET Nat
  BY <1>0, LoopFacts
<1>2. j \in DOMAIN ClickList(r) /\ j \in Nat
  <2>1. Pending(r) \in SUBSET Nat /\ Pending(r) \in SUBSET DOMAIN ClickList(r)
    BY <1>1 DEF Pending
  <2>2. j \in Pending(r)
    BY <1>0, <2>1, LeastIsLeast
  <2> QED BY <2>1, <2>2
<1>3. row' \in [Request -> Nat] /\ row'[r] = j
  BY <1>2 DEF TakeRow, TypeOK
<1>4. ClickList(r)' = ClickList(r)
  BY DEF TakeRow, ClickList
<1>5. CASE AddDetail(r, j, "skipped", 0) /\ UNCHANGED <<pc, reply>>
  <2>1. [click |-> j, status |-> "skipped", executed |-> 0] \in Detail
    BY <1>2 DEF Detail
  <2>2. details' \in [Request -> Seq(Detail)]
    BY <1>5, <2>1 DEF AddDetail, TypeOK
  <2> QED BY <1>0, <1>3, <1>5, <2>2 DEF TakeRow, TypeOK, Holds
<1>6. CASE UNCHANGED details /\ Goto(r, "send")
  <2>1. /\ pc' \in [Request -> Label] /\ reply' \in [Request -> Reply \cup {None}]
        /\ pc'[r] = "send"
    BY <1>6, GotoType DEF Label
  <2>2. TypeOK'
    BY <1>3, <1>6, <2>1 DEF TakeRow, TypeOK
  <2>3. Holds(r)'
    BY <1>0, <1>2, <1>3, <1>4, <2>1 DEF TakeRow, Holds
  <2> QED BY <2>2, <2>3
<1> QED BY <1>5, <1>6 DEF TakeRow

LEMMA OutcomesAreHttp ==
    ASSUME NEW p \in Platform PROVE CallbackOutcomes(p) = HttpGet
BY DEF Platform, CallbackOutcomes, SendCallback, ExecuteGdtCallback,
       SendHonorCallback, ExecuteUcCallback, ExecuteKsCallback

LEMMA SendRecordType ==
    ASSUME TypeInv, NEW r \in Request, upload[r] # None, SendRecord(r)
    PROVE  TypeOK' /\ Holds(r)'
<1> USE DEF TypeInv
<1>0. pc[r] = "send" /\ row[r] \in Nat
  BY DEF SendRecord, TypeOK
<1>1. PICK i \in Slice(r, ClickList(r)[row[r]]),
           o \in CallbackOutcomes(upload[r].platform) :
        /\ sent' = [sent EXCEPT ![r] = Append(@,
                       [row |-> i, click |-> row[r],
                        accepted |-> o.accepted, ok |-> o.ok])]
        /\ total' = [total EXCEPT ![r] = @ + 1]
        /\ success' = IF o.ok THEN [success EXCEPT ![r] = @ + 1] ELSE success
        /\ failed' = IF o.ok THEN failed ELSE [failed EXCEPT ![r] = @ + 1]
  BY DEF SendRecord
<1>2. i \in Nat
  BY <1>0, LoopFacts
<1>3. o \in Outcome
  BY <1>0, LoopFacts, OutcomesAreHttp DEF HttpGet
<1>4. [row |-> i, click |-> row[r], accepted |-> o.accepted, ok |-> o.ok] \in Sent
  BY <1>0, <1>2, <1>3 DEF Sent, Outcome
<1>5. sent' \in [Request -> Seq(Sent)]
  BY <1>1, <1>4 DEF TypeOK
<1>6. total' \in [Request -> Nat]
  BY <1>1 DEF TypeOK
<1>7. success' \in [Request -> Nat]
  BY <1>1 DEF TypeOK
<1>8. failed' \in [Request -> Nat]
  BY <1>1 DEF TypeOK
<1>9. TypeOK'
  BY <1>5, <1>6, <1>7, <1>8 DEF SendRecord, TypeOK
<1>10. Holds(r)'
  BY DEF SendRecord, Holds, ClickList
<1> QED BY <1>9, <1>10

LEMMA CompleteRowType ==
    ASSUME TypeInv, NEW r \in Request, upload[r] # None, CompleteRow(r)
    PROVE  TypeOK' /\ Holds(r)'
<1> USE DEF TypeInv
<1>0. pc[r] = "send" /\ row[r] \in DOMAIN ClickList(r)
  BY DEF CompleteRow, Holds
<1>1. ToSend(r, row[r]) \in Int /\ row[r] \in Nat
  BY <1>0, LoopFacts
<1>2. [click |-> row[r], status |-> "completed", executed |-> ToSend(r, row[r])]
         \in Detail
  BY <1>1 DEF Detail
<1>3. details' \in [Request -> Seq(Detail)]
  BY <1>2 DEF CompleteRow, AddDetail, TypeOK
<1>4. /\ pc' \in [Request -> Label] /\ reply' \in [Request -> Reply \cup {None}]
      /\ pc'[r] = "loop"
  BY GotoType DEF CompleteRow, Label
<1> QED BY <1>0, <1>3, <1>4 DEF CompleteRow, TypeOK, Holds

LEMMA FinishType ==
    ASSUME TypeInv, NEW r \in Request, upload[r] # None, Finish(r)
    PROVE  TypeOK' /\ Holds(r)'
<1> USE DEF TypeInv
<1>0. pc[r] = "loop" /\ Answer(r, 200)
  BY DEF Finish
<1>1. /\ pc' \in [Request -> Label] /\ reply' \in [Request -> Reply \cup {None}]
      /\ pc'[r] = "replied"
  BY <1>0, AnswerType
<1> QED BY <1>0, <1>1 DEF Finish, TypeOK, Holds

LEMMA CrashType ==
    ASSUME TypeInv, Crash
    PROVE  TypeInv'
<1> USE DEF TypeInv
<1>1. crashes' \in 0..MaxCrashes
  BY MaxCrashesAssumption DEF Crash, TypeOK
<1>2. pc' \in [Request -> Label]
  BY DEF Crash, TypeOK, Label
<1>3. TypeOK'
  BY <1>1, <1>2 DEF Crash, TypeOK
<1>4. ASSUME NEW q \in Request PROVE Holds(q)'
  BY DEF Crash, TypeOK, Holds
<1> QED BY <1>3, <1>4

LEMMA NextType == TypeInv /\ [Next]_vars => TypeInv'
<1> SUFFICES ASSUME TypeInv, [Next]_vars PROVE TypeInv'
  OBVIOUS
<1>1. ASSUME NEW r \in Request, TypeOK', Holds(r)',
             Receive(r) \/ UploadExcelFiles(r) \/ ProcessExcelAndCallback(r)
      PROVE  TypeInv'
  <2>1. ASSUME NEW q \in Request \ {r} PROVE Holds(q)'
    BY <1>1, Frame, SameHolds DEF TypeInv
  <2> QED BY <1>1, <2>1 DEF TypeInv
<1>2. ASSUME NEW r \in Request, Receive(r) PROVE TypeInv'
  BY <1>1, <1>2, ReceiveType
<1>3. ASSUME NEW r \in Request, Handle(r) PROVE TypeInv'
  <2>1. upload[r] # None /\ (UploadExcelFiles(r) \/ ProcessExcelAndCallback(r))
    BY <1>3, HandleCases
  <2>2. TypeOK' /\ Holds(r)'
    BY <2>1, ParseFormType, CreateFileType, CopyFileType, ReadSourceType,
       ReadClicksType, TakeRowType, SendRecordType, CompleteRowType, FinishType
       DEF UploadExcelFiles, ProcessExcelAndCallback
  <2> QED BY <1>1, <2>1, <2>2
<1>4. CASE UNCHANGED vars
  <2>1. TypeOK'
    BY <1>4 DEF TypeInv, TypeOK, vars, request
  <2>2. ASSUME NEW q \in Request PROVE Holds(q)'
    BY <1>4, SameHolds DEF TypeInv, vars, request, Same
  <2> QED BY <2>1, <2>2 DEF TypeInv
<1>5. CASE Crash
  BY <1>5, CrashType
<1> QED BY <1>2, <1>3, <1>4, <1>5 DEF Next, Quiet

\* Every variable keeps its type: in particular the row that is sent, and the
\* number reported as executed, are defined whatever the two sheets hold.
THEOREM TypeCorrect == Spec => []TypeOK
<1>1. TypeInv => TypeOK
  BY DEF TypeInv
<1> QED BY InitType, NextType, <1>1, PTL DEF Spec

-----------------------------------------------------------------------------
Active == {"open", "write", "readSource", "readClicks", "loop", "send"}

\* What is on disk for a request that saves or is about to read.
Saved(r) ==
    /\ pc[r] = "write" => disk[SavePath(r, slot[r])] = EmptyFile
    /\ \/ pc[r] = "readSource"
       \/ pc[r] \in {"open", "write"} /\ slot[r] = 2
       => disk[SavePath(r, 1)] = upload[r].files[1].book
    /\ pc[r] \in {"readSource", "readClicks"} =>
          disk[SavePath(r, 2)] = upload[r].files[2].book

Apart(r, q) ==
    r # q /\ InFlight(r) /\ InFlight(q) /\ q \notin met[r]
        => ~SharesFile(upload[q], upload[r])

OwnInv ==
    /\ TypeInv
    /\ \A r \in Request : pc[r] = "idle" => source[r] = None /\ clicks[r] = None
    /\ \A r \in Request : pc[r] \in {"idle", "form"} => slot[r] = 1
    /\ \A r \in Request : met[r] = {} => Saved(r) /\ ReadOwn(r)
    /\ \A r, q \in Request : Apart(r, q)

LEMMA InitOwn == Init => OwnInv
BY InitType DEF Init, OwnInv, Saved, ReadOwn, Apart, InFlight

\* Two active requests with a path in common share a file.
LEMMA PathShared ==
    ASSUME TypeInv, NEW r \in Request, NEW q \in Request,
           pc[r] \in Active, pc[q] \in Active,
           NEW s \in Slot, NEW t \in Slot, SavePath(r, s) = SavePath(q, t)
    PROVE  SharesFile(upload[q], upload[r])
<1>1. s = t /\ upload[r].files[s].name = upload[q].files[t].name
  BY DEF SavePath
<1>2. s \in DOMAIN upload[r].files /\ s \in DOMAIN upload[q].files
  BY <1>1, FileType DEF Active
<1> QED BY <1>1, <1>2 DEF SharesFile

\* Nobody else has a file of a request open that met no rival.
LEMMA Uncontended ==
    ASSUME OwnInv, NEW r \in Request, met[r] = {}, pc[r] \in Active, NEW s \in Slot
    PROVE  ~Contended(r, SavePath(r, s))
<1> SUFFICES ASSUME NEW q \in Request \ {r}, pc[q] = "write",
                    SavePath(q, slot[q]) = SavePath(r, s)
             PROVE  FALSE
  BY DEF Contended
<1>1. slot[q] \in Slot
  BY DEF OwnInv, TypeInv, TypeOK
<1>2. SharesFile(upload[q], upload[r])
  BY <1>1, PathShared DEF Active, OwnInv
<1> QED BY <1>2 DEF OwnInv, Apart, InFlight, Active

\* Other handlers leave the files of such a request alone.
LEMMA PathKept ==
    ASSUME OwnInv, NEW r \in Request, met[r] = {}, pc[r] \in Active,
           NEW q \in Request \ {r},
           UploadExcelFiles(q) \/ ProcessExcelAndCallback(q),
           NEW s \in Slot
    PROVE  disk'[SavePath(r, s)] = disk[SavePath(r, s)]
<1>1. disk \in [Path -> Book] /\ slot[q] \in Slot
  BY DEF OwnInv, TypeInv, TypeOK
<1>2. ASSUME pc[q] \in {"open", "write"}
      PROVE  SavePath(q, slot[q]) # SavePath(r, s)
  <2>1. SavePath(q, slot[q]) = SavePath(r, s) => SharesFile(upload[q], upload[r])
    BY <1>1, <1>2, PathShared DEF Active, OwnInv
  <2> QED BY <2>1, <1>2 DEF OwnInv, Apart, InFlight, Active
<1>3. SavePath(r, s) \in Path
  BY FileType DEF OwnInv, Active
<1>4. CASE CreateFile(q)
  BY <1>1, <1>2, <1>3, <1>4 DEF CreateFile
<1>5. CASE CopyFile(q)
  <2>1. \E content : disk' = [disk EXCEPT ![SavePath(q, slot[q])] = content]
    BY <1>5 DEF CopyFile
  <2>2. pc[q] = "write"
    BY <1>5 DEF CopyFile
  <2> QED BY <1>1, <1>2, <1>3, <2>1, <2>2
<1>6. CASE ~CreateFile(q) /\ ~CopyFile(q)
  <2>1. UNCHANGED disk
    BY <1>6 DEF UploadExcelFiles, ProcessExcelAndCallback, ParseForm,
       ReadSource, ReadClicks, TakeRow, SendRecord, CompleteRow, Finish
  <2> QED BY <2>1
<1> QED BY <1>4, <1>5, <1>6

\* A handler's step keeps the uploads and who met whom, and does not start a
\* request.
LEMMA HandlerFrame ==
    ASSUME TypeOK, NEW q \in Request, upload[q] # None,
           UploadExcelFiles(q) \/ ProcessExcelAndCallback(q)
    PROVE  /\ UNCHANGED <<upload, met>>
           /\ pc[q] \in Active \cup {"form"}
           /\ pc'[q] \in Active \cup {"replied"}
<1> USE DEF TypeOK, Goto, Answer, Active
<1>1. CASE ParseForm(q)
  BY <1>1 DEF ParseForm
<1>2. CASE CreateFile(q)
  BY <1>2 DEF CreateFile
<1>3. CASE CopyFile(q)
  BY <1>3 DEF CopyFile
<1>4. CASE ReadSource(q)
  BY <1>4 DEF ReadSource
<1>5. CASE ReadClicks(q)
  BY <1>5 DEF ReadClicks
<1>6. CASE TakeRow(q)
  BY <1>6 DEF TakeRow
<1>7. CASE SendRecord(q)
  BY <1>7 DEF SendRecord
<1>8. CASE CompleteRow(q)
  BY <1>8 DEF CompleteRow
<1>9. CASE Finish(q)
  BY <1>9 DEF Finish
<1> QED BY <1>1, <1>2, <1>3, <1>4, <1>5, <1>6, <1>7, <1>8, <1>9
        DEF UploadExcelFiles, ProcessExcelAndCallback

-----------------------------------------------------------------------------
\* The steps of the request itself.
LEMMA CreateOwn ==
    ASSUME OwnInv, NEW r \in Request, met[r] = {}, CreateFile(r)
    PROVE  Saved(r)' /\ ReadOwn(r)'
<1> USE DEF OwnInv, TypeInv, TypeOK
<1>0. pc[r] = "open" /\ slot[r] \in Slot /\ Saved(r) /\ ReadOwn(r)
  BY DEF CreateFile
<1>1. ReadOwn(r)'
  BY <1>0 DEF CreateFile, ReadOwn
<1>2. ASSUME NEW status \in {400, 500}, Answer(r, status)
      PROVE  Saved(r)'
  BY <1>2 DEF Answer, Saved
<1>3. ASSUME disk' = [disk EXCEPT ![SavePath(r, slot[r])] = EmptyFile],
             Goto(r, "write")
      PROVE  Saved(r)'
  <2>1. \A s \in Slot : SavePath(r, s) \in Path
    BY <1>0, FileType
  <2>2. disk'[SavePath(r, slot[r])] = EmptyFile
    BY <1>0, <1>3, <2>1
  <2>3. slot[r] = 2 => disk'[SavePath(r, 1)] = disk[SavePath(r, 1)]
    BY <1>3, <2>1 DEF SavePath, Slot
  <2>4. pc'[r] = "write" /\ UNCHANGED <<upload, slot>>
    BY <1>3 DEF Goto, CreateFile
  <2> QED BY <1>0, <2>2, <2>3, <2>4 DEF Saved, SavePath
<1> QED BY <1>1, <1>2, <1>3 DEF CreateFile

LEMMA CopyOwn ==
    ASSUME OwnInv, NEW r \in Request, met[r] = {}, CopyFile(r)
    PROVE  Saved(r)' /\ ReadOwn(r)'
<1> USE DEF OwnInv, TypeInv, TypeOK
<1> DEFINE path == SavePath(r, slot[r])
<1>0. pc[r] = "write" /\ slot[r] \in Slot /\ Saved(r) /\ ReadOwn(r)
  BY DEF CopyFile
<1>1. ReadOwn(r)'
  BY <1>0 DEF CopyFile, ReadOwn
<1>2. disk[path] = EmptyFile /\ ~Contended(r, path)
  BY <1>0, Uncontended DEF Saved, Active
<1>3. ASSUME Answer(r, 500)
      PROVE  Saved(r)'
  BY <1>3 DEF Answer, Saved
<1>4. ASSUME disk' = [disk EXCEPT ![path] = upload[r].files[slot[r]].book],
             slot' = [slot EXCEPT ![r] = NextSlot(@)],
             Goto(r, IF slot[r] = 1 THEN "open" ELSE "readSource")
      PROVE  Saved(r)'
  <2>1. \A s \in Slot : SavePath(r, s) \in Path
    BY <1>0, FileType
  <2>2. disk'[path] = upload[r].files[slot[r]].book
    BY <1>0, <1>4, <2>1
  <2>3. slot[r] = 2 => disk'[SavePath(r, 1)] = disk[SavePath(r, 1)]
    BY <1>4, <2>1 DEF SavePath, Slot
  <2>4. pc'[r] = (IF slot[r] = 1 THEN "open" ELSE "readSource") /\ slot'[r] = 2
    BY <1>0, <1>4 DEF Goto, NextSlot, Slot
  <2>5. UNCHANGED upload
    BY DEF CopyFile
  <2>6. CASE slot[r] = 1
    BY <2>2, <2>4, <2>5, <2>6 DEF Saved, SavePath
  <2>7. CASE slot[r] = 2
    BY <1>0, <2>2, <2>3, <2>4, <2>5, <2>7 DEF Saved, SavePath
  <2> QED BY <1>0, <2>6, <2>7 DEF Slot
<1>5. \/ Answer(r, 500)
      \/ /\ \E content \in {upload[r].files[slot[r]].book} :
               disk' = [disk EXCEPT ![path] = content]
         /\ slot' = [slot EXCEPT ![r] = NextSlot(@)]
         /\ Goto(r, IF slot[r] = 1 THEN "open" ELSE "readSource")
  BY <1>2 DEF CopyFile
<1> QED BY <1>1, <1>3, <1>4, <1>5

LEMMA ReadSourceOwn ==
    ASSUME OwnInv, NEW r \in Request, met[r] = {}, ReadSource(r)
    PROVE  Saved(r)' /\ ReadOwn(r)'
<1> USE DEF OwnInv, TypeInv, TypeOK
<1>0. pc[r] = "readSource" /\ Saved(r) /\ ReadOwn(r)
  BY DEF ReadSource
<1>1. Found(r, SavePath(r, 1)) = {upload[r].files[1].book}
  <2>1. ~Contended(r, SavePath(r, 1))
    BY <1>0, Uncontended DEF Active, Slot
  <2> QED BY <1>0, <2>1 DEF Found, Saved
<1>2. CASE Answer(r, 500) /\ UNCHANGED source
  BY <1>0, <1>2 DEF ReadSource, Answer, Saved, ReadOwn
<1>3. CASE /\ source' = [source EXCEPT ![r] = upload[r].files[1].book]
           /\ Goto(r, "readClicks")
  BY <1>0, <1>3 DEF ReadSource, Goto, Saved, SavePath, ReadOwn
<1> QED BY <1>1, <1>2, <1>3 DEF ReadSource

LEMMA ReadClicksOwn ==
    ASSUME OwnInv, NEW r \in Request, met[r] = {}, ReadClicks(r)
    PROVE  Saved(r)' /\ ReadOwn(r)'
<1> USE DEF OwnInv, TypeInv, TypeOK
<1>0. pc[r] = "readClicks" /\ Saved(r) /\ ReadOwn(r)
  BY DEF ReadClicks
<1>1. Found(r, SavePath(r, 2)) = {upload[r].files[2].book}
  <2>1. ~Contended(r, SavePath(r, 2))
    BY <1>0, Uncontended DEF Active, Slot
  <2> QED BY <1>0, <2>1 DEF Found, Saved
<1>2. CASE Answer(r, 500) /\ UNCHANGED clicks
  BY <1>0, <1>2 DEF ReadClicks, Answer, Saved, ReadOwn
<1>3. CASE /\ clicks' = [clicks EXCEPT ![r] = upload[r].files[2].book]
           /\ Goto(r, "loop")
  BY <1>0, <1>3 DEF ReadClicks, Goto, Saved, ReadOwn
<1> QED BY <1>1, <1>2, <1>3 DEF ReadClicks

\* The remaining steps neither write nor read a file.
LEMMA LoopOwn ==
    ASSUME OwnInv, NEW r \in Request, met[r] = {},
           \/ ParseForm(r) \/ TakeRow(r) \/ SendRecord(r) \/ CompleteRow(r)
           \/ Finish(r)
    PROVE  Saved(r)' /\ ReadOwn(r)'
<1> USE DEF OwnInv, TypeInv, TypeOK
<1>0. ReadOwn(r)
  OBVIOUS
<1>1. CASE ParseForm(r)
  <2>1. slot[r] = 1
    BY <1>1 DEF ParseForm
  <2> QED BY <1>0, <1>1, <2>1 DEF ParseForm, Answer, Goto, Saved, ReadOwn
<1>2. CASE TakeRow(r)
  BY <1>0, <1>2 DEF TakeRow, Goto, Saved, ReadOwn
<1>3. CASE SendRecord(r)
  BY <1>0, <1>3 DEF SendRecord, Saved, ReadOwn
<1>4. CASE CompleteRow(r)
  BY <1>0, <1>4 DEF CompleteRow, Goto, Saved, ReadOwn
<1>5. CASE Finish(r)
  BY <1>0, <1>5 DEF Finish, Answer, Saved, ReadOwn
<1> QED BY <1>1, <1>2, <1>3, <1>4, <1>5

-----------------------------------------------------------------------------
\* A step of one handler keeps the files of every other request.
LEMMA HandlerOwn ==
    ASSUME OwnInv, TypeInv', NEW q \in Request, upload[q] # None,
           UploadExcelFiles(q) \/ ProcessExcelAndCallback(q)
    PROVE  OwnInv'
<1>0. TypeOK /\ pc[q] # "idle"
  BY HandlerFrame DEF OwnInv, TypeInv, Active
<1>1. /\ UNCHANGED <<upload, met>>
      /\ pc[q] \in Active \cup {"form"} /\ pc'[q] \in Active \cup {"replied"}
  BY <1>0, HandlerFrame
<1>2. \A r \in Request \ {q} : Same(r)
  BY <1>0, Frame
<1>3. ASSUME NEW r \in Request, pc'[r] = "idle"
      PROVE  source'[r] = None /\ clicks'[r] = None
  BY <1>1, <1>2, <1>3 DEF OwnInv, Same, Active
<1>4. ASSUME NEW r \in Request, pc'[r] \in {"idle", "form"}
      PROVE  slot'[r] = 1
  BY <1>1, <1>2, <1>4 DEF OwnInv, Same, Active
<1>5. ASSUME NEW r \in Request, met'[r] = {}
      PROVE  Saved(r)' /\ ReadOwn(r)'
  <2>1. met[r] = {} /\ Saved(r) /\ ReadOwn(r)
    BY <1>1, <1>5 DEF OwnInv
  <2>2. CASE r = q
    BY <2>1, <2>2, CreateOwn, CopyOwn, ReadSourceOwn, ReadClicksOwn, LoopOwn
       DEF UploadExcelFiles, ProcessExcelAndCallback
  <2>3. CASE r # q
    <3>1. Same(r) /\ UNCHANGED upload
      BY <1>1, <1>2, <2>3
    <3>2. ReadOwn(r)'
      BY <2>1, <3>1 DEF ReadOwn, Same
    <3>3. ASSUME pc[r] \in Active, NEW s \in Slot
          PROVE  disk'[SavePath(r, s)] = disk[SavePath(r, s)]
      BY <2>1, <2>3, <3>3, PathKept
    <3>4. slot[r] \in Slot /\ 1 \in Slot /\ 2 \in Slot
      BY <1>0 DEF TypeOK, Slot
    <3>5. Saved(r)'
      BY <2>1, <3>1, <3>3, <3>4 DEF Saved, SavePath, Same, Active
    <3> QED BY <3>2, <3>5
  <2> QED BY <2>2, <2>3
<1>6. ASSUME NEW r \in Request, NEW t \in Request
      PROVE  Apart(r, t)'
  <2>1. InFlight(r)' => InFlight(r)
    BY <1>1, <1>2 DEF InFlight, Same, Active
  <2>2. InFlight(t)' => InFlight(t)
    BY <1>1, <1>2 DEF InFlight, Same, Active
  <2>3. Apart(r, t)
    BY DEF OwnInv
  <2> QED BY <1>1, <2>1, <2>2, <2>3 DEF Apart
<1> QED BY <1>3, <1>4, <1>5, <1>6 DEF OwnInv

LEMMA ReceiveOwn ==
    ASSUME OwnInv, TypeInv', NEW q \in Request, Receive(q)
    PROVE  OwnInv'
<1> DEFINE rivals(u) == {r \in Request : InFlight(r) /\ SharesFile(upload[r], u)}
<1>0. TypeOK /\ pc[q] = "idle"
  BY DEF OwnInv, TypeInv, Receive
<1>1. PICK u \in Submissions[q] :
        /\ upload' = [upload EXCEPT ![q] = u]
        /\ met' = [r \in Request |->
                     IF r = q THEN rivals(u)
                     ELSE IF r \in rivals(u) THEN met[r] \cup {q} ELSE met[r]]
  BY DEF Receive
<1>2. pc' = [pc EXCEPT ![q] = "form"]
      /\ UNCHANGED <<disk, slot, source, clicks>>
  BY DEF Receive, Goto
<1>3. upload'[q] = u /\ pc'[q] = "form" /\ source[q] = None /\ clicks[q] = None
  BY <1>0, <1>1, <1>2 DEF TypeOK, OwnInv
<1>4. \A r \in Request \ {q} : pc'[r] = pc[r] /\ upload'[r] = upload[r]
  BY <1>0, <1>1, <1>2 DEF TypeOK
<1>5. \A r \in Request : pc'[r] = "idle" => source'[r] = None /\ clicks'[r] = None
  BY <1>2, <1>3, <1>4 DEF OwnInv
<1>6. \A r \in Request : pc'[r] \in {"idle", "form"} => slot'[r] = 1
  BY <1>0, <1>2, <1>4 DEF OwnInv
<1>7. ASSUME NEW r \in Request, met'[r] = {}
      PROVE  Saved(r)' /\ ReadOwn(r)'
  <2>1. CASE r = q
    BY <1>2, <1>3, <2>1 DEF Saved, ReadOwn
  <2>2. CASE r # q
    <3>1. met[r] = {}
      BY <1>1, <1>7, <2>2
    <3>2. Saved(r) /\ ReadOwn(r)
      BY <3>1 DEF OwnInv
    <3> QED BY <1>2, <1>4, <2>2, <3>2 DEF Saved, SavePath, ReadOwn
  <2> QED BY <2>1, <2>2
<1>8. ASSUME NEW r \in Request, NEW t \in Request
      PROVE  Apart(r, t)'
  <2> SUFFICES ASSUME r # t, InFlight(r)', InFlight(t)', t \notin met'[r]
               PROVE  ~SharesFile(upload'[t], upload'[r])
    BY DEF Apart
  <2>1. CASE r = q
    <3>1. InFlight(t) /\ t \notin rivals(u)
      BY <1>1, <1>4, <2>1 DEF InFlight
    <3> QED BY <1>3, <1>4, <2>1, <3>1
  <2>2. CASE t = q
    <3>1. InFlight(r) /\ r \notin rivals(u)
      BY <1>1, <1>4, <2>2 DEF InFlight
    <3>2. ~SharesFile(upload[r], u)
      BY <3>1
    <3> QED BY <1>3, <1>4, <2>2, <3>2 DEF SharesFile
  <2>3. CASE r # q /\ t # q
    <3>1. InFlight(r) /\ InFlight(t) /\ t \notin met[r]
      BY <1>1, <1>4, <2>3 DEF InFlight
    <3> QED BY <1>4, <2>3, <3>1 DEF OwnInv, Apart
  <2> QED BY <2>1, <2>2, <2>3
<1> QED BY <1>5, <1>6, <1>7, <1>8 DEF OwnInv

LEMMA NextOwn == OwnInv /\ [Next]_vars => OwnInv'
<1> SUFFICES ASSUME OwnInv, [Next]_vars PROVE OwnInv'
  OBVIOUS
<1>0. TypeInv'
  BY NextType DEF OwnInv
<1>1. ASSUME NEW q \in Request, Receive(q) PROVE OwnInv'
  BY <1>0, <1>1, ReceiveOwn
<1>2. ASSUME NEW q \in Request, Handle(q) PROVE OwnInv'
  <2>1. upload[q] # None /\ (UploadExcelFiles(q) \/ ProcessExcelAndCallback(q))
    BY <1>2, HandleCases
  <2> QED BY <1>0, <2>1, HandlerOwn
<1>3. CASE Crash
  <2>1. \A r \in Request : ~InFlight(r)'
    BY <1>3 DEF Crash, InFlight, OwnInv, TypeInv, TypeOK
  <2>2. UNCHANGED <<disk, upload, slot, source, clicks, met>>
    BY <1>3 DEF Crash
  <2>3. \A r \in Request : pc'[r] \in {"idle", "form"} => pc[r] = "idle"
    BY <1>3 DEF Crash
  <2>4. ASSUME NEW r \in Request, met'[r] = {} PROVE Saved(r)' /\ ReadOwn(r)'
    BY <2>1, <2>2, <2>4 DEF OwnInv, Saved, ReadOwn, InFlight
  <2> QED BY <1>0, <2>1, <2>2, <2>3, <2>4 DEF OwnInv, Apart
<1>4. CASE UNCHANGED vars
  BY <1>0, <1>4 DEF vars, request, OwnInv, Saved, SavePath, ReadOwn, Apart, InFlight
<1> QED BY <1>1, <1>2, <1>3, <1>4 DEF Next, Quiet

\* Whatever the number of requests and the names of their files: a request
\* that met no other one with a file of the same name has processed its own
\* data source and its own click data.
THEOREM OwnershipHolds == Spec => []OwnSheets
<1>1. OwnInv => OwnSheets
  BY DEF OwnInv, OwnSheets
<1> QED BY InitOwn, NextOwn, <1>1, PTL DEF Spec
=============================================================================
