-------------------------- MODULE BatchQueryProofs --------------------------
(***************************************************************************)
(* Safety of the batch handlers for any requests, file names, sheets,      *)
(* seconds and crashes.                                                    *)
(***************************************************************************)
EXTENDS BatchQuery, FiniteSetTheorems, WellFoundedInduction, TLAPS

Early == {"idle", "form", "create", "copy", "read"}
Looping == {"loop", "query"}
UploadUse == {"copy", "read"}
ResultUse == {"write", "open", "serve"}

\* What a handler holds, by where it is.
Held(r) ==
    /\ pc[r] # "idle" => form[r] \in Form
    /\ pc[r] \in Early => /\ sheet[r] = None /\ row[r] = 0
                          /\ lines[r] = <<>> /\ calls[r] = <<>>
    /\ pc[r] \in Looping \cup ResultUse => sheet[r] \in Book
    /\ pc[r] = "query" => row[r] \in RowsToAsk(r) /\ calls[r] # <<>>
    /\ pc[r] \in ResultUse => second[r] \in Second
    /\ pc[r] # "replied" => reply[r] = None

TypeInv == TypeOK /\ \A r \in Request : Held(r)

-----------------------------------------------------------------------------
(***************************************************************************)
(* What holds of a batch by itself: its place in the sheet, and what it    *)
(* has asked and been told so far.                                         *)
(***************************************************************************)
Answers(r) == IF form[r].kind = "jd" THEN JdAnswer ELSE RemoteAnswer
Says(r, answer) == IF form[r].kind = "jd" THEN JdSays(answer) ELSE TaobaoSays(answer)

Taken(r) == {i \in RowsToAsk(r) : i <= row[r]}

\* The k-th line tells the answer to the k-th call.
Told(r, k) ==
    /\ calls[r][k].row = lines[r][k].row
    /\ calls[r][k].answer \in Answers(r)
    /\ lines[r][k].says = Says(r, calls[r][k].answer)

Unasked(r) ==
    /\ pc[r] # "query"
    /\ calls[r] = <<>>
    /\ \A k \in DOMAIN lines[r] : lines[r][k].says = "error"

Asked(r) ==
    /\ RowsOf(calls[r]) = Taken(r)
    /\ Len(calls[r]) = Len(lines[r]) + (IF pc[r] = "query" THEN 1 ELSE 0)
    /\ \A k \in DOMAIN lines[r] : Told(r, k)

InBatch(r) ==
    /\ Ascending(lines[r]) /\ Ascending(calls[r])
    /\ RowsOf(lines[r]) = Taken(r) \ (IF pc[r] = "query" THEN {row[r]} ELSE {})
    /\ IF TaskUnusable(r) THEN Unasked(r) ELSE Asked(r)
    /\ pc[r] = "query" => calls[r][Len(calls[r])].row = row[r]
    /\ pc[r] \in ResultUse => Pending(r) = {}

AllAsked(r) ==
    /\ RowsOf(calls[r]) = RowsToAsk(r)
    /\ \A c \in DOMAIN calls[r] : calls[r][c].answer # None

Asking(r) ==
    /\ pc[r] \in Looping \cup ResultUse => InBatch(r)
    /\ pc[r] = "replied" /\ calls[r] # <<>> => AllAsked(r)

(***************************************************************************)
(* What holds of the files that requests share.                            *)
(***************************************************************************)
MetActive == \A r \in Request : \A q \in met[r] : pc[q] # "idle"

\* Two requests that use one file have met.
Apart(r, q) ==
    /\ /\ pc[r] \in UploadUse /\ pc[q] \in UploadUse
       /\ UploadPath(r) = UploadPath(q)
       => q \in {r} \cup met[r]
    /\ /\ pc[r] \in ResultUse /\ pc[q] \in ResultUse
       /\ ResultPath(r) = ResultPath(q)
       => q \in {r} \cup met[r]

OwnWork(r) ==
    /\ sheet[r] # None => sheet[r] = form[r].book
    /\ reply[r] # None /\ reply[r].status = 200 => reply[r].body = Workbook(r)

\* What a request finds that nobody met.
Own(r) ==
    /\ pc[r] = "copy" => uploads[UploadPath(r)] = EmptyFile
    /\ pc[r] = "read" => uploads[UploadPath(r)] = form[r].book
    /\ pc[r] = "write" => results[ResultPath(r)] = Nothing
    /\ pc[r] \in {"open", "serve"} => results[ResultPath(r)] = Workbook(r)
    /\ pc[r] = "serve" => seen[r] = Workbook(r)
    /\ OwnWork(r)

BooksOf(r) == {form[q].book : q \in {r} \cup met[r]}

KnownWork(r) ==
    /\ sheet[r] # None => sheet[r] \in BooksOf(r)
    /\ reply[r] # None => reply[r].body.of \subseteq {r} \cup met[r]

\* What a request finds comes from those it met.
Known(r) ==
    /\ pc[r] \in UploadUse =>
          uploads[UploadPath(r)] \in BooksOf(r) \cup {EmptyFile, TornFile}
    /\ pc[r] \in ResultUse => results[ResultPath(r)].of \subseteq {r} \cup met[r]
    /\ KnownWork(r)

SharedInv ==
    /\ TypeInv
    /\ MetActive
    /\ \A r, q \in Request : Apart(r, q)
    /\ \A r \in Request : met[r] = {} => Own(r)
    /\ \A r \in Request : Known(r)

-----------------------------------------------------------------------------
LEMMA FirstRow ==
    ASSUME NEW S \in SUBSET Nat, S # {}
    PROVE  Least(S) \in S /\ \A j \in S : Least(S) <= j
<1>1. PICK x \in S : \A y \in S : ~(<<y, x>> \in OpToRel(<, Nat))
  BY WFMin, NatLessThanWellFounded
<1>2. ASSUME NEW y \in S PROVE x <= y
  <2>1. <<y, x>> \in Nat \X Nat
    OBVIOUS
  <2>2. ~(y < x)
    BY <1>1, <2>1 DEF OpToRel
  <2> QED BY <2>2
<1> QED BY <1>2 DEF Least

\* The bytes and texts that the handlers put in files are of their types.
LEMMA Contents ==
    /\ EmptyFile \in Book /\ TornFile \in Book
    /\ Nothing \in Content
    /\ \A r \in Request : Workbook(r) \in Content
    /\ \A of \in SUBSET Request : Torn(of) \in Content
BY DEF EmptyFile, TornFile, Unreadable, Book, Content, Nothing, Workbook, Torn

LEMMA InitType == Init => TypeInv
BY Contents, MaxCrashesAssumption
   DEF Init, TypeInv, TypeOK, Held, Label, Early, Looping, ResultUse

\* A handler's step is one of nine, of a request that submitted a form.
LEMMA HandleCases ==
    ASSUME NEW r \in Request,
           BatchProcessJdShPromotion(r) \/ GetActivityReport(r)
    PROVE  form[r] # None /\ Handle(r)
BY DEF BatchProcessJdShPromotion, GetActivityReport

\* A step of one handler leaves the state of every other request alone.
Same(r) ==
    /\ pc'[r] = pc[r] /\ form'[r] = form[r] /\ sheet'[r] = sheet[r]
    /\ row'[r] = row[r] /\ lines'[r] = lines[r] /\ second'[r] = second[r]
    /\ seen'[r] = seen[r] /\ calls'[r] = calls[r] /\ reply'[r] = reply[r]

LEMMA Frame ==
    ASSUME TypeOK, NEW q \in Request, Receive(q) \/ Handle(q),
           NEW r \in Request \ {q}
    PROVE  Same(r)
<1> USE DEF TypeOK, Same, Goto, Refuse, Answer
<1>1. CASE Receive(q)
  BY <1>1 DEF Receive
<1>2. CASE CheckForm(q)
  BY <1>2 DEF CheckForm
<1>3. CASE CreateUpload(q)
  BY <1>3 DEF CreateUpload, files
<1>4. CASE CopyUpload(q)
  BY <1>4 DEF CopyUpload
<1>5. CASE ReadUpload(q)
  BY <1>5 DEF ReadUpload
<1>6. CASE TakeRow(q)
  BY <1>6 DEF TakeRow, AddLine
<1>7. CASE ReceiveAnswer(q)
  <2>1. PICK answer \in RemoteAnswer \cup JdAnswer :
          /\ calls' = [calls EXCEPT ![q][Len(calls[q])].answer = answer]
          /\ \E says : AddLine(q, row[q], says)
    BY <1>7 DEF ReceiveAnswer
  <2>2. calls'[r] = calls[r] /\ lines'[r] = lines[r]
    BY <2>1 DEF AddLine
  <2>3. pc'[r] = pc[r] /\ UNCHANGED <<files, form, sheet, row, second, seen, met, reply>>
    BY <1>7 DEF ReceiveAnswer
  <2> QED BY <2>2, <2>3
<1>8. CASE CreateResult(q)
  <2>1. UNCHANGED <<uploads, form, sheet, row, lines, seen, calls>>
    BY <1>8 DEF CreateResult
  <2>2. \/ Refuse(q, 500) /\ UNCHANGED second
        \/ (\E s \in Second : second' = [second EXCEPT ![q] = s]) /\ Goto(q, "write")
    BY <1>8 DEF CreateResult
  <2>3. pc'[r] = pc[r] /\ reply'[r] = reply[r] /\ second'[r] = second[r]
    BY <2>2
  <2> QED BY <2>1, <2>3
<1>9. CASE WriteResult(q)
  BY <1>9 DEF WriteResult
<1>10. CASE OpenResult(q)
  BY <1>10 DEF OpenResult
<1>11. CASE ServeResult(q)
  BY <1>11 DEF ServeResult
<1> QED BY <1>1, <1>2, <1>3, <1>4, <1>5, <1>6, <1>7, <1>8, <1>9, <1>10, <1>11
        DEF Handle, ProcessExcel

LEMMA SameHeld ==
    ASSUME NEW r \in Request, Held(r), Same(r)
    PROVE  Held(r)'
BY DEF Held, Same, RowsToAsk

\* Going on and answering.
LEMMA GotoType ==
    ASSUME TypeOK, NEW r \in Request, NEW label \in Label, Goto(r, label)
    PROVE  /\ pc' \in [Request -> Label] /\ reply' \in [Request -> Reply \cup {None}]
           /\ pc'[r] = label /\ reply'[r] = reply[r]
BY DEF TypeOK, Goto

LEMMA AnswerType ==
    ASSUME TypeOK, NEW r \in Request, NEW status \in {200, 400, 500},
           NEW body \in Content, Answer(r, status, body)
    PROVE  /\ pc' \in [Request -> Label] /\ reply' \in [Request -> Reply \cup {None}]
           /\ pc'[r] = "replied" /\ reply'[r] = [status |-> status, body |-> body]
<1>1. [status |-> status, body |-> body] \in Reply
  BY DEF Reply
<1>2. reply' = [reply EXCEPT ![r] = [status |-> status, body |-> body]]
  BY DEF Answer
<1>3. /\ reply' \in [Request -> Reply \cup {None}]
      /\ reply'[r] = [status |-> status, body |-> body]
  BY <1>1, <1>2 DEF TypeOK
<1>4. pc' \in [Request -> Label] /\ pc'[r] = "replied"
  BY DEF TypeOK, Answer, Label
<1> QED BY <1>3, <1>4

LEMMA RefuseType ==
    ASSUME TypeOK, NEW r \in Request, NEW status \in {400, 500}, Refuse(r, status)
    PROVE  /\ pc' \in [Request -> Label] /\ reply' \in [Request -> Reply \cup {None}]
           /\ pc'[r] = "replied" /\ reply'[r] = [status |-> status, body |-> Nothing]
BY AnswerType, Contents DEF Refuse

LEMMA PathTypes ==
    ASSUME TypeInv, NEW r \in Request
    PROVE  /\ pc[r] # "idle" => UploadPath(r) \in Kind \X FileName
           /\ pc[r] \in ResultUse => ResultPath(r) \in Kind \X Second
<1>1. pc[r] # "idle" => form[r].kind \in Kind /\ form[r].name \in FileName
  BY DEF TypeInv, Held, Form
<1>2. pc[r] \in ResultUse => pc[r] # "idle" /\ second[r] \in Second
  BY DEF TypeInv, Held, ResultUse
<1> QED BY <1>1, <1>2 DEF UploadPath, ResultPath

\* The rows to ask about are rows of the sheet that was read.
LEMMA BookRows ==
    ASSUME NEW book \in Book, NEW f
    PROVE  /\ JdRows(f, book) \subseteq DOMAIN book.rows
           /\ TaobaoRows(book) \subseteq DOMAIN book.rows
           /\ DOMAIN book.rows \in SUBSET (Nat \ {0})
<1>1. book.rows \in Seq(Seq(Cell))
  BY DEF Book
<1>2. DOMAIN book.rows \in SUBSET (Nat \ {0})
  BY <1>1
<1> QED BY <1>2 DEF JdRows, TaobaoRows

LEMMA AskedRows ==
    ASSUME NEW r \in Request, sheet[r] \in Book
    PROVE  /\ RowsToAsk(r) \subseteq DOMAIN sheet[r].rows
           /\ RowsToAsk(r) \in SUBSET (Nat \ {0})
BY BookRows DEF RowsToAsk

LEMMA ReceiveType ==
    ASSUME TypeInv, NEW r \in Request, Receive(r)
    PROVE  TypeOK' /\ Held(r)'
<1>1. PICK f \in Form : form' = [form EXCEPT ![r] = f]
  BY SubmissionsAssumption DEF Receive
<1>2. form' \in [Request -> Form \cup {None}] /\ form'[r] \in Form
  BY <1>1 DEF TypeInv, TypeOK
<1>3. /\ pc' \in [Request -> Label] /\ reply' \in [Request -> Reply \cup {None}]
      /\ pc'[r] = "form" /\ reply'[r] = reply[r]
  <2>1. Goto(r, "form") /\ "form" \in Label
    BY DEF Receive, Label
  <2> QED BY <2>1, GotoType DEF TypeInv
<1>4. pc[r] = "idle" /\ UNCHANGED <<uploads, results, sheet, row, lines, second, seen, calls, met, crashes>>
  BY DEF Receive, files
<1>5. Held(r)'
  BY <1>2, <1>3, <1>4 DEF TypeInv, Held, Early, Looping, ResultUse
<1> QED BY <1>2, <1>3, <1>4, <1>5 DEF TypeInv, TypeOK

\* Whom a request meets, its rivals meet it.
LEMMA MeetFacts ==
    ASSUME TypeOK, NEW r \in Request, NEW users \in SUBSET Request, Meet(r, users)
    PROVE  /\ met' \in [Request -> SUBSET Request]
           /\ met'[r] = met[r] \cup (users \ {r})
           /\ \A q \in users \ {r} : met'[q] = met[q] \cup {r}
           /\ \A q \in Request \ users : q # r => met'[q] = met[q]
BY DEF TypeOK, Meet

\* The steps before the loop, but for the one that reads the sheet.
LEMMA SaveType ==
    ASSUME TypeInv, NEW r \in Request, CheckForm(r) \/ CreateUpload(r) \/ CopyUpload(r)
    PROVE  TypeOK' /\ Held(r)'
<1>0. /\ pc[r] \in Early \ {"idle"} /\ form[r] \in Form
      /\ UNCHANGED <<form, sheet, row, lines, second, seen, calls, crashes, results>>
  BY DEF CheckForm, CreateUpload, CopyUpload, files, Early, TypeInv, Held
<1>1. uploads' \in [Kind \X FileName -> Book]
  <2>1. UNCHANGED uploads \/ \E content \in Book : uploads' = [uploads EXCEPT ![UploadPath(r)] = content]
    <3>1. form[r].book \in Book
      BY <1>0 DEF Form
    <3> QED BY <3>1, Contents DEF CheckForm, CreateUpload, CopyUpload, files
  <2> QED BY <2>1 DEF TypeInv, TypeOK
<1>2. met' \in [Request -> SUBSET Request]
  <2>1. UNCHANGED met \/ Meet(r, UploadUsers(UploadPath(r)))
    BY DEF CheckForm, CreateUpload, CopyUpload
  <2>2. UploadUsers(UploadPath(r)) \in SUBSET Request
    BY DEF UploadUsers
  <2>3. met \in [Request -> SUBSET Request]
    BY DEF TypeInv, TypeOK
  <2> QED BY <2>1, <2>2, <2>3, MeetFacts DEF TypeInv
<1>3. /\ pc' \in [Request -> Label] /\ reply' \in [Request -> Reply \cup {None}]
      /\ \/ pc'[r] \in Early \ {"idle"} /\ reply'[r] = reply[r]
         \/ pc'[r] = "replied"
  <2>1. \/ Refuse(r, 400) \/ Refuse(r, 500)
        \/ \E label \in {"create", "copy", "read"} : Goto(r, label)
    BY DEF CheckForm, CreateUpload, CopyUpload
  <2>2. {"create", "copy", "read"} \subseteq Label
    BY DEF Label
  <2> QED BY <2>1, <2>2, GotoType, RefuseType DEF TypeInv, Early
<1>4. Held(r)'
  BY <1>0, <1>3 DEF TypeInv, Held, Early, Looping, ResultUse
<1> QED BY <1>0, <1>1, <1>2, <1>3, <1>4 DEF TypeInv, TypeOK

LEMMA ReadType ==
    ASSUME TypeInv, NEW r \in Request, ReadUpload(r)
    PROVE  TypeOK' /\ Held(r)'
<1>0. /\ pc[r] = "read" /\ form[r] \in Form /\ lines[r] = <<>> /\ calls[r] = <<>>
      /\ UNCHANGED <<uploads, results, form, row, lines, second, seen, calls, met, crashes>>
  BY DEF ReadUpload, files, Early, TypeInv, Held
<1>1. CASE Refuse(r, 500) /\ UNCHANGED sheet
  <2>1. /\ pc' \in [Request -> Label] /\ reply' \in [Request -> Reply \cup {None}]
        /\ pc'[r] = "replied"
    BY <1>1, RefuseType DEF TypeInv
  <2> QED BY <1>0, <1>1, <2>1 DEF TypeInv, TypeOK, Held, Early, Looping, ResultUse
<1>2. ASSUME NEW book \in {uploads[UploadPath(r)], TornFile},
             sheet' = [sheet EXCEPT ![r] = book], Goto(r, "loop")
      PROVE  TypeOK' /\ Held(r)'
  <2>1. book \in Book
    BY <1>0, <1>2, PathTypes, Contents DEF TypeInv, TypeOK
  <2>2. /\ pc' \in [Request -> Label] /\ reply' \in [Request -> Reply \cup {None}]
        /\ pc'[r] = "loop" /\ reply'[r] = reply[r]
    BY <1>2, GotoType DEF TypeInv, Label
  <2>3. /\ sheet' \in [Request -> Book \cup {None}] /\ sheet'[r] = book
        /\ \A q \in Request \ {r} : sheet'[q] = sheet[q]
    BY <1>2, <2>1 DEF TypeInv, TypeOK
  <2>4. Held(r)'
    BY <1>0, <2>1, <2>2, <2>3 DEF TypeInv, Held, Early, Looping, ResultUse
  <2>5. \A q \in Request : \A k \in DOMAIN lines[q] :
           lines[q][k].row \in DOMAIN sheet'[q].rows
    <3>1. DOMAIN lines[r] = {}
      BY <1>0
    <3>2. \A q \in Request : \A k \in DOMAIN lines[q] :
             lines[q][k].row \in DOMAIN sheet[q].rows
      BY DEF TypeInv, TypeOK
    <3> QED BY <2>3, <3>1, <3>2
  <2> QED BY <1>0, <2>2, <2>3, <2>4, <2>5 DEF TypeInv, TypeOK
<1> QED BY <1>1, <1>2 DEF ReadUpload

\* A line for a row of the sheet.
LEMMA AddLineType ==
    ASSUME TypeOK, NEW r \in Request, NEW i \in Nat, i \in DOMAIN sheet[r].rows,
           NEW says \in {"error", "none", "data"}, AddLine(r, i, says),
           UNCHANGED sheet
    PROVE  /\ lines' \in [Request -> Seq(Line)]
           /\ \A q \in Request : \A k \in DOMAIN lines'[q] :
                 lines'[q][k].row \in DOMAIN sheet'[q].rows
<1> DEFINE x == [row |-> i, says |-> says]
<1>1. x \in Line /\ x.row = i
  BY DEF Line
<1>2. lines' = [lines EXCEPT ![r] = Append(@, x)]
  BY DEF AddLine
<1> HIDE DEF x
<1>3. lines \in [Request -> Seq(Line)]
  BY DEF TypeOK
<1>4. lines' \in [Request -> Seq(Line)]
  BY <1>1, <1>2, <1>3
<1>5. lines'[r] = Append(lines[r], x) /\ \A q \in Request \ {r} : lines'[q] = lines[q]
  BY <1>2, <1>3
<1>6. \A k \in DOMAIN lines'[r] : lines'[r][k] = x \/ (k \in DOMAIN lines[r] /\ lines'[r][k] = lines[r][k])
  BY <1>1, <1>3, <1>5
<1>7. \A q \in Request : \A k \in DOMAIN lines[q] : lines[q][k].row \in DOMAIN sheet[q].rows
  BY DEF TypeOK
<1> QED BY <1>1, <1>4, <1>5, <1>6, <1>7

LEMMA TakeType ==
    ASSUME TypeInv, NEW r \in Request, TakeRow(r)
    PROVE  TypeOK' /\ Held(r)'
<1> DEFINE i == Least(Pending(r))
<1>0. /\ pc[r] = "loop" /\ form[r] \in Form /\ sheet[r] \in Book
      /\ row' = [row EXCEPT ![r] = i] /\ reply[r] = None
      /\ UNCHANGED <<uploads, results, form, sheet, second, seen, met, crashes>>
  BY DEF TakeRow, files, Looping, TypeInv, Held
<1>1. i \in RowsToAsk(r) /\ i \in Nat /\ i \in DOMAIN sheet[r].rows
  <2>1. RowsToAsk(r) \subseteq DOMAIN sheet[r].rows /\ RowsToAsk(r) \in SUBSET (Nat \ {0})
    BY <1>0, AskedRows
  <2>2. Pending(r) \subseteq RowsToAsk(r) /\ Pending(r) \in SUBSET Nat /\ Pending(r) # {}
    BY <2>1 DEF Pending, TakeRow
  <2> QED BY <2>1, <2>2, FirstRow
<1> HIDE DEF i
<1>2. row' \in [Request -> Nat] /\ row'[r] = i
  BY <1>0, <1>1 DEF TypeInv, TypeOK
<1>3. RowsToAsk(r)' = RowsToAsk(r)
  BY <1>0 DEF RowsToAsk
<1>4. CASE AddLine(r, i, "error") /\ UNCHANGED <<calls, pc, reply>>
  <2>1. /\ lines' \in [Request -> Seq(Line)]
        /\ \A q \in Request : \A k \in DOMAIN lines'[q] :
              lines'[q][k].row \in DOMAIN sheet'[q].rows
    BY <1>0, <1>1, <1>4, AddLineType DEF TypeInv
  <2>2. Held(r)'
    BY <1>0, <1>4 DEF Held, Early, Looping, ResultUse
  <2> QED BY <1>0, <1>2, <1>4, <2>1, <2>2 DEF TypeInv, TypeOK
<1>5. CASE /\ calls' = [calls EXCEPT ![r] = Append(@, [row |-> i, answer |-> None])]
           /\ Goto(r, "query") /\ UNCHANGED lines
  <2>1. [row |-> i, answer |-> None] \in Call
    BY <1>1 DEF Call
  <2>2. calls' \in [Request -> Seq(Call)] /\ calls'[r] # <<>>
    BY <1>5, <2>1 DEF TypeInv, TypeOK
  <2>3. /\ pc' \in [Request -> Label] /\ reply' \in [Request -> Reply \cup {None}]
        /\ pc'[r] = "query" /\ reply'[r] = reply[r]
    BY <1>5, GotoType DEF TypeInv, Label
  <2>4. Held(r)'
    BY <1>0, <1>1, <1>2, <1>3, <2>2, <2>3 DEF Held, Early, Looping, ResultUse
  <2> QED BY <1>0, <1>2, <1>5, <2>2, <2>3, <2>4 DEF TypeInv, TypeOK
<1> QED BY <1>4, <1>5 DEF TakeRow, i

\* What a query brings, and the line that says it.
LEMMA SaysType ==
    ASSUME NEW r, NEW answer \in Answers(r)
    PROVE  answer \in RemoteAnswer /\ Says(r, answer) \in {"error", "none", "data"}
BY DEF Answers, Says, RemoteAnswer, JdAnswer, JdSays, TaobaoSays

LEMMA ReceiveAnswerType ==
    ASSUME TypeInv, NEW r \in Request, ReceiveAnswer(r)
    PROVE  TypeOK' /\ Held(r)'
<1>0. /\ pc[r] = "query" /\ form[r] \in Form /\ sheet[r] \in Book
      /\ row[r] \in RowsToAsk(r) /\ calls[r] # <<>> /\ reply[r] = None
      /\ UNCHANGED <<uploads, results, form, sheet, row, second, seen, met, crashes>>
  BY DEF ReceiveAnswer, files, Looping, TypeInv, Held
<1>1. PICK answer \in Answers(r) :
        /\ calls' = [calls EXCEPT ![r][Len(calls[r])].answer = answer]
        /\ AddLine(r, row[r], Says(r, answer))
  BY DEF ReceiveAnswer, Answers, Says
<1>2. row[r] \in Nat /\ row[r] \in DOMAIN sheet[r].rows
  BY <1>0, AskedRows DEF TypeInv, TypeOK
<1>3. /\ lines' \in [Request -> Seq(Line)]
      /\ \A q \in Request : \A k \in DOMAIN lines'[q] :
            lines'[q][k].row \in DOMAIN sheet'[q].rows
  BY <1>0, <1>1, <1>2, AddLineType, SaysType DEF TypeInv
<1>4. calls' \in [Request -> Seq(Call)]
  <2> DEFINE n == Len(calls[r])
  <2>1. calls[r] \in Seq(Call) /\ n \in 1..Len(calls[r])
    BY <1>0 DEF TypeInv, TypeOK
  <2>2. calls[r][n] \in Call /\ answer \in RemoteAnswer
    BY <2>1, SaysType
  <2>3. [calls[r][n] EXCEPT !.answer = answer] \in Call
    BY <2>2 DEF Call
  <2>4. [calls[r] EXCEPT ![n] = [calls[r][n] EXCEPT !.answer = answer]] \in Seq(Call)
    BY <2>1, <2>3
  <2>5. calls' = [calls EXCEPT ![r] =
                    [calls[r] EXCEPT ![n] = [calls[r][n] EXCEPT !.answer = answer]]]
    BY <1>1
  <2> QED BY <2>4, <2>5 DEF TypeInv, TypeOK
<1>5. /\ pc' \in [Request -> Label] /\ reply' \in [Request -> Reply \cup {None}]
      /\ pc'[r] = "loop" /\ reply'[r] = reply[r]
  <2>1. Goto(r, "loop") /\ "loop" \in Label
    BY DEF ReceiveAnswer, Label
  <2> QED BY <2>1, GotoType DEF TypeInv
<1>6. Held(r)'
  BY <1>0, <1>5 DEF Held, Early, Looping, ResultUse
<1> QED BY <1>0, <1>3, <1>4, <1>5, <1>6 DEF TypeInv, TypeOK

LEMMA CreateResultType ==
    ASSUME TypeInv, NEW r \in Request, CreateResult(r)
    PROVE  TypeOK' /\ Held(r)'
<1>0. /\ pc[r] = "loop" /\ form[r] \in Form /\ sheet[r] \in Book /\ reply[r] = None
      /\ UNCHANGED <<uploads, form, sheet, row, lines, seen, calls, crashes>>
  BY DEF CreateResult, Looping, TypeInv, Held
<1>1. CASE Refuse(r, 500) /\ UNCHANGED <<results, second, met>>
  <2>1. /\ pc' \in [Request -> Label] /\ reply' \in [Request -> Reply \cup {None}]
        /\ pc'[r] = "replied"
    BY <1>1, RefuseType DEF TypeInv
  <2> QED BY <1>0, <1>1, <2>1 DEF TypeInv, TypeOK, Held, Early, Looping, ResultUse
<1>2. ASSUME NEW s \in Second,
             second' = [second EXCEPT ![r] = s],
             results' = [results EXCEPT ![<<form[r].kind, s>>] = Nothing],
             Meet(r, ResultUsers(<<form[r].kind, s>>)), Goto(r, "write")
      PROVE  TypeOK' /\ Held(r)'
  <2>1. /\ pc' \in [Request -> Label] /\ reply' \in [Request -> Reply \cup {None}]
        /\ pc'[r] = "write" /\ reply'[r] = reply[r]
    BY <1>2, GotoType DEF TypeInv, Label
  <2>2. met' \in [Request -> SUBSET Request]
    <3>1. ResultUsers(<<form[r].kind, s>>) \in SUBSET Request
      BY DEF ResultUsers
    <3> QED BY <1>2, <3>1, MeetFacts DEF TypeInv
  <2>3. results' \in [Kind \X Second -> Content]
    BY <1>2, Contents DEF TypeInv, TypeOK
  <2>4. second' \in [Request -> Second \cup {None}] /\ second'[r] = s
    BY <1>2 DEF TypeInv, TypeOK
  <2>5. Held(r)'
    BY <1>0, <2>1, <2>4 DEF Held, Early, Looping, ResultUse
  <2> QED BY <1>0, <2>1, <2>2, <2>3, <2>4, <2>5 DEF TypeInv, TypeOK
<1> QED BY <1>1, <1>2 DEF CreateResult

\* The outcomes of a write, with of the requests whose bytes may be there.
LEMMA WriteCases ==
    ASSUME TypeInv, NEW r \in Request, WriteResult(r)
    PROVE  LET path == ResultPath(r)
               of == results[path].of \cup Writers(r, path) \cup {r}
           IN  /\ path \in Kind \X Second /\ of \in SUBSET Request
               /\ \/ results' = [results EXCEPT ![path] = Torn(of)] /\ Refuse(r, 500)
                  \/ /\ Goto(r, "open")
                     /\ \/ results' = [results EXCEPT ![path] = Workbook(r)]
                        \/ of # {r} /\ results' = [results EXCEPT ![path] = Torn(of)]
<1>1. ResultPath(r) \in Kind \X Second
  BY PathTypes DEF WriteResult, ResultUse
<1>2. results[ResultPath(r)].of \in SUBSET Request
  BY <1>1 DEF TypeInv, TypeOK, Content
<1> QED BY <1>1, <1>2 DEF WriteResult, Writers

LEMMA WriteType ==
    ASSUME TypeInv, NEW r \in Request, WriteResult(r)
    PROVE  TypeOK' /\ Held(r)'
<1>0. /\ pc[r] = "write" /\ form[r] \in Form /\ sheet[r] \in Book /\ reply[r] = None
      /\ second[r] \in Second
      /\ UNCHANGED <<uploads, form, sheet, row, lines, second, seen, calls, met, crashes>>
  BY DEF WriteResult, ResultUse, TypeInv, Held
<1>1. results' \in [Kind \X Second -> Content]
  <2>1. \E content \in Content : results' = [results EXCEPT ![ResultPath(r)] = content]
    BY WriteCases, Contents
  <2> QED BY <2>1 DEF TypeInv, TypeOK
<1>2. /\ pc' \in [Request -> Label] /\ reply' \in [Request -> Reply \cup {None}]
      /\ \/ pc'[r] = "open" /\ reply'[r] = None
         \/ pc'[r] = "replied"
  <2>1. Refuse(r, 500) \/ Goto(r, "open")
    BY WriteCases
  <2> QED BY <1>0, <2>1, GotoType, RefuseType DEF TypeInv, Label
<1>3. Held(r)'
  BY <1>0, <1>2 DEF Held, Early, Looping, ResultUse
<1> QED BY <1>0, <1>1, <1>2, <1>3 DEF TypeInv, TypeOK

LEMMA OpenType ==
    ASSUME TypeInv, NEW r \in Request, OpenResult(r)
    PROVE  TypeOK' /\ Held(r)'
<1>0. /\ pc[r] = "open" /\ form[r] \in Form /\ sheet[r] \in Book /\ reply[r] = None
      /\ second[r] \in Second
      /\ UNCHANGED <<uploads, results, form, sheet, row, lines, second, calls, met, crashes>>
  BY DEF OpenResult, files, ResultUse, TypeInv, Held
<1>1. seen' \in [Request -> Content]
  <2>1. results[ResultPath(r)] \in Content
    BY <1>0, PathTypes DEF TypeInv, TypeOK, ResultUse
  <2>2. results[ResultPath(r)].of \cup Writers(r, ResultPath(r)) \in SUBSET Request
    BY <2>1 DEF Content, Writers
  <2>3. Glimpses(r, ResultPath(r)) \subseteq Content
    BY <2>1, <2>2, Contents DEF Glimpses
  <2> QED BY <2>3 DEF OpenResult, TypeInv, TypeOK
<1>2. /\ pc' \in [Request -> Label] /\ reply' \in [Request -> Reply \cup {None}]
      /\ pc'[r] = "serve" /\ reply'[r] = reply[r]
  <2>1. Goto(r, "serve") /\ "serve" \in Label
    BY DEF OpenResult, Label
  <2> QED BY <2>1, GotoType DEF TypeInv
<1>3. Held(r)'
  BY <1>0, <1>2 DEF Held, Early, Looping, ResultUse
<1> QED BY <1>0, <1>1, <1>2, <1>3 DEF TypeInv, TypeOK

\* The bytes that are served are those of the file or of its writers.
LEMMA ServeCases ==
    ASSUME TypeInv, NEW r \in Request, ServeResult(r)
    PROVE  LET now == results[ResultPath(r)]
               of == now.of \cup Writers(r, ResultPath(r))
           IN  /\ now \in Content /\ of \in SUBSET Request
               /\ \E body \in {Nothing, now, Torn(of)} :
                     /\ Answer(r, 200, body)
                     /\ seen[r] = now /\ Writers(r, ResultPath(r)) = {} /\ now # Nothing
                           => body = now
<1>1. results[ResultPath(r)] \in Content
  BY PathTypes DEF ServeResult, TypeInv, TypeOK, ResultUse
<1>2. results[ResultPath(r)].of \cup Writers(r, ResultPath(r)) \in SUBSET Request
  BY <1>1 DEF Content, Writers
<1> QED BY <1>1, <1>2 DEF ServeResult

LEMMA ServeType ==
    ASSUME TypeInv, NEW r \in Request, ServeResult(r)
    PROVE  TypeOK' /\ Held(r)'
<1>0. /\ pc[r] = "serve" /\ form[r] \in Form
      /\ UNCHANGED <<uploads, results, form, sheet, row, lines, second, seen, calls, met, crashes>>
  BY DEF ServeResult, files, TypeInv, Held
<1>1. PICK body \in Content : Answer(r, 200, body)
  BY ServeCases, Contents
<1>2. pc' \in [Request -> Label] /\ pc'[r] = "replied"
  BY <1>1 DEF TypeInv, TypeOK, Answer, Label
<1>3. reply' \in [Request -> Reply \cup {None}]
  <2>1. [status |-> 200, body |-> body] \in Reply
    BY DEF Reply
  <2>2. reply' = [reply EXCEPT ![r] = [status |-> 200, body |-> body]]
    BY <1>1 DEF Answer
  <2> QED BY <2>1, <2>2 DEF TypeInv, TypeOK
<1>4. Held(r)'
  BY <1>0, <1>2 DEF Held, Early, Looping, ResultUse
<1> QED BY <1>0, <1>2, <1>3, <1>4 DEF TypeInv, TypeOK

LEMMA HandleType ==
    ASSUME TypeInv, NEW r \in Request, Receive(r) \/ Handle(r)
    PROVE  TypeInv'
<1>1. TypeOK' /\ Held(r)'
  BY ReceiveType, SaveType, ReadType, TakeType, ReceiveAnswerType,
     CreateResultType, WriteType, OpenType, ServeType DEF Handle, ProcessExcel
<1>2. \A q \in Request \ {r} : Held(q)'
  BY Frame, SameHeld DEF TypeInv
<1> QED BY <1>1, <1>2 DEF TypeInv

\* A crash takes what was in flight: nothing of it is left but the files.
LEMMA CrashFacts ==
    ASSUME TypeInv, Crash
    PROVE  /\ \A r \in Request : InFlight(r) =>
                 /\ pc'[r] = "lost" /\ sheet'[r] = None /\ row'[r] = 0
                 /\ lines'[r] = <<>> /\ second'[r] = None /\ seen'[r] = Nothing
                 /\ calls'[r] = <<>>
           /\ \A r \in Request : ~InFlight(r) =>
                 /\ pc'[r] = pc[r] /\ sheet'[r] = sheet[r] /\ row'[r] = row[r]
                 /\ lines'[r] = lines[r] /\ second'[r] = second[r]
                 /\ seen'[r] = seen[r] /\ calls'[r] = calls[r]
           /\ UNCHANGED <<uploads, results, form, reply, met>>
           /\ \A r \in Request : ~InFlight(r) <=> pc[r] \in {"idle", "replied", "lost"}
BY DEF Crash, files, InFlight

LEMMA CrashType ==
    ASSUME TypeInv, Crash
    PROVE  TypeInv'
<1>1. \A r \in Request : Held(r)'
  BY CrashFacts DEF TypeInv, Held, Early, Looping, ResultUse, RowsToAsk
<1>2. /\ pc' \in [Request -> Label] /\ sheet' \in [Request -> Book \cup {None}]
      /\ row' \in [Request -> Nat] /\ second' \in [Request -> Second \cup {None}]
  BY DEF Crash, TypeInv, TypeOK, Label
<1>3. /\ lines' \in [Request -> Seq(Line)] /\ seen' \in [Request -> Content]
      /\ calls' \in [Request -> Seq(Call)]
  BY Contents DEF Crash, TypeInv, TypeOK
<1>4. \A r \in Request : \A k \in DOMAIN lines'[r] :
         lines'[r][k].row \in DOMAIN sheet'[r].rows
  <2>1. ASSUME NEW r \in Request, InFlight(r) PROVE DOMAIN lines'[r] = {}
    BY <2>1, CrashFacts
  <2>2. ASSUME NEW r \in Request, ~InFlight(r)
        PROVE  lines'[r] = lines[r] /\ sheet'[r] = sheet[r]
    BY <2>2, CrashFacts
  <2> QED BY <2>1, <2>2 DEF TypeInv, TypeOK
<1>5. crashes' \in 0..MaxCrashes
  BY MaxCrashesAssumption DEF Crash, TypeInv, TypeOK
<1> QED BY <1>1, <1>2, <1>3, <1>4, <1>5, CrashFacts DEF TypeInv, TypeOK

LEMMA NextType == TypeInv /\ [Next]_vars => TypeInv'
<1> SUFFICES ASSUME TypeInv, [Next]_vars PROVE TypeInv'
  OBVIOUS
<1>1. ASSUME UNCHANGED vars PROVE TypeInv'
  BY <1>1 DEF vars, files, TypeInv, TypeOK, Held, RowsToAsk
<1> QED BY <1>1, HandleType, HandleCases, CrashType DEF Next, Quiet

-----------------------------------------------------------------------------
\* Rows of a longer list, of a list with one answer filled in, of an empty one.
LEMMA NoRows == RowsOf(<<>>) = {} /\ Ascending(<<>>)
BY DEF RowsOf, Ascending

LEMMA MoreRows ==
    ASSUME NEW S, NEW s \in Seq(S), NEW x \in S
    PROVE  /\ Len(Append(s, x)) = Len(s) + 1
           /\ RowsOf(Append(s, x)) = RowsOf(s) \cup {x.row}
           /\ \A k \in DOMAIN s : Append(s, x)[k] = s[k]
           /\ Append(s, x)[Len(s) + 1] = x
           /\ \A k \in DOMAIN Append(s, x) : k \in DOMAIN s \/ k = Len(s) + 1
           /\ Ascending(s) /\ (\A j \in RowsOf(s) : j < x.row) => Ascending(Append(s, x))
<1> DEFINE t == Append(s, x)
<1>1. /\ t \in Seq(S) /\ Len(t) = Len(s) + 1 /\ DOMAIN t = 1..(Len(s) + 1)
      /\ DOMAIN s = 1..Len(s) /\ Len(s) \in Nat
  OBVIOUS
<1>2. t[Len(s) + 1] = x /\ \A k \in DOMAIN s : t[k] = s[k]
  OBVIOUS
<1> HIDE DEF t
<1>3. RowsOf(t) = RowsOf(s) \cup {x.row}
  <2>1. \A k \in DOMAIN t : t[k].row \in RowsOf(s) \cup {x.row}
    BY <1>1, <1>2 DEF RowsOf
  <2>2. \A k \in DOMAIN s : s[k].row \in RowsOf(t)
    BY <1>1, <1>2 DEF RowsOf
  <2>3. x.row \in RowsOf(t)
    BY <1>1, <1>2 DEF RowsOf
  <2> QED BY <2>1, <2>2, <2>3 DEF RowsOf
<1>4. ASSUME Ascending(s), \A j \in RowsOf(s) : j < x.row PROVE Ascending(t)
  <2>1. \A k \in DOMAIN s : t[k].row < x.row
    BY <1>2, <1>4 DEF RowsOf
  <2> QED BY <1>1, <1>2, <1>4, <2>1 DEF Ascending
<1>5. \A k \in DOMAIN t : k \in DOMAIN s \/ k = Len(s) + 1
  BY <1>1
<1> QED BY <1>1, <1>2, <1>3, <1>4, <1>5 DEF t

LEMMA AnsweredRows ==
    ASSUME NEW s \in Seq(Call), s # <<>>, NEW answer
    PROVE  LET n == Len(s)
               t == [s EXCEPT ![n].answer = answer]
           IN  /\ n \in DOMAIN s /\ Len(t) = n /\ DOMAIN t = DOMAIN s
               /\ t[n].answer = answer /\ t[n].row = s[n].row
               /\ \A k \in DOMAIN s : k # n => t[k] = s[k]
               /\ RowsOf(t) = RowsOf(s)
               /\ Ascending(s) => Ascending(t)
<1> DEFINE n == Len(s)
           t == [s EXCEPT ![n].answer = answer]
<1>1. n \in DOMAIN s /\ DOMAIN s = 1..n /\ s[n] \in Call /\ n \in Nat
  OBVIOUS
<1>2. DOMAIN t = DOMAIN s /\ Len(t) = n
  BY <1>1
<1>3. t[n] = [s[n] EXCEPT !.answer = answer] /\ \A k \in DOMAIN s : k # n => t[k] = s[k]
  BY <1>1
<1>4. t[n].answer = answer /\ t[n].row = s[n].row
  BY <1>1, <1>3 DEF Call
<1>5. \A k \in DOMAIN s : t[k].row = s[k].row
  BY <1>3, <1>4
<1> HIDE DEF t
<1>6. RowsOf(t) = RowsOf(s) /\ (Ascending(s) => Ascending(t))
  BY <1>2, <1>5 DEF RowsOf, Ascending
<1> QED BY <1>1, <1>2, <1>3, <1>4, <1>6 DEF t

LEMMA SameAsking ==
    ASSUME NEW r \in Request, Asking(r), Same(r)
    PROVE  Asking(r)'
<1>1. /\ pc'[r] = pc[r] /\ form'[r] = form[r] /\ sheet'[r] = sheet[r]
      /\ row'[r] = row[r] /\ lines'[r] = lines[r] /\ calls'[r] = calls[r]
  BY DEF Same
<1>2. RowsToAsk(r)' = RowsToAsk(r) /\ (TaskUnusable(r)' <=> TaskUnusable(r))
  BY <1>1 DEF RowsToAsk, TaskUnusable
<1>3. Taken(r)' = Taken(r) /\ Pending(r)' = Pending(r)
  BY <1>1, <1>2 DEF Taken, Pending
<1>4. \A k : Told(r, k) => Told(r, k)'
  BY <1>1 DEF Told, Answers, Says
<1>5. (Unasked(r) => Unasked(r)') /\ (Asked(r) => Asked(r)')
  BY <1>1, <1>3, <1>4 DEF Unasked, Asked
<1>6. (InBatch(r) => InBatch(r)') /\ (AllAsked(r) => AllAsked(r)')
  BY <1>1, <1>2, <1>3, <1>5 DEF InBatch, AllAsked
<1> QED BY <1>1, <1>6 DEF Asking

\* A request that had asked about all its rows, or about none, is answered.
LEMMA DoneAsking ==
    ASSUME TypeInv, NEW r \in Request, Asking(r),
           UNCHANGED <<form, sheet, row, lines, calls>>,
           \/ pc[r] \in Early
           \/ pc[r] \in {"loop"} \cup ResultUse /\ Pending(r) = {},
           pc'[r] \in {"replied"} \cup ResultUse \cup Early,
           pc'[r] \in ResultUse => pc[r] \notin Early
    PROVE  Asking(r)'
<1>1. ASSUME pc[r] \in {"loop"} \cup ResultUse, Pending(r) = {}
      PROVE  Asking(r)'
  <2>1. InBatch(r) /\ pc[r] # "query" /\ pc'[r] # "query"
    BY <1>1 DEF Asking, Looping, ResultUse, Early
  <2>2. InBatch(r)'
    BY <1>1, <2>1 DEF InBatch, Unasked, Asked, Told, Taken, Pending, RowsToAsk,
       TaskUnusable, Answers, Says, ResultUse
  <2>3. calls[r] # <<>> => AllAsked(r)
    <3>1. SUFFICES ASSUME calls[r] # <<>> PROVE AllAsked(r)
      OBVIOUS
    <3>2. Asked(r)
      BY <2>1, <3>1 DEF InBatch, Unasked
    <3>3. Len(calls[r]) = Len(lines[r]) /\ DOMAIN calls[r] = DOMAIN lines[r]
      <4>1. calls[r] \in Seq(Call) /\ lines[r] \in Seq(Line)
        BY DEF TypeInv, TypeOK
      <4> QED BY <2>1, <3>2, <4>1 DEF Asked
    <3>4. None \notin Answers(r)
      BY NoneAssumption DEF Answers, RemoteAnswer
    <3>5. Taken(r) = RowsToAsk(r)
      <4>1. RowsToAsk(r) \in SUBSET Nat /\ row[r] \in Nat
        BY <1>1, AskedRows DEF TypeInv, TypeOK, Held, Looping, ResultUse
      <4> QED BY <1>1, <4>1 DEF Taken, Pending
    <3> QED BY <3>2, <3>3, <3>4, <3>5 DEF Asked, Told, AllAsked
  <2>4. calls'[r] # <<>> => AllAsked(r)'
    BY <2>3 DEF AllAsked, RowsToAsk
  <2> QED BY <2>2, <2>4 DEF Asking
<1>2. CASE pc[r] \in Early
  BY <1>2 DEF TypeInv, Held, Asking, Early, Looping, ResultUse
<1> QED BY <1>1, <1>2

LEMMA FirstAsking ==
    ASSUME TypeInv, TypeInv', NEW r \in Request, ReadUpload(r), Asking(r)
    PROVE  Asking(r)'
<1>1. /\ pc[r] = "read" /\ row[r] = 0 /\ lines[r] = <<>> /\ calls[r] = <<>>
      /\ UNCHANGED <<form, row, lines, calls>>
  BY DEF ReadUpload, TypeInv, Held, Early
<1>2. \/ pc'[r] = "replied"
      \/ pc'[r] = "loop"
  BY DEF ReadUpload, Refuse, Answer, Goto, TypeInv, TypeOK
<1>3. CASE pc'[r] = "replied"
  BY <1>1, <1>3 DEF Asking, Looping, ResultUse
<1>4. CASE pc'[r] = "loop"
  <2>1. RowsToAsk(r)' \in SUBSET (Nat \ {0})
    <3>1. sheet'[r] \in Book
      BY <1>4 DEF TypeInv, Held, Looping
    <3> QED BY <3>1, BookRows DEF RowsToAsk
  <2>2. Taken(r)' = {}
    BY <1>1, <2>1 DEF Taken
  <2>3. /\ RowsOf(lines'[r]) = {} /\ RowsOf(calls'[r]) = {}
        /\ Ascending(lines'[r]) /\ Ascending(calls'[r])
        /\ calls'[r] = <<>> /\ lines'[r] = <<>>
    BY <1>1, NoRows
  <2>4. Unasked(r)' /\ Asked(r)'
    BY <1>4, <2>2, <2>3 DEF Unasked, Asked
  <2>5. InBatch(r)'
    BY <1>4, <2>2, <2>3, <2>4 DEF InBatch, ResultUse
  <2> QED BY <1>4, <2>5 DEF Asking
<1> QED BY <1>2, <1>3, <1>4

\* The row that is taken is the next one: all that were taken come before it.
LEMMA NextRow ==
    ASSUME TypeInv, NEW r \in Request, sheet[r] \in Book, Pending(r) # {},
           UNCHANGED <<form, sheet>>, row'[r] = Least(Pending(r))
    PROVE  /\ row'[r] \in RowsToAsk(r) /\ row'[r] \in Nat
           /\ \A j \in Taken(r) : j < row'[r]
           /\ Taken(r)' = Taken(r) \cup {row'[r]} /\ row'[r] \notin Taken(r)
<1>1. RowsToAsk(r) \in SUBSET Nat /\ RowsToAsk(r)' = RowsToAsk(r)
  BY AskedRows DEF RowsToAsk
<1>2. Pending(r) \in SUBSET Nat /\ row[r] \in Nat
  BY <1>1 DEF Pending, TypeInv, TypeOK
<1>3. row'[r] \in Pending(r) /\ \A j \in Pending(r) : row'[r] <= j
  BY <1>2, FirstRow
<1>4. \A j \in RowsToAsk(r) : j <= row'[r] <=> j <= row[r] \/ j = row'[r]
  BY <1>1, <1>2, <1>3 DEF Pending
<1>5. row'[r] \in RowsToAsk(r) /\ row'[r] \in Nat /\ row'[r] > row[r]
  BY <1>1, <1>2, <1>3 DEF Pending
<1>6. \A j \in Taken(r) : j < row'[r]
  BY <1>1, <1>2, <1>5 DEF Taken
<1>7. Taken(r)' = Taken(r) \cup {row'[r]}
  BY <1>1, <1>4, <1>5 DEF Taken
<1> QED BY <1>5, <1>6, <1>7

LEMMA TakeAsking ==
    ASSUME TypeInv, TypeInv', NEW r \in Request, TakeRow(r), Asking(r)
    PROVE  Asking(r)'
<1> DEFINE i == Least(Pending(r))
<1>0. /\ pc[r] = "loop" /\ form[r] \in Form /\ sheet[r] \in Book
      /\ Pending(r) # {} /\ row'[r] = i
      /\ UNCHANGED <<form, sheet>>
  BY DEF TakeRow, Looping, TypeInv, TypeOK, Held
<1>1. /\ i \in RowsToAsk(r) /\ i \in Nat /\ \A j \in Taken(r) : j < i
      /\ Taken(r)' = Taken(r) \cup {i} /\ i \notin Taken(r)
  BY <1>0, NextRow
<1>2. /\ InBatch(r) /\ RowsOf(lines[r]) = Taken(r)
  BY <1>0 DEF Asking, InBatch, Looping
<1>3. (TaskUnusable(r)' <=> TaskUnusable(r)) /\ \A a : Says(r, a)' = Says(r, a)
  BY <1>0 DEF TaskUnusable, Says
<1>4. /\ lines \in [Request -> Seq(Line)] /\ calls \in [Request -> Seq(Call)]
      /\ pc \in [Request -> Label]
  BY DEF TypeInv, TypeOK
<1>5. IF TaskUnusable(r) THEN AddLine(r, i, "error") /\ UNCHANGED <<calls, pc, reply>>
      ELSE /\ calls' = [calls EXCEPT ![r] = Append(@, [row |-> i, answer |-> None])]
           /\ Goto(r, "query") /\ UNCHANGED lines
  BY DEF TakeRow
<1> HIDE DEF i
<1>6. CASE TaskUnusable(r)
  <2> DEFINE x == [row |-> i, says |-> "error"]
  <2>1. x \in Line /\ x.row = i /\ x.says = "error"
    BY <1>1 DEF Line
  <2>2. lines'[r] = Append(lines[r], x) /\ UNCHANGED <<calls, pc>>
    BY <1>4, <1>5, <1>6 DEF AddLine
  <2>3. lines[r] \in Seq(Line)
    BY <1>4
  <2> HIDE DEF x
  <2>4. /\ RowsOf(Append(lines[r], x)) = Taken(r) \cup {i}
        /\ Ascending(Append(lines[r], x))
    BY <1>1, <1>2, <2>1, <2>3, MoreRows DEF InBatch
  <2>5. Unasked(r)
    BY <1>2, <1>6 DEF InBatch
  <2>6. Unasked(r)'
    <3>1. /\ \A k \in DOMAIN Append(lines[r], x) : k \in DOMAIN lines[r] \/ k = Len(lines[r]) + 1
          /\ \A k \in DOMAIN lines[r] : Append(lines[r], x)[k] = lines[r][k]
          /\ Append(lines[r], x)[Len(lines[r]) + 1] = x
      BY <2>1, <2>3, MoreRows
    <3> QED BY <2>1, <2>2, <2>5, <3>1 DEF Unasked
  <2>7. InBatch(r)'
    BY <1>0, <1>1, <1>2, <1>3, <1>6, <2>2, <2>4, <2>6 DEF InBatch, ResultUse
  <2> QED BY <1>0, <2>2, <2>7 DEF Asking
<1>7. CASE ~TaskUnusable(r)
  <2> DEFINE x == [row |-> i, answer |-> None]
  <2>1. x \in Call /\ x.row = i
    BY <1>1 DEF Call
  <2>2. calls'[r] = Append(calls[r], x) /\ UNCHANGED lines /\ pc'[r] = "query"
    BY <1>4, <1>5, <1>7 DEF Goto
  <2>3. calls[r] \in Seq(Call) /\ lines[r] \in Seq(Line)
    BY <1>4
  <2> HIDE DEF x
  <2>4. Asked(r) /\ Len(calls[r]) = Len(lines[r])
    BY <1>0, <1>2, <1>7, <2>3 DEF InBatch, Asked
  <2>5. /\ RowsOf(Append(calls[r], x)) = Taken(r) \cup {i}
        /\ Ascending(Append(calls[r], x))
        /\ Len(Append(calls[r], x)) = Len(calls[r]) + 1
        /\ \A k \in DOMAIN calls[r] : Append(calls[r], x)[k] = calls[r][k]
        /\ Append(calls[r], x)[Len(calls[r]) + 1] = x
    <3>1. RowsOf(calls[r]) = Taken(r) /\ Ascending(calls[r])
      BY <1>2, <2>4 DEF InBatch, Asked
    <3>2. \A j \in RowsOf(calls[r]) : j < x.row
      BY <1>1, <2>1, <3>1
    <3> QED BY <2>1, <2>3, <3>1, <3>2, MoreRows
  <2>6. \A k \in DOMAIN lines'[r] : Told(r, k)'
    <3>1. DOMAIN calls[r] = DOMAIN lines[r]
      BY <2>3, <2>4
    <3>2. \A k \in DOMAIN lines[r] : calls'[r][k] = calls[r][k] /\ lines'[r][k] = lines[r][k]
      BY <2>2, <2>5, <3>1
    <3>3. Answers(r)' = Answers(r)
      BY <1>0 DEF Answers
    <3> QED BY <1>3, <2>2, <2>4, <3>2, <3>3 DEF Asked, Told
  <2>7. Asked(r)'
    BY <1>1, <2>2, <2>4, <2>5, <2>6 DEF Asked
  <2>8. RowsOf(lines'[r]) = Taken(r)' \ {i}
    BY <1>1, <1>2, <2>2
  <2>9. calls'[r][Len(calls'[r])].row = row'[r]
    BY <1>0, <2>1, <2>2, <2>5
  <2>10. InBatch(r)'
    BY <1>0, <1>2, <1>3, <1>7, <2>2, <2>5, <2>7, <2>8, <2>9 DEF InBatch, ResultUse
  <2> QED BY <2>2, <2>10 DEF Asking
<1> QED BY <1>6, <1>7

LEMMA ToldAsking ==
    ASSUME TypeInv, TypeInv', NEW r \in Request, ReceiveAnswer(r), Asking(r)
    PROVE  Asking(r)'
<1>0. /\ pc[r] = "query" /\ form[r] \in Form /\ sheet[r] \in Book
      /\ calls[r] # <<>> /\ row[r] \in RowsToAsk(r)
      /\ UNCHANGED <<form, sheet, row>>
  BY DEF ReceiveAnswer, Looping, TypeInv, Held
<1>1. PICK answer \in Answers(r) :
        /\ calls' = [calls EXCEPT ![r][Len(calls[r])].answer = answer]
        /\ AddLine(r, row[r], Says(r, answer))
  BY DEF ReceiveAnswer, Answers, Says
<1> DEFINE n == Len(calls[r])
           x == [row |-> row[r], says |-> Says(r, answer)]
           t == [calls[r] EXCEPT ![n].answer = answer]
<1>2. /\ lines \in [Request -> Seq(Line)] /\ calls \in [Request -> Seq(Call)]
      /\ pc \in [Request -> Label] /\ row[r] \in Nat
  BY DEF TypeInv, TypeOK
<1>3. x \in Line /\ x.row = row[r] /\ x.says = Says(r, answer)
  BY <1>2, SaysType DEF Line
<1>4. lines'[r] = Append(lines[r], x) /\ calls'[r] = t /\ pc'[r] = "loop"
  BY <1>1, <1>2 DEF AddLine, ReceiveAnswer, Goto
<1>5. calls[r] \in Seq(Call) /\ lines[r] \in Seq(Line)
  BY <1>2
<1>6. /\ InBatch(r) /\ ~TaskUnusable(r) /\ Asked(r)
      /\ RowsOf(lines[r]) = Taken(r) \ {row[r]}
      /\ n = Len(lines[r]) + 1 /\ calls[r][n].row = row[r]
  BY <1>0 DEF Asking, InBatch, Unasked, Asked, Looping
<1>7. /\ n \in DOMAIN calls[r] /\ Len(t) = n
      /\ t[n].answer = answer /\ t[n].row = row[r]
      /\ \A k \in DOMAIN calls[r] : k # n => t[k] = calls[r][k]
      /\ RowsOf(t) = RowsOf(calls[r]) /\ Ascending(t)
  BY <1>0, <1>5, <1>6, AnsweredRows DEF InBatch
<1> HIDE DEF x, t
<1>8. Taken(r)' = Taken(r) /\ row[r] \in Taken(r) /\ (TaskUnusable(r)' <=> TaskUnusable(r))
      /\ Answers(r)' = Answers(r) /\ \A a : Says(r, a)' = Says(r, a)
  BY <1>0, <1>2 DEF Taken, RowsToAsk, TaskUnusable, Answers, Says
<1>9. \A j \in RowsOf(lines[r]) : j < row[r]
  <2>1. RowsToAsk(r) \in SUBSET Nat
    BY <1>0, AskedRows
  <2> QED BY <1>2, <1>6, <2>1 DEF Taken
<1>10. /\ Len(Append(lines[r], x)) = n
       /\ RowsOf(Append(lines[r], x)) = Taken(r)
       /\ \A k \in DOMAIN lines[r] : Append(lines[r], x)[k] = lines[r][k]
       /\ Append(lines[r], x)[n] = x
       /\ Ascending(Append(lines[r], x))
  <2>1. Ascending(lines[r]) /\ \A j \in RowsOf(lines[r]) : j < x.row
    BY <1>3, <1>6, <1>9 DEF InBatch
  <2>2. /\ Len(Append(lines[r], x)) = Len(lines[r]) + 1
        /\ RowsOf(Append(lines[r], x)) = RowsOf(lines[r]) \cup {x.row}
        /\ \A k \in DOMAIN lines[r] : Append(lines[r], x)[k] = lines[r][k]
        /\ Append(lines[r], x)[Len(lines[r]) + 1] = x
        /\ Ascending(Append(lines[r], x))
    BY <1>3, <1>5, <2>1, MoreRows
  <2> QED BY <1>3, <1>6, <1>8, <2>2
<1>11. ASSUME NEW k \in DOMAIN lines'[r] PROVE Told(r, k)'
  <2>1. k \in 1..n /\ n \in Nat
    BY <1>3, <1>4, <1>5, <1>6
  <2>2. CASE k = n
    BY <1>3, <1>4, <1>7, <1>8, <1>10, <2>2 DEF Told
  <2>3. CASE k # n
    <3>1. k \in DOMAIN lines[r] /\ k \in DOMAIN calls[r]
      BY <1>5, <1>6, <2>1, <2>3
    <3>2. lines'[r][k] = lines[r][k] /\ calls'[r][k] = calls[r][k]
      BY <1>4, <1>7, <1>10, <2>3, <3>1
    <3> QED BY <1>6, <1>8, <3>1, <3>2 DEF Asked, Told
  <2> QED BY <2>2, <2>3
<1>12. Asked(r)'
  BY <1>4, <1>6, <1>7, <1>8, <1>10, <1>11 DEF Asked
<1>13. InBatch(r)'
  BY <1>4, <1>6, <1>7, <1>8, <1>10, <1>12 DEF InBatch, ResultUse
<1> QED BY <1>4, <1>13 DEF Asking

\* A batch that a crash ends asks nothing more; the others are as they were.
LEMMA CrashAsking ==
    ASSUME TypeInv, Crash, NEW r \in Request, Asking(r)
    PROVE  Asking(r)'
<1>1. CASE InFlight(r)
  <2>1. pc'[r] = "lost"
    BY <1>1, CrashFacts
  <2> QED BY <2>1 DEF Asking, Looping, ResultUse
<1>2. CASE ~InFlight(r)
  <2>1. Same(r)
    BY <1>2, CrashFacts DEF Same
  <2> QED BY <2>1, SameAsking
<1> QED BY <1>1, <1>2

LEMMA StepAsking ==
    ASSUME TypeInv, TypeInv', NEW r \in Request, Receive(r) \/ Handle(r), Asking(r)
    PROVE  Asking(r)'
<1>1. CASE Receive(r)
  <2>1. pc'[r] = "form"
    BY <1>1 DEF Receive, Goto, TypeInv, TypeOK
  <2> QED BY <2>1 DEF Asking, Looping, ResultUse
<1>2. CASE CheckForm(r) \/ CreateUpload(r) \/ CopyUpload(r)
  <2>1. /\ pc[r] \in Early
        /\ UNCHANGED <<form, sheet, row, lines, calls>>
    BY <1>2 DEF CheckForm, CreateUpload, CopyUpload, files, Early
  <2>2. pc'[r] \in {"replied"} \cup Early
    BY <1>2 DEF CheckForm, CreateUpload, CopyUpload, Goto, Refuse, Answer,
       TypeInv, TypeOK, Early
  <2>3. pc'[r] \notin ResultUse
    BY <2>2 DEF Early, ResultUse
  <2> QED BY <2>1, <2>2, <2>3, DoneAsking
<1>3. CASE CreateResult(r)
  <2>1. /\ pc[r] = "loop" /\ Pending(r) = {}
        /\ UNCHANGED <<form, sheet, row, lines, calls>>
    BY <1>3 DEF CreateResult
  <2>2. Refuse(r, 500) \/ Goto(r, "write")
    BY <1>3 DEF CreateResult
  <2>3. pc'[r] \in {"replied", "write"} /\ pc[r] \notin Early
    BY <2>1, <2>2 DEF Goto, Refuse, Answer, TypeInv, TypeOK, Early
  <2> QED BY <2>1, <2>3, DoneAsking DEF ResultUse
<1>4. CASE WriteResult(r) \/ OpenResult(r) \/ ServeResult(r)
  <2>1. /\ pc[r] \in ResultUse /\ pc[r] \notin Early
        /\ UNCHANGED <<form, sheet, row, lines, calls>>
    BY <1>4 DEF WriteResult, OpenResult, ServeResult, files, ResultUse, Early
  <2>2. Pending(r) = {}
    BY <2>1 DEF Asking, InBatch
  <2>3. pc'[r] \in {"replied", "open", "serve"}
    BY <1>4 DEF WriteResult, OpenResult, ServeResult, Goto, Refuse, Answer,
       TypeInv, TypeOK
  <2> QED BY <2>1, <2>2, <2>3, DoneAsking DEF ResultUse
<1> QED BY <1>1, <1>2, <1>3, <1>4, FirstAsking, TakeAsking, ToldAsking
        DEF Handle, ProcessExcel

AskInv == TypeInv /\ \A r \in Request : Asking(r)

LEMMA AskInit == Init => AskInv
BY InitType DEF Init, AskInv, Asking, Looping, ResultUse

LEMMA AskNext == AskInv /\ [Next]_vars => AskInv'
<1> SUFFICES ASSUME AskInv, [Next]_vars PROVE AskInv'
  OBVIOUS
<1>1. TypeInv /\ TypeInv'
  BY NextType DEF AskInv
<1>2. ASSUME NEW q \in Request, Receive(q) \/ Handle(q), NEW r \in Request
      PROVE  Asking(r)'
  <2>1. CASE r = q
    BY <1>1, <1>2, <2>1, StepAsking DEF AskInv
  <2>2. CASE r # q
    <3>1. Same(r)
      BY <1>1, <1>2, <2>2, Frame DEF TypeInv
    <3> QED BY <3>1, SameAsking DEF AskInv
  <2> QED BY <2>1, <2>2
<1>3. ASSUME Crash, NEW r \in Request PROVE Asking(r)'
  BY <1>1, <1>3, CrashAsking DEF AskInv
<1>4. ASSUME UNCHANGED vars, NEW r \in Request PROVE Asking(r)'
  <2>1. Same(r)
    BY <1>4 DEF vars, files, Same
  <2> QED BY <2>1, SameAsking DEF AskInv
<1>5. \A r \in Request : Asking(r)'
  BY <1>2, <1>3, <1>4, HandleCases DEF Next, Quiet
<1> QED BY <1>1, <1>5 DEF AskInv

\* The answers that were heard on a row.
Heard(s, asked) == {c.answer : c \in {s[j] : j \in {i \in DOMAIN s : s[i].row = asked}}}

LEMMA OneAnswer ==
    ASSUME NEW s \in Seq(Call), Ascending(s), NEW k \in DOMAIN s,
           NEW asked, s[k].row = asked
    PROVE  Heard(s, asked) = {s[k].answer}
<1>1. \A i \in DOMAIN s : s[i] \in Call /\ i \in Nat
  OBVIOUS
<1>2. ASSUME NEW i \in DOMAIN s, s[i].row = asked PROVE i = k
  <2>1. s[i].row \in Nat /\ s[k].row \in Nat
    BY <1>1 DEF Call
  <2>2. ~(s[i].row < s[k].row) /\ ~(s[k].row < s[i].row)
    BY <1>2, <2>1
  <2>3. ~(i < k) /\ ~(k < i)
    BY <2>2 DEF Ascending
  <2> QED BY <1>1, <2>3
<1> QED BY <1>2 DEF Heard

LEMMA ResultTold ==
    ASSUME AskInv, NEW r \in Request, pc[r] \in ResultUse
    PROVE  /\ RowsOf(lines[r]) = RowsToAsk(r)
           /\ Ascending(lines[r]) /\ Ascending(calls[r])
           /\ \A k \in DOMAIN lines[r] :
                 LET heard == {c.answer : c \in {calls[r][j] : j \in
                         {i \in DOMAIN calls[r] : calls[r][i].row = lines[r][k].row}}}
                 IN  /\ lines[r][k].says = "data" <=> heard = {"data"}
                     /\ lines[r][k].says = "none" <=>
                           form[r].kind = "taobao" /\ heard \in {{"empty"}, {"rejected"}}
<1>1. InBatch(r) /\ pc[r] # "query" /\ sheet[r] \in Book /\ form[r].kind \in Kind
  BY DEF AskInv, Asking, TypeInv, Held, ResultUse, Form
<1>2. calls[r] \in Seq(Call) /\ lines[r] \in Seq(Line) /\ row[r] \in Nat
  BY DEF AskInv, TypeInv, TypeOK
<1>3. Taken(r) = RowsToAsk(r)
  <2>1. RowsToAsk(r) \in SUBSET Nat
    BY <1>1, AskedRows
  <2> QED BY <1>1, <1>2, <2>1 DEF InBatch, Taken, Pending
<1>4. RowsOf(lines[r]) = RowsToAsk(r) /\ Ascending(lines[r]) /\ Ascending(calls[r])
  BY <1>1, <1>3 DEF InBatch
<1>5. ASSUME NEW k \in DOMAIN lines[r]
      PROVE  LET heard == {c.answer : c \in {calls[r][j] : j \in
                     {i \in DOMAIN calls[r] : calls[r][i].row = lines[r][k].row}}}
             IN  /\ lines[r][k].says = "data" <=> heard = {"data"}
                 /\ lines[r][k].says = "none" <=>
                       form[r].kind = "taobao" /\ heard \in {{"empty"}, {"rejected"}}
  <2> DEFINE heard == {c.answer : c \in {calls[r][j] : j \in
                 {i \in DOMAIN calls[r] : calls[r][i].row = lines[r][k].row}}}
  <2>1. CASE TaskUnusable(r)
    <3>1. calls[r] = <<>> /\ lines[r][k].says = "error"
      BY <1>1, <2>1 DEF InBatch, Unasked
    <3>2. heard = {}
      BY <3>1
    <3> HIDE DEF heard
    <3>3. heard # {"data"} /\ heard \notin {{"empty"}, {"rejected"}}
      BY <3>2
    <3> QED BY <3>1, <3>3 DEF heard
  <2>2. CASE ~TaskUnusable(r)
    <3>1. Asked(r) /\ Told(r, k)
      BY <1>1, <2>2 DEF InBatch, Asked
    <3>2. k \in DOMAIN calls[r]
      BY <1>1, <1>2, <3>1 DEF Asked
    <3> DEFINE a == calls[r][k].answer
    <3>3. heard = {a}
      <4>1. calls[r][k].row = lines[r][k].row
        BY <3>1 DEF Told
      <4>2. calls[r] \in Seq(Call) /\ Ascending(calls[r])
        BY <1>2, <1>4
      <4>3. Heard(calls[r], lines[r][k].row) = {a}
        BY <3>2, <4>1, <4>2, OneAnswer
      <4> QED BY <4>3 DEF Heard
    <3>4. a \in Answers(r) /\ lines[r][k].says = Says(r, a)
      BY <3>1 DEF Told
    <3> HIDE DEF heard, a
    <3>5. /\ heard = {"data"} <=> a = "data"
          /\ heard \in {{"empty"}, {"rejected"}} <=> a \in {"empty", "rejected"}
      BY <3>3
    <3>6. /\ Says(r, a) = "data" <=> a = "data"
          /\ Says(r, a) = "none" <=> form[r].kind = "taobao" /\ a \in {"empty", "rejected"}
      BY <1>1, <3>4 DEF Kind, Says, Answers, JdAnswer, RemoteAnswer, JdSays, TaobaoSays
    <3> QED BY <3>4, <3>5, <3>6 DEF heard
  <2> QED BY <2>1, <2>2
<1> QED BY <1>4, <1>5

-----------------------------------------------------------------------------
\* A refusal carries nothing of anybody's.
LEMMA RefuseWork ==
    ASSUME SharedInv, NEW r \in Request, NEW status \in {400, 500}, Refuse(r, status),
           UNCHANGED <<form, sheet, met>>
    PROVE  (met[r] = {} => OwnWork(r)') /\ KnownWork(r)'
<1>1. reply'[r] = [status |-> status, body |-> Nothing]
  BY RefuseType DEF SharedInv, TypeInv
<1>2. reply'[r].status # 200 /\ reply'[r].body.of = {}
  BY <1>1 DEF Nothing
<1>3. (met[r] = {} => OwnWork(r)) /\ KnownWork(r) /\ BooksOf(r)' = BooksOf(r)
  BY DEF SharedInv, Own, Known, BooksOf
<1> QED BY <1>2, <1>3 DEF OwnWork, KnownWork

\* What two requests have done is as it was when they and those they met are.
LEMMA SameWork ==
    ASSUME NEW r \in Request, Same(r),
           \A q \in {r} \cup met[r] : form'[q] = form[q], met[r] \subseteq met'[r]
    PROVE  /\ BooksOf(r) \subseteq BooksOf(r)'
           /\ OwnWork(r) => OwnWork(r)'
           /\ KnownWork(r) => KnownWork(r)'
           /\ UploadPath(r)' = UploadPath(r) /\ ResultPath(r)' = ResultPath(r)
<1>1. BooksOf(r) \subseteq BooksOf(r)'
  BY DEF BooksOf
<1>2. form'[r] = form[r] /\ sheet'[r] = sheet[r] /\ reply'[r] = reply[r] /\ second'[r] = second[r]
  BY DEF Same
<1>3. OwnWork(r) => OwnWork(r)'
  BY <1>2 DEF OwnWork
<1>4. KnownWork(r) => KnownWork(r)'
  BY <1>1, <1>2 DEF KnownWork
<1> QED BY <1>1, <1>2, <1>3, <1>4 DEF UploadPath, ResultPath

LEMMA StillActive ==
    ASSUME SharedInv, UNCHANGED met,
           \A r \in Request : pc[r] # "idle" => pc'[r] # "idle"
    PROVE  MetActive'
<1>1. \A r \in Request : met[r] \in SUBSET Request
  BY DEF SharedInv, TypeInv, TypeOK
<1> QED BY <1>1 DEF SharedInv, MetActive

\* A step of q that touches no file leaves the files of the others to them.
LEMMA QuietShared ==
    ASSUME SharedInv, TypeInv', NEW q \in Request, pc[q] # "idle",
           UNCHANGED <<uploads, results, form, met>>,
           \A r \in Request \ {q} : Same(r),
           pc'[q] \notin UploadUse \cup ResultUse \cup {"idle"},
           met[q] = {} => OwnWork(q)', KnownWork(q)'
    PROVE  SharedInv'
<1>1. ASSUME NEW r \in Request \ {q}
      PROVE  /\ (met'[r] = {} => Own(r)') /\ Known(r)'
             /\ pc'[r] = pc[r]
             /\ UploadPath(r)' = UploadPath(r) /\ ResultPath(r)' = ResultPath(r)
  <2>1. /\ BooksOf(r) \subseteq BooksOf(r)'
        /\ OwnWork(r) => OwnWork(r)'
        /\ KnownWork(r) => KnownWork(r)'
        /\ UploadPath(r)' = UploadPath(r) /\ ResultPath(r)' = ResultPath(r)
        /\ pc'[r] = pc[r] /\ seen'[r] = seen[r] /\ form'[r] = form[r]
    BY SameWork DEF Same
  <2>2. (met[r] = {} => Own(r)) /\ Known(r)
    BY DEF SharedInv
  <2>3. met'[r] = {} => Own(r)'
    BY <2>1, <2>2 DEF Own, Workbook
  <2>4. Known(r)'
    BY <2>1, <2>2 DEF Known
  <2> QED BY <2>1, <2>3, <2>4
<1>2. (met'[q] = {} => Own(q)') /\ Known(q)'
  BY DEF Own, Known, UploadUse, ResultUse
<1>3. \A r, t \in Request : Apart(r, t)'
  BY <1>1 DEF SharedInv, Apart
<1>4. MetActive'
  BY <1>1, StillActive
<1> QED BY <1>1, <1>2, <1>3, <1>4 DEF SharedInv

LEMMA ReceiveShared ==
    ASSUME SharedInv, TypeInv', NEW q \in Request, Receive(q)
    PROVE  SharedInv'
<1>1. /\ pc[q] = "idle" /\ pc'[q] = "form"
      /\ UNCHANGED <<uploads, results, met>> /\ sheet'[q] = None /\ reply'[q] = None
      /\ \A r \in Request \ {q} : Same(r)
  BY Frame DEF Receive, files, Goto, SharedInv, TypeInv, TypeOK, Held, Early
<1>2. \A r \in Request : q \notin met[r]
  BY <1>1 DEF SharedInv, MetActive
<1>3. ASSUME NEW r \in Request \ {q}
      PROVE  /\ (met'[r] = {} => Own(r)') /\ Known(r)'
             /\ pc'[r] = pc[r]
             /\ UploadPath(r)' = UploadPath(r) /\ ResultPath(r)' = ResultPath(r)
  <2>1. \A t \in {r} \cup met[r] : t \in Request \ {q}
    BY <1>2 DEF SharedInv, TypeInv, TypeOK
  <2>2. \A t \in {r} \cup met[r] : form'[t] = form[t]
    BY <1>1, <2>1 DEF Same
  <2>3. /\ BooksOf(r) \subseteq BooksOf(r)'
        /\ OwnWork(r) => OwnWork(r)'
        /\ KnownWork(r) => KnownWork(r)'
        /\ UploadPath(r)' = UploadPath(r) /\ ResultPath(r)' = ResultPath(r)
        /\ pc'[r] = pc[r] /\ seen'[r] = seen[r] /\ form'[r] = form[r]
    BY <1>1, <2>2, SameWork DEF Same
  <2>4. (met[r] = {} => Own(r)) /\ Known(r)
    BY DEF SharedInv
  <2>5. met'[r] = {} => Own(r)'
    BY <1>1, <2>3, <2>4 DEF Own, Workbook
  <2>6. Known(r)'
    BY <1>1, <2>3, <2>4 DEF Known
  <2> QED BY <2>3, <2>5, <2>6
<1>4. (met'[q] = {} => Own(q)') /\ Known(q)'
  BY <1>1 DEF Own, Known, OwnWork, KnownWork, UploadUse, ResultUse
<1>5. \A r, t \in Request : Apart(r, t)'
  BY <1>1, <1>3 DEF SharedInv, Apart, UploadUse, ResultUse
<1>6. MetActive'
  BY <1>1, <1>3, StillActive
<1> QED BY <1>3, <1>4, <1>5, <1>6 DEF SharedInv

\* Whoever is saving to the upload that r uses is known to r.
LEMMA UploadersKnown ==
    ASSUME SharedInv, NEW r \in Request, pc[r] \in UploadUse
    PROVE  Contended(r, UploadPath(r)) => met[r] # {}
<1> SUFFICES ASSUME NEW w \in Request \ {r}, pc[w] = "copy", UploadPath(w) = UploadPath(r)
             PROVE  w \in met[r]
  BY DEF Contended
<1>1. Apart(r, w)
  BY DEF SharedInv
<1> QED BY <1>1 DEF Apart, UploadUse

LEMMA ReadShared ==
    ASSUME SharedInv, TypeInv', NEW q \in Request, ReadUpload(q)
    PROVE  SharedInv'
<1> DEFINE path == UploadPath(q)
<1>1. /\ pc[q] = "read" /\ reply[q] = None
      /\ UNCHANGED <<uploads, results, form, met>>
      /\ \A r \in Request \ {q} : Same(r)
  <2>1. Handle(q)
    BY DEF Handle, ProcessExcel
  <2> QED BY <2>1, Frame DEF ReadUpload, files, SharedInv, TypeInv, Held
<1>2. CASE Refuse(q, 500) /\ UNCHANGED sheet
  <2>1. pc'[q] = "replied"
    BY <1>2, RefuseType DEF SharedInv, TypeInv
  <2>2. (met[q] = {} => OwnWork(q)') /\ KnownWork(q)'
    BY <1>1, <1>2, RefuseWork
  <2> QED BY <1>1, <2>1, <2>2, QuietShared DEF UploadUse, ResultUse
<1>3. ASSUME NEW book, book = uploads[path] \/ (Contended(q, path) /\ book = TornFile),
             UsableSheet(form[q].kind, book),
             sheet' = [sheet EXCEPT ![q] = book], Goto(q, "loop")
      PROVE  SharedInv'
  <2>1. pc'[q] = "loop" /\ reply'[q] = None /\ sheet'[q] = book
    BY <1>1, <1>3 DEF Goto, SharedInv, TypeInv, TypeOK
  <2>2. book # EmptyFile /\ book # TornFile
    BY <1>3 DEF UsableSheet, Readable, EmptyFile, TornFile, Unreadable
  <2>3. book \in BooksOf(q)
    <3>1. uploads[path] \in BooksOf(q) \cup {EmptyFile, TornFile}
      BY <1>1 DEF SharedInv, Known, UploadUse
    <3> QED BY <1>3, <2>2, <3>1
  <2>4. met[q] = {} => book = form[q].book
    <3>1. met[q] = {} => uploads[path] = form[q].book
      BY <1>1 DEF SharedInv, Own
    <3> QED BY <1>1, <1>3, <3>1, UploadersKnown DEF UploadUse
  <2>5. met[q] = {} => OwnWork(q)'
    BY <1>1, <2>1, <2>4 DEF OwnWork
  <2>6. KnownWork(q)'
    BY <1>1, <2>1, <2>3 DEF KnownWork, BooksOf
  <2> QED BY <1>1, <2>1, <2>5, <2>6, QuietShared DEF UploadUse, ResultUse
<1> QED BY <1>2, <1>3 DEF ReadUpload

\* The other steps that touch no file.
LEMMA LocalShared ==
    ASSUME SharedInv, TypeInv', NEW q \in Request,
           CheckForm(q) \/ TakeRow(q) \/ ReceiveAnswer(q)
    PROVE  SharedInv'
<1>1. /\ pc[q] # "idle"
      /\ UNCHANGED <<uploads, results, form, sheet, met>>
      /\ \A r \in Request \ {q} : Same(r)
  <2>1. Handle(q)
    BY DEF Handle, ProcessExcel
  <2> QED BY <2>1, Frame DEF CheckForm, TakeRow, ReceiveAnswer, files, SharedInv, TypeInv
<1>2. CASE Refuse(q, 400)
  <2>1. pc'[q] = "replied"
    BY <1>2, RefuseType DEF SharedInv, TypeInv
  <2>2. (met[q] = {} => OwnWork(q)') /\ KnownWork(q)'
    BY <1>1, <1>2, RefuseWork
  <2> QED BY <1>1, <2>1, <2>2, QuietShared DEF UploadUse, ResultUse
<1>3. CASE /\ pc'[q] \in {"create", "loop", "query"} /\ reply'[q] = reply[q]
  <2>1. (met[q] = {} => OwnWork(q)) /\ KnownWork(q) /\ BooksOf(q)' = BooksOf(q)
    BY <1>1 DEF SharedInv, Own, Known, BooksOf
  <2>2. (met[q] = {} => OwnWork(q)') /\ KnownWork(q)'
    BY <1>1, <1>3, <2>1 DEF OwnWork, KnownWork
  <2> QED BY <1>1, <1>3, <2>2, QuietShared DEF UploadUse, ResultUse
<1>4. Refuse(q, 400) \/ (pc'[q] \in {"create", "loop", "query"} /\ reply'[q] = reply[q])
  BY DEF CheckForm, TakeRow, ReceiveAnswer, Goto, SharedInv, TypeInv, TypeOK
<1> QED BY <1>2, <1>3, <1>4

\* q opens a file and meets its users: who uses it has met q, and q has met him.
LEMMA MeetShared ==
    ASSUME SharedInv, NEW q \in Request, NEW users \in SUBSET Request,
           Meet(q, users), \A r \in users : pc[r] # "idle", pc[q] # "idle",
           \A r \in Request : pc[r] # "idle" => pc'[r] # "idle"
    PROVE  /\ MetActive'
           /\ \A r \in Request : met[r] \subseteq met'[r]
           /\ \A r \in users \ {q} : q \in met'[r] /\ r \in met'[q]
<1>1. /\ met'[q] = met[q] \cup (users \ {q})
      /\ \A r \in users \ {q} : met'[r] = met[r] \cup {q}
      /\ \A r \in Request \ users : r # q => met'[r] = met[r]
  BY MeetFacts DEF SharedInv, TypeInv
<1>2. \A r \in Request : met[r] \in SUBSET Request
  BY DEF SharedInv, TypeInv, TypeOK
<1>3. \A r \in Request : \A t \in met'[r] : t \in met[r] \/ t \in users \/ t = q
  BY <1>1
<1>4. MetActive'
  BY <1>2, <1>3 DEF SharedInv, MetActive
<1> QED BY <1>1, <1>4

LEMMA CreateUploadShared ==
    ASSUME SharedInv, TypeInv', NEW q \in Request, CreateUpload(q)
    PROVE  SharedInv'
<1> DEFINE path == UploadPath(q)
           users == UploadUsers(path)
<1>1. /\ pc[q] = "create" /\ sheet[q] = None /\ reply[q] = None
      /\ UNCHANGED <<results, form, sheet>>
      /\ \A r \in Request \ {q} : Same(r)
  <2>1. Handle(q)
    BY DEF Handle
  <2> QED BY <2>1, Frame DEF CreateUpload, SharedInv, TypeInv, Held, Early
<1>2. CASE Refuse(q, 500) /\ UNCHANGED <<uploads, met>>
  <2>1. pc'[q] = "replied"
    BY <1>2, RefuseType DEF SharedInv, TypeInv
  <2>2. (met[q] = {} => OwnWork(q)') /\ KnownWork(q)'
    BY <1>1, <1>2, RefuseWork
  <2> QED BY <1>1, <1>2, <2>1, <2>2, QuietShared DEF UploadUse, ResultUse
<1>3. CASE /\ uploads' = [uploads EXCEPT ![path] = EmptyFile]
           /\ Meet(q, users) /\ Goto(q, "copy")
  <2>1. pc'[q] = "copy" /\ reply'[q] = None
    BY <1>1, <1>3 DEF Goto, SharedInv, TypeInv, TypeOK
  <2>2. /\ path \in Kind \X FileName /\ uploads'[path] = EmptyFile
        /\ \A p \in Kind \X FileName : p # path => uploads'[p] = uploads[p]
    BY <1>1, <1>3, PathTypes DEF SharedInv, TypeInv, TypeOK
  <2>3. \A r \in Request : r \in users <=> pc[r] \in UploadUse /\ UploadPath(r) = path
    BY DEF UploadUsers, UploadUse
  <2>4. /\ MetActive'
        /\ \A r \in Request : met[r] \subseteq met'[r]
        /\ \A r \in users \ {q} : q \in met'[r] /\ r \in met'[q]
    <3>1. users \in SUBSET Request
      BY DEF UploadUsers
    <3>2. \A r \in Request : pc[r] # "idle" => pc'[r] # "idle"
      BY <1>1, <2>1 DEF Same
    <3>3. \A r \in users : pc[r] # "idle"
      BY <2>3, <3>1 DEF UploadUse
    <3> HIDE DEF users
    <3> QED BY <1>1, <1>3, <3>1, <3>2, <3>3, MeetShared
  <2> HIDE DEF users, path
  <2>5. UploadPath(q)' = path /\ UploadPath(q) = path
    BY <1>1 DEF UploadPath, path
  <2>6. ASSUME NEW r \in Request \ {q}
        PROVE  /\ (met'[r] = {} => Own(r)') /\ Known(r)'
               /\ pc'[r] = pc[r]
               /\ UploadPath(r)' = UploadPath(r) /\ ResultPath(r)' = ResultPath(r)
    <3>1. /\ BooksOf(r) \subseteq BooksOf(r)'
          /\ OwnWork(r) => OwnWork(r)'
          /\ KnownWork(r) => KnownWork(r)'
          /\ UploadPath(r)' = UploadPath(r) /\ ResultPath(r)' = ResultPath(r)
          /\ pc'[r] = pc[r] /\ seen'[r] = seen[r] /\ form'[r] = form[r]
      BY <1>1, <2>4, SameWork DEF Same
    <3>2. (met[r] = {} => Own(r)) /\ Known(r) /\ met[r] \subseteq met'[r]
      BY <2>4 DEF SharedInv
    <3>3. pc[r] \in UploadUse =>
            /\ UploadPath(r) \in Kind \X FileName
            /\ UploadPath(r) = path => met'[r] # {}
      BY <2>3, <2>4, PathTypes DEF SharedInv, UploadUse
    <3>4. pc[r] \in UploadUse =>
            \/ uploads'[UploadPath(r)] = uploads[UploadPath(r)]
            \/ uploads'[UploadPath(r)] = EmptyFile /\ met'[r] # {}
      BY <2>2, <3>3
    <3>5. met'[r] = {} => Own(r)'
      BY <1>1, <3>1, <3>2, <3>4 DEF Own, Workbook, UploadUse
    <3>6. Known(r)'
      BY <1>1, <3>1, <3>2, <3>4 DEF Known
    <3> QED BY <3>1, <3>5, <3>6
  <2>7. (met'[q] = {} => Own(q)') /\ Known(q)'
    BY <1>1, <2>1, <2>2, <2>5 DEF Own, Known, OwnWork, KnownWork, UploadUse, ResultUse
  <2>8. \A r, t \in Request : Apart(r, t)'
    <3>1. ASSUME NEW r \in Request, NEW t \in Request PROVE Apart(r, t)'
      <4>1. Apart(r, t) /\ met[r] \subseteq met'[r]
        BY <2>4 DEF SharedInv
      <4>2. CASE r # q /\ t # q
        BY <2>6, <4>1, <4>2 DEF Apart
      <4>3. CASE r = q \/ t = q
        BY <2>1, <2>3, <2>4, <2>5, <2>6, <4>3 DEF Apart, ResultUse
      <4> QED BY <4>2, <4>3
    <3> QED BY <3>1
  <2> QED BY <2>4, <2>6, <2>7, <2>8 DEF SharedInv
<1> QED BY <1>2, <1>3 DEF CreateUpload

LEMMA CopyUploadShared ==
    ASSUME SharedInv, TypeInv', NEW q \in Request, CopyUpload(q)
    PROVE  SharedInv'
<1> DEFINE path == UploadPath(q)
<1>1. /\ pc[q] = "copy" /\ reply[q] = None /\ sheet[q] = None
      /\ UNCHANGED <<results, form, sheet, met>>
      /\ \A r \in Request \ {q} : Same(r)
  <2>1. Handle(q)
    BY DEF Handle
  <2> QED BY <2>1, Frame DEF CopyUpload, SharedInv, TypeInv, Held, Early
<1>2. PICK content \in {form[q].book, TornFile} :
        uploads' = [uploads EXCEPT ![path] = content]
  BY DEF CopyUpload
<1>3. \/ /\ pc'[q] = "replied" /\ Refuse(q, 500)
      \/ /\ pc'[q] = "read" /\ reply'[q] = None
         /\ content # form[q].book => Contended(q, path) \/ uploads[path] # EmptyFile
  <2>1. path \in Kind \X FileName
    BY <1>1, PathTypes DEF SharedInv
  <2>2. Refuse(q, 500) => pc'[q] = "replied"
    BY RefuseType DEF SharedInv, TypeInv
  <2>3. Goto(q, "read") => pc'[q] = "read" /\ reply'[q] = None
    BY <1>1 DEF Goto, SharedInv, TypeInv, TypeOK
  <2>4. content = uploads'[path]
    BY <1>2, <2>1 DEF SharedInv, TypeInv, TypeOK
  <2>5. \/ Refuse(q, 500)
        \/ /\ Goto(q, "read")
           /\ \E c \in {form[q].book} \cup
                  (IF Contended(q, path) \/ uploads[path] # EmptyFile
                   THEN {TornFile} ELSE {}) :
                uploads' = [uploads EXCEPT ![path] = c]
    BY DEF CopyUpload
  <2> HIDE DEF path
  <2>6. ASSUME Goto(q, "read"), NEW c, uploads' = [uploads EXCEPT ![path] = c]
        PROVE  uploads'[path] = c
    BY <2>1, <2>6 DEF SharedInv, TypeInv, TypeOK
  <2> QED BY <2>2, <2>3, <2>4, <2>5, <2>6
<1>4. /\ path \in Kind \X FileName /\ uploads'[path] = content
      /\ \A p \in Kind \X FileName : p # path => uploads'[p] = uploads[p]
  BY <1>1, <1>2, PathTypes DEF SharedInv, TypeInv, TypeOK
<1>5. UploadPath(q)' = path /\ UploadPath(q) = path
  BY <1>1 DEF UploadPath
<1>6. met[q] = {} => uploads[path] = EmptyFile /\ ~Contended(q, path)
  BY <1>1, UploadersKnown DEF SharedInv, Own, UploadUse
<1> HIDE DEF path
<1>7. ASSUME NEW r \in Request \ {q}
      PROVE  /\ (met'[r] = {} => Own(r)') /\ Known(r)'
             /\ pc'[r] = pc[r]
             /\ UploadPath(r)' = UploadPath(r) /\ ResultPath(r)' = ResultPath(r)
  <2>1. /\ BooksOf(r) \subseteq BooksOf(r)'
        /\ OwnWork(r) => OwnWork(r)'
        /\ KnownWork(r) => KnownWork(r)'
        /\ UploadPath(r)' = UploadPath(r) /\ ResultPath(r)' = ResultPath(r)
        /\ pc'[r] = pc[r] /\ seen'[r] = seen[r] /\ form'[r] = form[r]
    BY <1>1, SameWork DEF Same
  <2>2. (met[r] = {} => Own(r)) /\ Known(r) /\ Apart(r, q)
    BY DEF SharedInv
  <2>3. pc[r] \in UploadUse =>
          /\ UploadPath(r) \in Kind \X FileName
          /\ UploadPath(r) = path => q \in met[r]
    BY <1>1, <1>5, <2>2, PathTypes DEF SharedInv, UploadUse, Apart
  <2>4. pc[r] \in UploadUse =>
          \/ uploads'[UploadPath(r)] = uploads[UploadPath(r)]
          \/ /\ uploads'[UploadPath(r)] \in BooksOf(r) \cup {TornFile}
             /\ met[r] # {}
    <3>1. q \in met[r] => form[q].book \in BooksOf(r)
      BY DEF BooksOf
    <3> QED BY <1>4, <2>3, <3>1
  <2>5. met'[r] = {} => Own(r)'
    BY <1>1, <2>1, <2>2, <2>4 DEF Own, Workbook, UploadUse
  <2>6. Known(r)'
    BY <1>1, <2>1, <2>2, <2>4 DEF Known
  <2> QED BY <2>1, <2>5, <2>6
<1>8. (met'[q] = {} => Own(q)') /\ Known(q)'
  <2>1. CASE pc'[q] = "replied" /\ Refuse(q, 500)
    <3>1. (met[q] = {} => OwnWork(q)') /\ KnownWork(q)'
      BY <1>1, <2>1, RefuseWork
    <3> QED BY <1>1, <2>1, <3>1 DEF Own, Known, UploadUse, ResultUse
  <2>2. CASE /\ pc'[q] = "read" /\ reply'[q] = None
             /\ content # form[q].book => Contended(q, path) \/ uploads[path] # EmptyFile
    <3>1. form[q].book \in BooksOf(q)'
      BY <1>1 DEF BooksOf
    <3>2. Known(q)'
      BY <1>1, <1>2, <1>4, <1>5, <2>2, <3>1 DEF Known, KnownWork, UploadUse, ResultUse
    <3>3. met'[q] = {} => Own(q)'
      BY <1>1, <1>4, <1>5, <1>6, <2>2 DEF Own, OwnWork
    <3> QED BY <3>2, <3>3
  <2> QED BY <1>3, <2>1, <2>2
<1>9. \A r, t \in Request : Apart(r, t)'
  <2>1. pc'[q] \in UploadUse => pc[q] \in UploadUse
    BY <1>1, <1>3 DEF UploadUse
  <2>2. pc'[q] \notin ResultUse
    BY <1>3 DEF ResultUse
  <2> QED BY <1>1, <1>5, <1>7, <2>1, <2>2 DEF SharedInv, Apart
<1>10. MetActive'
  <2>1. pc'[q] # "idle"
    BY <1>3
  <2> QED BY <1>1, <1>7, <2>1, StillActive
<1> QED BY <1>7, <1>8, <1>9, <1>10 DEF SharedInv

LEMMA CreateResultShared ==
    ASSUME SharedInv, TypeInv', NEW q \in Request, CreateResult(q)
    PROVE  SharedInv'
<1>1. /\ pc[q] = "loop" /\ reply[q] = None
      /\ UNCHANGED <<uploads, form, sheet>>
      /\ \A r \in Request \ {q} : Same(r)
  <2>1. Handle(q)
    BY DEF Handle, ProcessExcel
  <2> QED BY <2>1, Frame DEF CreateResult, SharedInv, TypeInv, Held
<1>2. CASE Refuse(q, 500) /\ UNCHANGED <<results, second, met>>
  <2>1. pc'[q] = "replied"
    BY <1>2, RefuseType DEF SharedInv, TypeInv
  <2>2. (met[q] = {} => OwnWork(q)') /\ KnownWork(q)'
    BY <1>1, <1>2, RefuseWork
  <2> QED BY <1>1, <1>2, <2>1, <2>2, QuietShared DEF UploadUse, ResultUse
<1>3. ASSUME NEW s \in Second, NEW path, path = <<form[q].kind, s>>,
             second' = [second EXCEPT ![q] = s],
             results' = [results EXCEPT ![path] = Nothing],
             Meet(q, ResultUsers(path)), Goto(q, "write")
      PROVE  SharedInv'
  <2> DEFINE users == ResultUsers(path)
  <2>1. pc'[q] = "write" /\ reply'[q] = None
    BY <1>1, <1>3 DEF Goto, SharedInv, TypeInv, TypeOK
  <2>2. /\ path \in Kind \X Second /\ results'[path] = Nothing
        /\ \A p \in Kind \X Second : p # path => results'[p] = results[p]
    <3>1. form[q].kind \in Kind
      BY <1>1 DEF SharedInv, TypeInv, Held, Form
    <3> QED BY <1>3, <3>1 DEF SharedInv, TypeInv, TypeOK
  <2>3. \A r \in Request : r \in users <=> pc[r] \in ResultUse /\ ResultPath(r) = path
    BY DEF ResultUsers, ResultUse
  <2>4. /\ MetActive'
        /\ \A r \in Request : met[r] \subseteq met'[r]
        /\ \A r \in users \ {q} : q \in met'[r] /\ r \in met'[q]
    <3>1. users \in SUBSET Request /\ Meet(q, users)
      BY <1>3 DEF ResultUsers
    <3>2. \A r \in Request : pc[r] # "idle" => pc'[r] # "idle"
      BY <1>1, <2>1 DEF Same
    <3>3. \A r \in users : pc[r] # "idle"
      BY <2>3, <3>1 DEF ResultUse
    <3> HIDE DEF users
    <3> QED BY <1>1, <3>1, <3>2, <3>3, MeetShared
  <2> HIDE DEF users
  <2>5. ResultPath(q)' = path
    BY <1>1, <1>3 DEF ResultPath, SharedInv, TypeInv, TypeOK
  <2>6. ASSUME NEW r \in Request \ {q}
        PROVE  /\ (met'[r] = {} => Own(r)') /\ Known(r)'
               /\ pc'[r] = pc[r]
               /\ UploadPath(r)' = UploadPath(r) /\ ResultPath(r)' = ResultPath(r)
    <3>1. /\ BooksOf(r) \subseteq BooksOf(r)'
          /\ OwnWork(r) => OwnWork(r)'
          /\ KnownWork(r) => KnownWork(r)'
          /\ UploadPath(r)' = UploadPath(r) /\ ResultPath(r)' = ResultPath(r)
          /\ pc'[r] = pc[r] /\ seen'[r] = seen[r] /\ form'[r] = form[r]
      BY <1>1, <2>4, SameWork DEF Same
    <3>2. (met[r] = {} => Own(r)) /\ Known(r) /\ met[r] \subseteq met'[r]
      BY <2>4 DEF SharedInv
    <3>3. pc[r] \in ResultUse =>
            /\ ResultPath(r) \in Kind \X Second
            /\ ResultPath(r) = path => met'[r] # {}
      BY <2>3, <2>4, PathTypes DEF SharedInv
    <3>4. pc[r] \in ResultUse =>
            \/ results'[ResultPath(r)] = results[ResultPath(r)]
            \/ results'[ResultPath(r)] = Nothing /\ met'[r] # {}
      BY <2>2, <3>3
    <3>5. met'[r] = {} => Own(r)'
      BY <1>1, <3>1, <3>2, <3>4 DEF Own, Workbook, ResultUse
    <3>6. Known(r)'
      <4>1. pc[r] \in ResultUse => results'[ResultPath(r)].of \subseteq {r} \cup met'[r]
        BY <3>2, <3>4 DEF Known, Nothing
      <4> QED BY <1>1, <3>1, <3>2, <4>1 DEF Known
    <3> QED BY <3>1, <3>5, <3>6
  <2>7. OwnWork(q) => OwnWork(q)'
    BY <1>1, <2>1 DEF OwnWork
  <2>8. KnownWork(q)'
    <3>1. BooksOf(q) \subseteq BooksOf(q)'
      BY <1>1, <2>4 DEF BooksOf
    <3> QED BY <1>1, <2>1, <3>1 DEF SharedInv, Known, KnownWork
  <2>9. (met'[q] = {} => Own(q)') /\ Known(q)'
    <3>1. met'[q] = {} => OwnWork(q)'
      BY <2>4, <2>7 DEF SharedInv, Own
    <3>2. results'[path].of = {}
      BY <2>2 DEF Nothing
    <3> QED BY <2>1, <2>2, <2>5, <2>8, <3>1, <3>2 DEF Own, Known, UploadUse, ResultUse
  <2>10. \A r, t \in Request : Apart(r, t)'
    <3>1. ASSUME NEW r \in Request, NEW t \in Request PROVE Apart(r, t)'
      <4>1. Apart(r, t) /\ met[r] \subseteq met'[r]
        BY <2>4 DEF SharedInv
      <4>2. CASE r # q /\ t # q
        BY <2>6, <4>1, <4>2 DEF Apart
      <4>3. CASE r = q \/ t = q
        BY <2>1, <2>3, <2>4, <2>5, <2>6, <4>3 DEF Apart, UploadUse
      <4> QED BY <4>2, <4>3
    <3> QED BY <3>1
  <2> QED BY <2>4, <2>6, <2>9, <2>10 DEF SharedInv
<1> QED BY <1>2, <1>3 DEF CreateResult

\* Whoever writes to the result that r uses is known to r.
LEMMA WritersKnown ==
    ASSUME SharedInv, NEW r \in Request, pc[r] \in ResultUse,
           NEW path, path = ResultPath(r), NEW q \in Request
    PROVE  Writers(q, path) \subseteq {r} \cup met[r]
<1> SUFFICES ASSUME NEW w \in Request, pc[w] = "write", ResultPath(w) = path
             PROVE  w \in {r} \cup met[r]
  BY DEF Writers
<1>1. Apart(r, w)
  BY DEF SharedInv
<1> QED BY <1>1 DEF Apart, ResultUse

LEMMA WriteShared ==
    ASSUME SharedInv, TypeInv', NEW q \in Request, WriteResult(q)
    PROVE  SharedInv'
<1> DEFINE path == ResultPath(q)
           of == results[path].of \cup Writers(q, path) \cup {q}
<1>1. /\ pc[q] = "write" /\ reply[q] = None
      /\ UNCHANGED <<uploads, form, sheet, second, seen, met>>
      /\ \A r \in Request \ {q} : Same(r)
  <2>1. Handle(q)
    BY DEF Handle, ProcessExcel
  <2> QED BY <2>1, Frame DEF WriteResult, SharedInv, TypeInv, Held
<1>2. /\ path \in Kind \X Second
      /\ \/ results' = [results EXCEPT ![path] = Torn(of)] /\ Refuse(q, 500)
         \/ /\ Goto(q, "open")
            /\ \/ results' = [results EXCEPT ![path] = Workbook(q)]
               \/ of # {q} /\ results' = [results EXCEPT ![path] = Torn(of)]
  BY WriteCases DEF SharedInv
<1>3. ResultPath(q)' = path /\ path = ResultPath(q)
  BY <1>1 DEF ResultPath
<1> HIDE DEF path
<1>4. /\ results'[path] \in {Torn(of), Workbook(q)}
      /\ \A p \in Kind \X Second : p # path => results'[p] = results[p]
  BY <1>2 DEF SharedInv, TypeInv, TypeOK
<1>5. \/ pc'[q] = "replied" /\ Refuse(q, 500)
      \/ /\ pc'[q] = "open" /\ reply'[q] = None
         /\ of = {q} => results'[path] = Workbook(q)
  <2>1. Refuse(q, 500) => pc'[q] = "replied"
    BY RefuseType DEF SharedInv, TypeInv
  <2>2. Goto(q, "open") => pc'[q] = "open" /\ reply'[q] = None
    BY <1>1 DEF Goto, SharedInv, TypeInv, TypeOK
  <2>3. results' = [results EXCEPT ![path] = Workbook(q)] => results'[path] = Workbook(q)
    BY <1>2 DEF SharedInv, TypeInv, TypeOK
  <2> QED BY <1>2, <2>1, <2>2, <2>3
<1>6. results'[path].of \subseteq of
  BY <1>4 DEF Torn, Workbook
<1>7. ASSUME NEW r \in Request, pc[r] \in ResultUse, ResultPath(r) = path
      PROVE  of \subseteq {r} \cup met[r] /\ q \in {r} \cup met[r]
  <2>1. Writers(q, path) \subseteq {r} \cup met[r]
    BY <1>7, WritersKnown
  <2>2. results[path].of \subseteq {r} \cup met[r] /\ Apart(r, q)
    BY <1>7 DEF SharedInv, Known
  <2> QED BY <1>1, <1>3, <1>7, <2>1, <2>2 DEF Apart, ResultUse
<1>8. met[q] = {} => of = {q}
  BY <1>1, <1>3, <1>7 DEF ResultUse
<1> HIDE DEF of
<1>9. ASSUME NEW r \in Request \ {q}
      PROVE  /\ (met'[r] = {} => Own(r)') /\ Known(r)'
             /\ pc'[r] = pc[r]
             /\ UploadPath(r)' = UploadPath(r) /\ ResultPath(r)' = ResultPath(r)
  <2>1. /\ BooksOf(r) \subseteq BooksOf(r)'
        /\ OwnWork(r) => OwnWork(r)'
        /\ KnownWork(r) => KnownWork(r)'
        /\ UploadPath(r)' = UploadPath(r) /\ ResultPath(r)' = ResultPath(r)
        /\ pc'[r] = pc[r] /\ seen'[r] = seen[r] /\ form'[r] = form[r]
    BY <1>1, SameWork DEF Same
  <2>2. (met[r] = {} => Own(r)) /\ Known(r)
    BY DEF SharedInv
  <2>3. pc[r] \in ResultUse =>
          \/ results'[ResultPath(r)] = results[ResultPath(r)]
          \/ results'[ResultPath(r)].of \subseteq {r} \cup met[r] /\ met[r] # {}
    <3>1. pc[r] \in ResultUse => ResultPath(r) \in Kind \X Second
      BY PathTypes DEF SharedInv
    <3> QED BY <1>4, <1>6, <1>7, <3>1
  <2>4. met'[r] = {} => Own(r)'
    BY <1>1, <2>1, <2>2, <2>3 DEF Own, Workbook, ResultUse
  <2>5. Known(r)'
    BY <1>1, <2>1, <2>2, <2>3 DEF Known
  <2> QED BY <2>1, <2>4, <2>5
<1>10. (met'[q] = {} => Own(q)') /\ Known(q)'
  <2>1. CASE pc'[q] = "replied" /\ Refuse(q, 500)
    <3>1. (met[q] = {} => OwnWork(q)') /\ KnownWork(q)'
      BY <1>1, <2>1, RefuseWork
    <3> QED BY <1>1, <2>1, <3>1 DEF Own, Known, UploadUse, ResultUse
  <2>2. CASE /\ pc'[q] = "open" /\ reply'[q] = None
             /\ of = {q} => results'[path] = Workbook(q)
    <3>1. BooksOf(q)' = BooksOf(q) /\ (met[q] = {} => OwnWork(q)) /\ KnownWork(q)
      BY <1>1 DEF BooksOf, SharedInv, Own, Known
    <3>2. (met[q] = {} => OwnWork(q)') /\ KnownWork(q)'
      BY <1>1, <2>2, <3>1 DEF OwnWork, KnownWork
    <3>3. results'[path].of \subseteq {q} \cup met[q]
      BY <1>1, <1>3, <1>6, <1>7 DEF ResultUse
    <3> QED BY <1>1, <1>3, <1>8, <2>2, <3>2, <3>3
            DEF Own, Known, UploadUse, ResultUse, Workbook
  <2> QED BY <1>5, <2>1, <2>2
<1>11. \A r, t \in Request : Apart(r, t)'
  <2>1. pc[q] \in ResultUse /\ pc'[q] \notin UploadUse
    BY <1>1, <1>5 DEF UploadUse, ResultUse
  <2> QED BY <1>1, <1>3, <1>9, <2>1 DEF SharedInv, Apart
<1>12. MetActive'
  <2>1. pc'[q] # "idle"
    BY <1>5
  <2> QED BY <1>1, <1>9, <2>1, StillActive
<1> QED BY <1>9, <1>10, <1>11, <1>12 DEF SharedInv

LEMMA OpenShared ==
    ASSUME SharedInv, TypeInv', NEW q \in Request, OpenResult(q)
    PROVE  SharedInv'
<1>1. /\ pc[q] = "open" /\ pc'[q] = "serve" /\ reply[q] = None /\ reply'[q] = None
      /\ UNCHANGED <<uploads, results, form, sheet, second, met>>
      /\ \A r \in Request \ {q} : Same(r)
  <2>1. Handle(q)
    BY DEF Handle
  <2> QED BY <2>1, Frame DEF OpenResult, files, Goto, SharedInv, TypeInv, TypeOK, Held
<1>2. met[q] = {} => seen'[q] = Workbook(q)
  <2> SUFFICES ASSUME met[q] = {} PROVE seen'[q] = Workbook(q)
    OBVIOUS
  <2>1. Writers(q, ResultPath(q)) \subseteq {q}
    BY <1>1, WritersKnown DEF ResultUse
  <2>2. Writers(q, ResultPath(q)) = {}
    BY <2>1 DEF Writers
  <2>3. results[ResultPath(q)] = Workbook(q)
    BY <1>1 DEF SharedInv, Own
  <2> QED BY <2>2, <2>3 DEF OpenResult, Glimpses, SharedInv, TypeInv, TypeOK
<1>3. \A r \in Request : pc'[r] = pc[r] \/ (r = q /\ pc'[q] = "serve")
  BY <1>1 DEF Same
<1>4. \A r \in Request : /\ UploadPath(r)' = UploadPath(r) /\ ResultPath(r)' = ResultPath(r)
                         /\ BooksOf(r)' = BooksOf(r) /\ reply'[r] = reply[r]
                         /\ (r # q => seen'[r] = seen[r])
  BY <1>1 DEF UploadPath, ResultPath, BooksOf, Same
<1>5. ASSUME NEW r \in Request PROVE (met'[r] = {} => Own(r)') /\ Known(r)'
  <2>1. (met[r] = {} => Own(r)) /\ Known(r)
    BY DEF SharedInv
  <2>2. (OwnWork(r) => OwnWork(r)') /\ (KnownWork(r) => KnownWork(r)')
    BY <1>1, <1>4 DEF OwnWork, KnownWork
  <2>3. met'[r] = {} => Own(r)'
    BY <1>1, <1>2, <1>3, <1>4, <2>1, <2>2 DEF Own, Workbook
  <2>4. Known(r)'
    BY <1>1, <1>3, <1>4, <2>1, <2>2 DEF Known, UploadUse, ResultUse
  <2> QED BY <2>3, <2>4
<1>6. \A r, t \in Request : Apart(r, t)'
  BY <1>1, <1>3, <1>4 DEF SharedInv, Apart, UploadUse, ResultUse
<1>7. MetActive'
  BY <1>1, <1>3, StillActive
<1> QED BY <1>5, <1>6, <1>7 DEF SharedInv

LEMMA ServeShared ==
    ASSUME SharedInv, TypeInv', NEW q \in Request, ServeResult(q)
    PROVE  SharedInv'
<1> DEFINE path == ResultPath(q)
           now == results[path]
           of == now.of \cup Writers(q, path)
<1>1. /\ pc[q] = "serve"
      /\ UNCHANGED <<uploads, results, form, sheet, met>>
      /\ \A r \in Request \ {q} : Same(r)
  <2>1. Handle(q)
    BY DEF Handle
  <2> QED BY <2>1, Frame DEF ServeResult, files, SharedInv, TypeInv
<1>2. PICK body \in {Nothing, now, Torn(of)} :
        /\ Answer(q, 200, body)
        /\ seen[q] = now /\ Writers(q, path) = {} /\ now # Nothing => body = now
  BY ServeCases DEF SharedInv
<1>3. pc'[q] = "replied" /\ reply'[q].body = body
  BY <1>2 DEF Answer, SharedInv, TypeInv, TypeOK
<1>4. Writers(q, path) \subseteq {q} \cup met[q] /\ now.of \subseteq {q} \cup met[q]
  BY <1>1, WritersKnown DEF SharedInv, Known, ResultUse
<1>5. body.of \subseteq {q} \cup met[q]
  BY <1>4 DEF Nothing, Torn
<1>6. met[q] = {} => body = Workbook(q)
  <2> SUFFICES ASSUME met[q] = {} PROVE body = Workbook(q)
    OBVIOUS
  <2>1. Writers(q, path) = {}
    BY <1>4 DEF Writers
  <2>2. now = Workbook(q) /\ seen[q] = Workbook(q)
    BY <1>1 DEF SharedInv, Own
  <2>3. Workbook(q) # Nothing
    BY DEF Workbook, Nothing
  <2> QED BY <1>2, <2>1, <2>2, <2>3
<1>7. met[q] = {} => OwnWork(q)'
  BY <1>1, <1>3, <1>6 DEF SharedInv, Own, OwnWork, Workbook
<1>8. KnownWork(q)'
  <2>1. BooksOf(q)' = BooksOf(q)
    BY <1>1 DEF BooksOf
  <2> QED BY <1>1, <1>3, <1>5, <2>1 DEF SharedInv, Known, KnownWork
<1> QED BY <1>1, <1>3, <1>7, <1>8, QuietShared DEF UploadUse, ResultUse

LEMMA CrashShared ==
    ASSUME SharedInv, TypeInv', Crash
    PROVE  SharedInv'
<1>1. /\ UNCHANGED <<uploads, results, form, reply, met>>
      /\ \A r \in Request : \/ pc'[r] = "lost" /\ sheet'[r] = None /\ pc[r] # "replied"
                            \/ Same(r) /\ pc[r] \in {"idle", "replied", "lost"}
  BY CrashFacts DEF SharedInv, Same
<1>2. ASSUME NEW r \in Request PROVE (met'[r] = {} => Own(r)') /\ Known(r)'
  <2>1. (met[r] = {} => OwnWork(r)) /\ KnownWork(r)
    BY DEF SharedInv, Own, Known
  <2>2. (OwnWork(r) => OwnWork(r)') /\ (KnownWork(r) => KnownWork(r)')
    <3>1. CASE pc'[r] = "lost" /\ sheet'[r] = None /\ pc[r] # "replied"
      <4>1. reply'[r] = None
        BY <1>1, <3>1 DEF SharedInv, TypeInv, Held
      <4> QED BY <3>1, <4>1 DEF OwnWork, KnownWork
    <3>2. CASE Same(r)
      BY <1>1, <3>2, SameWork
    <3> QED BY <1>1, <3>1, <3>2
  <2>3. pc'[r] \in {"idle", "replied", "lost"}
    BY <1>1 DEF Same
  <2> QED BY <1>1, <2>1, <2>2, <2>3 DEF Own, Known, UploadUse, ResultUse
<1>3. \A r \in Request : pc'[r] \in {"idle", "replied", "lost"}
  BY <1>1 DEF Same
<1>4. \A r, t \in Request : Apart(r, t)'
  BY <1>3 DEF Apart, UploadUse, ResultUse
<1>5. MetActive'
  BY <1>1, StillActive DEF Same
<1> QED BY <1>2, <1>4, <1>5 DEF SharedInv

LEMMA SharedInit == Init => SharedInv
<1> SUFFICES ASSUME Init PROVE SharedInv
  OBVIOUS
<1>1. TypeInv
  BY InitType
<1> QED BY <1>1 DEF Init, SharedInv, MetActive, Apart, Own, OwnWork, Known, KnownWork,
     UploadUse, ResultUse

LEMMA SharedNext == SharedInv /\ [Next]_vars => SharedInv'
<1> SUFFICES ASSUME SharedInv, [Next]_vars PROVE SharedInv'
  OBVIOUS
<1>1. TypeInv'
  BY NextType DEF SharedInv
<1>2. ASSUME NEW q \in Request, Receive(q) \/ Handle(q) PROVE SharedInv'
  BY <1>1, <1>2, ReceiveShared, LocalShared, CreateUploadShared, CopyUploadShared,
     ReadShared, CreateResultShared, WriteShared, OpenShared, ServeShared
     DEF Handle, ProcessExcel
<1>3. ASSUME UNCHANGED vars PROVE SharedInv'
  <2>1. /\ \A r \in Request : Own(r)' <=> Own(r)
        /\ \A r \in Request : Known(r)' <=> Known(r)
        /\ \A r, t \in Request : Apart(r, t)' <=> Apart(r, t)
        /\ MetActive' <=> MetActive
    BY <1>3 DEF vars, files, Own, Known, Apart, MetActive, OwnWork, KnownWork,
       BooksOf, UploadPath, ResultPath, Workbook
  <2> QED BY <1>1, <1>3, <2>1 DEF vars, SharedInv
<1> QED BY <1>1, <1>2, <1>3, HandleCases, CrashShared DEF Next, Quiet

-----------------------------------------------------------------------------
\* The types, for any requests, names, sheets and seconds; in particular a line
\* of a result stands for a row of the sheet that was read.
THEOREM TypeCorrect == Spec => []TypeOK
<1>1. TypeInv => TypeOK
  BY DEF TypeInv
<1> QED BY InitType, NextType, <1>1, PTL DEF Spec

\* Whatever is left of earlier requests and of crashes under its names: a request
\* that nobody met at its upload and at its result works on its own client's
\* workbook and is served its own result, complete.
THEOREM OwnResult == Spec => []AloneGetsOwnResult
<1>1. SharedInv => AloneGetsOwnResult
  BY DEF SharedInv, Own, OwnWork, AloneGetsOwnResult
<1> QED BY SharedInit, SharedNext, <1>1, PTL DEF Spec

\* What requests that overlap do to one another's files reaches no third one.
THEOREM KnownData == Spec => []NoForeignData
<1>1. SharedInv => NoForeignData
  BY DEF SharedInv, Known, KnownWork, BooksOf, NoForeignData
<1> QED BY SharedInit, SharedNext, <1>1, PTL DEF Spec

\* A result that is saved has a line for each row to ask about, in the order of
\* the sheet, and each line tells the answer that came for its own row, however
\* many rows there are and whichever queries failed.
THEOREM ResultIsTrue == Spec => []ResultTellsAnswers
<1>1. AskInv => ResultTellsAnswers
  BY ResultTold DEF ResultTellsAnswers, ResultUse
<1> QED BY AskInit, AskNext, <1>1, PTL DEF Spec

\* A batch that is answered has asked about all its rows and heard of each, or
\* has asked about none.
THEOREM NoHalfBatch == Spec => []AskedAllOrNothing
<1>1. AskInv => AskedAllOrNothing
  BY DEF AskInv, TypeInv, Held, Asking, AllAsked, AskedAllOrNothing
<1> QED BY AskInit, AskNext, <1>1, PTL DEF Spec
=============================================================================
