----------------------------- MODULE BatchQuery -----------------------------
(***************************************************************************)
(* The two batch handlers of service/{jd_sh,taobao_activity}.go: a request *)
(* uploads a workbook, asks the remote platform about each of its rows,    *)
(* and is served a workbook with what the platform said.  The upload is    *)
(* saved under the client's file name, the result under the second of the  *)
(* clock; all requests of a handler share the directory and nothing is     *)
(* removed from it.                                                        *)
(***************************************************************************)
EXTENDS CallbackSheets

CONSTANTS
    Request,      \* the requests clients make
    FileName,     \* the file names clients give their uploads
    Submissions,  \* Submissions[r]: what request r may submit
    Second,       \* what the clock may show when a result is saved
    MaxCrashes,   \* bound on the crashes of the process
    None          \* no value yet

Kind == {"jd", "taobao"}

\* A form: whether it has a file with an Excel suffix (and, for Taobao, a
\* biz_date), and for JD the text of its taskId.
Form == [kind: Kind, valid: BOOLEAN, task: STRING, name: FileName, book: Book]

ASSUME SubmissionsAssumption == Submissions \in [Request -> SUBSET Form]
ASSUME MaxCrashesAssumption == MaxCrashes \in Nat
Label == {"idle", "form", "create", "copy", "read", "loop", "query", "save",
          "write", "open", "serve", "replied", "lost"}

\* What the platform says of a row: no usable answer, a refusal, a success
\* with data or (Taobao) one without.  A line of the result says one of three
\* things.
JdAnswer == {"failed", "rejected", "data"}
RemoteAnswer == JdAnswer \cup {"empty"}
Line == [row: Nat, says: {"error", "none", "data"}]
Call == [row: Nat, answer: RemoteAnswer \cup {None}]

ASSUME NoneAssumption ==
    /\ None \notin Form /\ None \notin Book /\ None \notin Second
    /\ None \notin RemoteAnswer

\* The requests whose lines are among the bytes, and whether the bytes are
\* one complete workbook.
Content == [of: SUBSET Request, whole: BOOLEAN]
Nothing == [of |-> {}, whole |-> FALSE]
Workbook(r) == [of |-> {r}, whole |-> TRUE]
Torn(of) == [of |-> of, whole |-> FALSE]

Reply == [status: {200, 400, 500}, body: Content]

VARIABLES
    uploads,  \* uploads[kind, name]: the content of uploaded_<kind>_<name>
    results,  \* results[kind, second]: the content of <kind>_result_<second>
    pc,       \* where request r is
    form,     \* what r submitted
    sheet,    \* the workbook r has read
    row,      \* the row of it r is at
    lines,    \* r's result, line by line
    second,   \* the second in the name of r's result
    seen,     \* what r's Stat saw of the result, which fixes the body's length
    calls,    \* history: the rows r asked about and the answers, until it is lost
    reply,    \* the answer to r
    met,      \* history: requests that used a file of r's at the same time
    crashes   \* history: how often the process crashed

files == <<uploads, results>>
vars == <<files, pc, form, sheet, row, lines, second, seen, calls, reply, met,
          crashes>>

\* Besides the types: a line stands for a row of the sheet that was read.
TypeOK ==
    /\ uploads \in [Kind \X FileName -> Book]
    /\ results \in [Kind \X Second -> Content]
    /\ pc \in [Request -> Label]
    /\ form \in [Request -> Form \cup {None}]
    /\ sheet \in [Request -> Book \cup {None}]
    /\ row \in [Request -> Nat]
    /\ lines \in [Request -> Seq(Line)]
    /\ second \in [Request -> Second \cup {None}]
    /\ seen \in [Request -> Content]
    /\ calls \in [Request -> Seq(Call)]
    /\ reply \in [Request -> Reply \cup {None}]
    /\ met \in [Request -> SUBSET Request]
    /\ crashes \in 0..MaxCrashes
    /\ \A r \in Request : \A k \in DOMAIN lines[r] :
          lines[r][k].row \in DOMAIN sheet[r].rows

Init ==
    /\ uploads = [p \in Kind \X FileName |-> EmptyFile]
    /\ results = [p \in Kind \X Second |-> Nothing]
    /\ pc = [r \in Request |-> "idle"]
    /\ form = [r \in Request |-> None]
    /\ sheet = [r \in Request |-> None]
    /\ row = [r \in Request |-> 0]
    /\ lines = [r \in Request |-> <<>>]
    /\ second = [r \in Request |-> None]
    /\ seen = [r \in Request |-> Nothing]
    /\ calls = [r \in Request |-> <<>>]
    /\ reply = [r \in Request |-> None]
    /\ met = [r \in Request |-> {}]
    /\ crashes = 0

-----------------------------------------------------------------------------
Goto(r, label) == pc' = [pc EXCEPT ![r] = label] /\ UNCHANGED reply

Answer(r, status, body) ==
    /\ pc' = [pc EXCEPT ![r] = "replied"]
    /\ reply' = [reply EXCEPT ![r] = [status |-> status, body |-> body]]

Refuse(r, status) == Answer(r, status, Nothing)

UploadPath(r) == <<form[r].kind, form[r].name>>
ResultPath(r) == <<form[r].kind, second[r]>>

\* The requests that use an upload, from its truncation until it is read, and
\* those that use a result, from its truncation until it is served.
UploadUsers(path) ==
    {q \in Request : pc[q] \in {"copy", "read"} /\ UploadPath(q) = path}
ResultUsers(path) ==
    {q \in Request : pc[q] \in {"write", "open", "serve"} /\ ResultPath(q) = path}

Meet(r, users) ==
    LET rivals == users \ {r}
    IN  met' = [q \in Request |-> IF q = r THEN met[q] \cup rivals
                                  ELSE IF q \in rivals THEN met[q] \cup {r}
                                  ELSE met[q]]

Receive(r) ==
    /\ pc[r] = "idle"
    /\ \E f \in Submissions[r] : form' = [form EXCEPT ![r] = f]
    /\ Goto(r, "form")
    /\ UNCHANGED <<files, sheet, row, lines, second, seen, calls, met, crashes>>

\* A body that was cut short has no file either.
CheckForm(r) ==
    /\ pc[r] = "form"
    /\ \/ Refuse(r, 400)
       \/ form[r].valid /\ Goto(r, "create")
    /\ UNCHANGED <<files, form, sheet, row, lines, second, seen, calls, met, crashes>>

\* Mutant: an upload that is there already is not saved again.
CreateUploadOnce(r) ==
    LET path == UploadPath(r)
    IN  /\ pc[r] = "create"
        /\ \/ uploads[path] # EmptyFile /\ Goto(r, "read") /\ UNCHANGED <<uploads, met>>
           \/ /\ uploads' = [uploads EXCEPT ![path] = EmptyFile]
              /\ Meet(r, UploadUsers(path))
              /\ Goto(r, "copy")
        /\ UNCHANGED <<results, form, sheet, row, lines, second, seen, calls, crashes>>

\* SaveUploadedFile creates (and truncates) the file and then copies.
CreateUpload(r) ==
    LET path == UploadPath(r)
    IN  /\ pc[r] = "create"
        /\ \/ Refuse(r, 500) /\ UNCHANGED <<uploads, met>>
           \/ /\ uploads' = [uploads EXCEPT ![path] = EmptyFile]
              /\ Meet(r, UploadUsers(path))
              /\ Goto(r, "copy")
        /\ UNCHANGED <<results, form, sheet, row, lines, second, seen, calls, crashes>>

\* Another request is between the creation and the last write of the file.
Contended(r, path) ==
    \E q \in Request \ {r} : pc[q] = "copy" /\ UploadPath(q) = path

CopyUpload(r) ==
    LET path == UploadPath(r)
        mixed == Contended(r, path) \/ uploads[path] # EmptyFile
    IN  /\ pc[r] = "copy"
        /\ \/ uploads' = [uploads EXCEPT ![path] = TornFile] /\ Refuse(r, 500)
           \/ /\ \E content \in {form[r].book} \cup (IF mixed THEN {TornFile} ELSE {}) :
                    uploads' = [uploads EXCEPT ![path] = content]
              /\ Goto(r, "read")
        /\ UNCHANGED <<results, form, sheet, row, lines, second, seen, calls, met,
                       crashes>>

-----------------------------------------------------------------------------
(***************************************************************************)
(* The rows to ask about.  JD takes the first two columns, whatever their  *)
(* headers; Taobao looks for a pid column.                                 *)
(***************************************************************************)
UsableSheet(kind, book) ==
    Readable(book, IF kind = "taobao" THEN {{"pid"}} ELSE {})

NotBlank(c) == Clean(c) # Blank

JdRows(f, book) ==
    {i \in DOMAIN book.rows :
        /\ Len(book.rows[i]) >= 2
        /\ NotBlank(book.rows[i][1])
        /\ NotBlank(book.rows[i][2])
        /\ f.task # ""}

TaobaoRows(book) ==
    {i \in DOMAIN book.rows :
        Has(book, i, {"pid"}) /\ NotBlank(Value(book, i, {"pid"}))}

RowsToAsk(r) == IF form[r].kind = "jd" THEN JdRows(form[r], sheet[r])
                ELSE TaobaoRows(sheet[r])

\* strconv.ParseInt of the task, row by row though it never changes.
TaskUnusable(r) == form[r].kind = "jd" /\ form[r].task \notin DOMAIN Atoi

ReadUpload(r) ==
    LET path == UploadPath(r)
    IN  /\ pc[r] = "read"
        /\ \E book \in {uploads[path]} \cup
                       (IF Contended(r, path) THEN {TornFile} ELSE {}) :
              \/ ~UsableSheet(form[r].kind, book) /\ Refuse(r, 500) /\ UNCHANGED sheet
              \/ /\ UsableSheet(form[r].kind, book)
                 /\ sheet' = [sheet EXCEPT ![r] = book]
                 /\ Goto(r, "loop")
        /\ UNCHANGED <<files, form, row, lines, second, seen, calls, met, crashes>>

Pending(r) == {i \in RowsToAsk(r) : i > row[r]}

\* Mutant: the rows are counted with the header.
AddLineShifted(r, i, says) ==
    lines' = [lines EXCEPT ![r] = Append(@, [row |-> i + 1, says |-> says])]

AddLine(r, i, says) ==
    lines' = [lines EXCEPT ![r] = Append(@, [row |-> i, says |-> says])]

\* The next row: a query, or a line at once if the task is no number.
TakeRow(r) ==
    /\ pc[r] = "loop"
    /\ Pending(r) # {}
    /\ LET i == Least(Pending(r))
       IN  /\ row' = [row EXCEPT ![r] = i]
           /\ IF TaskUnusable(r)
              THEN AddLine(r, i, "error") /\ UNCHANGED <<calls, pc, reply>>
              ELSE /\ calls' = [calls EXCEPT ![r] = Append(@, [row |-> i, answer |-> None])]
                   /\ Goto(r, "query")
                   /\ UNCHANGED lines
    /\ UNCHANGED <<files, form, sheet, second, seen, met, crashes>>

\* Mutant: the code of the second JSON is not checked.
JdSaysUnchecked(answer) == IF answer = "failed" THEN "error" ELSE "data"

\* fetchJdShPromotion: a code other than 200 is an error; a success is taken as
\* it is, with whatever links it has.
JdSays(answer) == IF answer \in {"failed", "rejected"} THEN "error" ELSE "data"

\* callTaobaoActivityAPI: the error_response of a refusal decodes to an empty
\* struct, which reads like a success without data.
TaobaoSays(answer) == CASE answer = "failed" -> "error"
                        [] answer \in {"rejected", "empty"} -> "none"
                        [] answer = "data" -> "data"

\* Mutant: the first row that fails ends the batch.
ReceiveAnswerStrict(r) ==
    /\ pc[r] = "query"
    /\ \E answer \in IF form[r].kind = "jd" THEN JdAnswer ELSE RemoteAnswer :
          LET says == IF form[r].kind = "jd" THEN JdSays(answer) ELSE TaobaoSays(answer)
          IN  /\ calls' = [calls EXCEPT ![r][Len(calls[r])].answer = answer]
              /\ AddLine(r, row[r], says)
              /\ IF says = "error" THEN Refuse(r, 500) ELSE Goto(r, "loop")
    /\ UNCHANGED <<files, form, sheet, row, second, seen, met, crashes>>

\* An error becomes a line like any other answer, and the loop goes on.
ReceiveAnswer(r) ==
    /\ pc[r] = "query"
    /\ \E answer \in IF form[r].kind = "jd" THEN JdAnswer ELSE RemoteAnswer :
          /\ calls' = [calls EXCEPT ![r][Len(calls[r])].answer = answer]
          /\ AddLine(r, row[r], IF form[r].kind = "jd" THEN JdSays(answer)
                                ELSE TaobaoSays(answer))
    /\ Goto(r, "loop")
    /\ UNCHANGED <<files, form, sheet, row, second, seen, met, crashes>>

-----------------------------------------------------------------------------
(***************************************************************************)
(* The result.  The clock may be set back, so a request may come by any    *)
(* second, also one of an earlier result.                                  *)
(***************************************************************************)
\* Mutant: an existing result is overwritten without being truncated.
CreateResultAppending(r) ==
    /\ pc[r] = "loop"
    /\ Pending(r) = {}
    /\ \/ Refuse(r, 500) /\ UNCHANGED <<second, met>>
       \/ \E s \in Second : /\ second' = [second EXCEPT ![r] = s]
                            /\ Meet(r, ResultUsers(<<form[r].kind, s>>))
                            /\ Goto(r, "write")
    /\ UNCHANGED <<files, form, sheet, row, lines, seen, calls, crashes>>

CreateResult(r) ==
    /\ pc[r] = "loop"
    /\ Pending(r) = {}
    /\ \/ Refuse(r, 500) /\ UNCHANGED <<results, second, met>>
       \/ \E s \in Second :
             /\ second' = [second EXCEPT ![r] = s]
             /\ results' = [results EXCEPT ![<<form[r].kind, s>>] = Nothing]
             /\ Meet(r, ResultUsers(<<form[r].kind, s>>))
             /\ Goto(r, "write")
    /\ UNCHANGED <<uploads, form, sheet, row, lines, seen, calls, crashes>>

Writers(r, path) ==
    {q \in Request \ {r} : pc[q] = "write" /\ ResultPath(q) = path}

\* What another writer put there after r's truncation may show through.
WriteResult(r) ==
    LET path == ResultPath(r)
        of == results[path].of \cup Writers(r, path) \cup {r}
    IN  /\ pc[r] = "write"
        /\ \/ results' = [results EXCEPT ![path] = Torn(of)] /\ Refuse(r, 500)
           \/ /\ \E content \in {Workbook(r)} \cup (IF of = {r} THEN {} ELSE {Torn(of)}) :
                    results' = [results EXCEPT ![path] = content]
              /\ Goto(r, "open")
        /\ UNCHANGED <<uploads, form, sheet, row, lines, second, seen, calls, met,
                       crashes>>

\* The content, or any part of what is being written.
Glimpses(r, path) ==
    {results[path]} \cup (IF Writers(r, path) = {} THEN {}
                          ELSE {Torn(results[path].of \cup Writers(r, path))})

\* ctx.File opens the name, which nothing removes, and takes its length.
OpenResult(r) ==
    /\ pc[r] = "open"
    /\ \E c \in Glimpses(r, ResultPath(r)) : seen' = [seen EXCEPT ![r] = c]
    /\ Goto(r, "serve")
    /\ UNCHANGED <<files, form, sheet, row, lines, second, calls, met, crashes>>

\* As many bytes as Stat saw are copied; if the file has been written since,
\* the body need not be either content.
ServeResult(r) ==
    LET path == ResultPath(r)
        now == results[path]
        steady == now = seen[r] /\ Writers(r, path) = {}
    IN  /\ pc[r] = "serve"
        /\ \E body \in IF seen[r] = Nothing THEN {Nothing}
                       ELSE {now} \cup (IF steady THEN {}
                                        ELSE {Torn(now.of \cup Writers(r, path))}) :
              Answer(r, 200, body)
        /\ UNCHANGED <<files, form, sheet, row, lines, second, seen, calls, met,
                       crashes>>

-----------------------------------------------------------------------------
ProcessExcel(r) == \/ ReadUpload(r) \/ TakeRow(r) \/ ReceiveAnswer(r)
                   \/ CreateResult(r) \/ WriteResult(r)

Handle(r) == \/ CheckForm(r) \/ CreateUpload(r) \/ CopyUpload(r)
             \/ ProcessExcel(r) \/ OpenResult(r) \/ ServeResult(r)

BatchProcessJdShPromotion(r) == form[r] # None /\ form[r].kind = "jd" /\ Handle(r)
GetActivityReport(r) == form[r] # None /\ form[r].kind = "taobao" /\ Handle(r)

InFlight(r) == pc[r] \notin {"idle", "replied", "lost"}

\* The process dies; what the handlers had in memory is gone, the files stay.
Crash ==
    LET Gone(f, v) == [r \in Request |-> IF InFlight(r) THEN v ELSE f[r]]
    IN  /\ crashes < MaxCrashes
        /\ crashes' = crashes + 1
        /\ pc' = Gone(pc, "lost")
        /\ sheet' = Gone(sheet, None)
        /\ row' = Gone(row, 0)
        /\ lines' = Gone(lines, <<>>)
        /\ second' = Gone(second, None)
        /\ seen' = Gone(seen, Nothing)
        /\ calls' = Gone(calls, <<>>)
        /\ UNCHANGED <<files, form, reply, met>>

\* Every request is answered or lost: the server waits for others.
Quiet == (\A r \in Request : pc[r] \in {"replied", "lost"}) /\ UNCHANGED vars

Next == \/ \E r \in Request : \/ Receive(r)
                              \/ BatchProcessJdShPromotion(r)
                              \/ GetActivityReport(r)
        \/ Crash \/ Quiet

Spec == Init /\ [][Next]_vars

\* Mutant: the JD client has no timeout either.
FairStepNoTimeout(r) == form[r] # None /\ pc[r] # "query" /\ Handle(r)

\* A JD query has a timeout of 60 seconds; http.Get of the Taobao query has
\* none, so nothing makes its answer come.
FairStep(r) ==
    /\ form[r] # None /\ (pc[r] = "query" => form[r].kind = "jd")
    /\ Handle(r)

FairSpec == Spec /\ \A r \in Request : WF_vars(FairStep(r))

-----------------------------------------------------------------------------
(***************************************************************************)
(* Properties.                                                             *)
(***************************************************************************)

\* A request that shared neither its upload between the save and the read nor
\* its result between the save and the download works on its own client's
\* workbook, and a 200 carries its own result, complete: leftovers of earlier
\* requests under the same names and of crashes do no harm.
AloneGetsOwnResult ==
    \A r \in Request : met[r] = {} =>
        /\ sheet[r] # None => sheet[r] = form[r].book
        /\ reply[r] # None /\ reply[r].status = 200 => reply[r].body = Workbook(r)

\* Even when requests overlap, what a request processes and what it is served
\* come from itself or from requests that used the file at the same time.
NoForeignData ==
    \A r \in Request :
        /\ sheet[r] # None => sheet[r] \in {form[q].book : q \in {r} \cup met[r]}
        /\ reply[r] # None => reply[r].body.of \subseteq {r} \cup met[r]

RowsOf(s) == {s[k].row : k \in DOMAIN s}
Ascending(s) == \A j, k \in DOMAIN s : j < k => s[j].row < s[k].row

\* A result that is saved has one line for each usable row of the sheet
\* that was read, in its order, whichever queries failed; no row is asked
\* about twice, and a line tells the answer to its row: data if and only if
\* there were some, an error for a row that was not answered or not asked
\* about.  A refusal is an error for JD, but for Taobao it reads "no data".
ResultTellsAnswers ==
    \A r \in Request :
        pc[r] \in {"write", "open", "serve"} =>
            /\ RowsOf(lines[r]) = RowsToAsk(r)
            /\ Ascending(lines[r]) /\ Ascending(calls[r])
            /\ \A k \in DOMAIN lines[r] :
                  LET heard == {c.answer : c \in {calls[r][j] : j \in
                          {i \in DOMAIN calls[r] : calls[r][i].row = lines[r][k].row}}}
                  IN  /\ lines[r][k].says = "data" <=> heard = {"data"}
                      /\ lines[r][k].says = "none" <=>
                            form[r].kind = "taobao" /\ heard \in {{"empty"}, {"rejected"}}

\* An answered request has asked about none of its rows or about all of them,
\* and was answered on each: an error is never the end of half a batch.  (All
\* with an error: the result could not be saved, and the answers are gone.)
AskedAllOrNothing ==
    \A r \in Request : reply[r] # None /\ calls[r] # <<>> =>
        /\ RowsOf(calls[r]) = RowsToAsk(r)
        /\ \A c \in DOMAIN calls[r] : calls[r][c].answer # None

\* A batch waits for ever only for the answer to one of its Taobao queries.
EveryBatchAnswered ==
    \A r \in Request :
        (pc[r] = "form") ~> \/ pc[r] \in {"replied", "lost"}
                            \/ [](pc[r] = "query" /\ form[r].kind = "taobao")
=============================================================================
