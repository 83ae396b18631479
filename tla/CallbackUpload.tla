--------------------------- MODULE CallbackUpload ---------------------------
(***************************************************************************)
(* The callback upload handlers of service/{juliang,gdt,honor,uc,ks}.go:   *)
(* concurrent requests that save two uploaded workbooks into the working   *)
(* directory, read them back, send one HTTP callback per selected record   *)
(* and report the totals.  Each gin request runs in a goroutine of its     *)
(* own; the directory is shared by all of them and outlives the process.   *)
(***************************************************************************)
EXTENDS CallbackSheets

CONSTANTS
    Request,       \* the requests clients make
    FileName,      \* the file names clients give their uploads
    Submissions,   \* Submissions[r]: what request r may upload
    MaxCrashes,    \* bound on the crashes of the process
    None           \* no value yet

Slot == 1..2
Path == Slot \X FileName

File == [name: FileName, excel: BOOLEAN, book: Book]
Upload == [platform: Platform, files: Seq(File)]

Label == {"idle", "form", "open", "write", "readSource", "readClicks", "loop",
          "send", "replied", "lost"}

\* A callback, as the platform and the code see it: whether the platform
\* accepted it, and whether a 2xx answer arrived within the 10 seconds.
Outcome == [accepted: BOOLEAN, ok: BOOLEAN]
Sent == [row: Nat, click: Nat, accepted: BOOLEAN, ok: BOOLEAN]
Detail == [click: Nat, status: {"skipped", "completed"}, executed: Int]
Reply == [status: {200, 400, 500}, total: Nat, success: Nat, failed: Nat]

ASSUME SubmissionsAssumption == Submissions \in [Request -> SUBSET Upload]
ASSUME MaxCrashesAssumption == MaxCrashes \in Nat

ASSUME NoneAssumption ==
    None \notin Upload /\ None \notin Book /\ None \notin Reply

VARIABLES
    disk,     \* disk[path]: the content of uploaded_excel_<slot>_<name>
    pc,       \* where request r is
    upload,   \* what r submitted
    slot,     \* the file r is saving
    source,   \* the data source r has read
    clicks,   \* the click data r has read
    row,      \* the click row r is at
    total, success, failed,    \* r's three counters
    details,  \* r's callbackDetails
    sent,     \* history: the callbacks r made and what became of them
    reply,    \* the answer to r
    met,      \* history: requests that used r's file names at the same time
    crashes   \* history: how often the process crashed

request == <<pc, upload, slot, source, clicks, row, total, success, failed,
             details, sent, reply, met>>
vars == <<disk, request, crashes>>

TypeOK ==
    /\ disk \in [Path -> Book]
    /\ pc \in [Request -> Label]
    /\ upload \in [Request -> Upload \cup {None}]
    /\ slot \in [Request -> Slot]
    /\ source \in [Request -> Book \cup {None}]
    /\ clicks \in [Request -> Book \cup {None}]
    /\ row \in [Request -> Nat]
    /\ total \in [Request -> Nat]
    /\ success \in [Request -> Nat]
    /\ failed \in [Request -> Nat]
    /\ details \in [Request -> Seq(Detail)]
    /\ sent \in [Request -> Seq(Sent)]
    /\ reply \in [Request -> Reply \cup {None}]
    /\ met \in [Request -> SUBSET Request]
    /\ crashes \in 0..MaxCrashes

Init ==
    /\ disk = [p \in Path |-> EmptyFile]
    /\ pc = [r \in Request |-> "idle"]
    /\ upload = [r \in Request |-> None]
    /\ slot = [r \in Request |-> 1]
    /\ source = [r \in Request |-> None]
    /\ clicks = [r \in Request |-> None]
    /\ row = [r \in Request |-> 0]
    /\ total = [r \in Request |-> 0]
    /\ success = [r \in Request |-> 0]
    /\ failed = [r \in Request |-> 0]
    /\ details = [r \in Request |-> <<>>]
    /\ sent = [r \in Request |-> <<>>]
    /\ reply = [r \in Request |-> None]
    /\ met = [r \in Request |-> {}]
    /\ crashes = 0

-----------------------------------------------------------------------------
(***************************************************************************)
(* Saving: uploaded_excel_<slot>_<name> is created (and truncated) and     *)
(* then written.  The name is the client's, the same for all requests and  *)
(* platforms, and nothing removes the file.                                *)
(***************************************************************************)
SavePath(r, s) == <<s, upload[r].files[s].name>>

\* Another request is between the creation and the last write of the file.
Contended(r, path) ==
    \E q \in Request \ {r} : pc[q] = "write" /\ SavePath(q, slot[q]) = path

Answer(r, status) ==
    /\ pc' = [pc EXCEPT ![r] = "replied"]
    /\ reply' = [reply EXCEPT ![r] = [status |-> status, total |-> total[r],
                     success |-> success[r], failed |-> failed[r]]]

Goto(r, label) == pc' = [pc EXCEPT ![r] = label] /\ UNCHANGED reply

InFlight(r) == pc[r] \notin {"idle", "replied", "lost"}

SharesFile(u, v) ==
    \E s \in Slot : /\ s \in DOMAIN u.files /\ s \in DOMAIN v.files
                   /\ u.files[s].name = v.files[s].name

\* A client makes its request; rivals are the requests in flight that use one
\* of its file names in the same place.
Receive(r) ==
    /\ pc[r] = "idle"
    /\ \E u \in Submissions[r] :
         LET rivals == {q \in Request : InFlight(q) /\ SharesFile(upload[q], u)}
         IN  /\ upload' = [upload EXCEPT ![r] = u]
             /\ met' = [q \in Request |->
                          IF q = r THEN rivals
                          ELSE IF q \in rivals THEN met[q] \cup {r} ELSE met[q]]
    /\ Goto(r, "form")
    /\ UNCHANGED <<disk, slot, source, clicks, row, total, success, failed,
                   details, sent, crashes>>

\* The form may be cut short, and it must hold exactly two files.
ParseForm(r) ==
    /\ pc[r] = "form"
    /\ \/ Answer(r, 400)
       \/ Len(upload[r].files) = 2 /\ Goto(r, "open")
    /\ UNCHANGED <<disk, upload, slot, source, clicks, row, total, success,
                   failed, details, sent, met, crashes>>

\* Mutant: the error of the save is not checked.
CreateFileUnchecked(r) ==
    /\ pc[r] = "open"
    /\ \/ /\ disk' = [disk EXCEPT ![SavePath(r, slot[r])] = EmptyFile]
          /\ Goto(r, "write")
          /\ UNCHANGED slot
       \/ /\ slot' = [slot EXCEPT ![r] = 2]
          /\ Goto(r, IF slot[r] = 1 THEN "open" ELSE "readSource")
          /\ UNCHANGED disk
    /\ UNCHANGED <<upload, source, clicks, row, total, success, failed,
                   details, sent, met, crashes>>

\* The extension is checked, and the file created, one file after the other.
CreateFile(r) ==
    /\ pc[r] = "open"
    /\ \/ ~upload[r].files[slot[r]].excel /\ Answer(r, 400) /\ UNCHANGED disk
       \/ upload[r].files[slot[r]].excel /\ Answer(r, 500) /\ UNCHANGED disk
       \/ /\ upload[r].files[slot[r]].excel
          /\ disk' = [disk EXCEPT ![SavePath(r, slot[r])] = EmptyFile]
          /\ Goto(r, "write")
    /\ UNCHANGED <<upload, slot, source, clicks, row, total, success, failed,
                   details, sent, met, crashes>>

\* Mutant: the index runs past the files.
NextSlotPast(s) == s + 1

\* The loop over the two files ends with the second one.
NextSlot(s) == IF s = 1 THEN 2 ELSE s

\* Two writers of one file, each at its own offset, may leave a mixture.
CopyFile(r) ==
    LET path == SavePath(r, slot[r])
        mixed == Contended(r, path) \/ disk[path] # EmptyFile
    IN  /\ pc[r] = "write"
        /\ \/ /\ disk' = [disk EXCEPT ![path] = TornFile]
              /\ Answer(r, 500)
              /\ UNCHANGED slot
           \/ /\ \E content \in {upload[r].files[slot[r]].book}
                              \cup (IF mixed THEN {TornFile} ELSE {}) :
                    disk' = [disk EXCEPT ![path] = content]
              /\ slot' = [slot EXCEPT ![r] = NextSlot(@)]
              /\ Goto(r, IF slot[r] = 1 THEN "open" ELSE "readSource")
        /\ UNCHANGED <<upload, source, clicks, row, total, success, failed,
                       details, sent, met, crashes>>

UploadExcelFiles(r) == ParseForm(r) \/ CreateFile(r) \/ CopyFile(r)

-----------------------------------------------------------------------------
(***************************************************************************)
(* Processing: both files are read back, then every click row sends the    *)
(* first click_count records of the slice filed under its advertisement.   *)
(***************************************************************************)

\* What opening the file finds: its content, or a write in progress.
Found(r, path) ==
    {disk[path]} \cup (IF Contended(r, path) THEN {TornFile} ELSE {})

ReadSource(r) ==
    /\ pc[r] = "readSource"
    /\ \E book \in Found(r, SavePath(r, 1)) :
         LET usable == /\ SourceReadable(book)
                       /\ ~ReadDataSource(upload[r].platform, book).panics
         IN  \/ ~usable /\ Answer(r, 500) /\ UNCHANGED source
             \/ /\ usable
                /\ source' = [source EXCEPT ![r] = book]
                /\ Goto(r, "readClicks")
    /\ UNCHANGED <<disk, upload, slot, clicks, row, total, success, failed,
                   details, sent, met, crashes>>

ReadClicks(r) ==
    /\ pc[r] = "readClicks"
    /\ \E book \in Found(r, SavePath(r, 2)) :
         \/ ~ClicksReadable(book) /\ Answer(r, 500) /\ UNCHANGED clicks
         \/ /\ ClicksReadable(book)
            /\ clicks' = [clicks EXCEPT ![r] = book]
            /\ Goto(r, "loop")
    /\ UNCHANGED <<disk, upload, slot, source, row, total, success, failed,
                   details, sent, met, crashes>>

ClickList(r) == ReadClickData(upload[r].platform, clicks[r])

Slice(r, click) == Records(upload[r].platform, source[r], click.ad)

Pending(r) == {j \in DOMAIN ClickList(r) : j > row[r]}

\* Mutant: continue before the detail is appended.
AddDetailCompleted(r, j, status, executed) ==
    IF status = "skipped" THEN UNCHANGED details
    ELSE details' = [details EXCEPT ![r] = Append(@,
                        [click |-> j, status |-> status, executed |-> executed])]

AddDetail(r, j, status, executed) ==
    details' = [details EXCEPT ![r] = Append(@,
                   [click |-> j, status |-> status, executed |-> executed])]

\* The next click row: skipped when the data source has no record for it.
TakeRow(r) ==
    /\ pc[r] = "loop"
    /\ Pending(r) # {}
    /\ LET j == Least(Pending(r))
       IN  /\ row' = [row EXCEPT ![r] = j]
           /\ IF Slice(r, ClickList(r)[j]) = {}
              THEN AddDetail(r, j, "skipped", 0) /\ UNCHANGED <<pc, reply>>
              ELSE UNCHANGED details /\ Goto(r, "send")
    /\ UNCHANGED <<disk, upload, slot, source, clicks, total, success, failed,
                   sent, met, crashes>>

\* Mutant: a timeout counts as a success.
HttpGetOptimistic == Outcome

\* One GET with a timeout of 10 seconds; whether the platform took the call
\* and whether its 2xx came back in time are two different things.
HttpGet == {o \in Outcome : o.ok => o.accepted}

SendCallback == HttpGet
ExecuteGdtCallback == HttpGet
SendHonorCallback == HttpGet
ExecuteUcCallback == HttpGet
ExecuteKsCallback == HttpGet

CallbackOutcomes(p) ==
    CASE p = "juliang" -> SendCallback
      [] p = "gdt"     -> ExecuteGdtCallback
      [] p = "honor"   -> SendHonorCallback
      [] p = "uc"      -> ExecuteUcCallback
      [] p = "ks"      -> ExecuteKsCallback

SentFor(r, j) == Cardinality({n \in DOMAIN sent[r] : sent[r][n].click = j})

ToSend(r, j) == Executed(upload[r].platform, source[r], ClickList(r)[j])

SendRecord(r) ==
    LET j == row[r]
        slice == Slice(r, ClickList(r)[j])
    IN  /\ pc[r] = "send"
        /\ SentFor(r, j) < ToSend(r, j)
        /\ \E i \in slice,
              o \in CallbackOutcomes(upload[r].platform) :
             /\ IsNth(slice, i, SentFor(r, j) + 1)
             /\ sent' = [sent EXCEPT ![r] = Append(@,
                            [row |-> i, click |-> j,
                             accepted |-> o.accepted, ok |-> o.ok])]
             /\ total' = [total EXCEPT ![r] = @ + 1]
             /\ success' = IF o.ok THEN [success EXCEPT ![r] = @ + 1]
                                   ELSE success
             /\ failed' = IF o.ok THEN failed ELSE [failed EXCEPT ![r] = @ + 1]
        /\ UNCHANGED <<disk, pc, upload, slot, source, clicks, row, details,
                       reply, met, crashes>>

\* Mutant: the loop ends when i equals count, not when it reaches it.
CompleteRowExact(r) ==
    /\ pc[r] = "send"
    /\ SentFor(r, row[r]) = ToSend(r, row[r])
    /\ AddDetail(r, row[r], "completed", ToSend(r, row[r]))
    /\ Goto(r, "loop")
    /\ UNCHANGED <<disk, upload, slot, source, clicks, row, total, success,
                   failed, sent, met, crashes>>

CompleteRow(r) ==
    /\ pc[r] = "send"
    /\ SentFor(r, row[r]) >= ToSend(r, row[r])
    /\ AddDetail(r, row[r], "completed", ToSend(r, row[r]))
    /\ Goto(r, "loop")
    /\ UNCHANGED <<disk, upload, slot, source, clicks, row, total, success,
                   failed, sent, met, crashes>>

\* Mutant: a failed callback makes the whole answer an error.
FinishStrict(r) ==
    /\ pc[r] = "loop"
    /\ Pending(r) = {}
    /\ Answer(r, IF failed[r] > 0 THEN 500 ELSE 200)
    /\ UNCHANGED <<disk, upload, slot, source, clicks, row, total, success,
                   failed, details, sent, met, crashes>>

Finish(r) ==
    /\ pc[r] = "loop"
    /\ Pending(r) = {}
    /\ Answer(r, 200)
    /\ UNCHANGED <<disk, upload, slot, source, clicks, row, total, success,
                   failed, details, sent, met, crashes>>

ProcessExcelAndCallback(r) ==
    \/ ReadSource(r) \/ ReadClicks(r) \/ TakeRow(r) \/ SendRecord(r)
    \/ CompleteRow(r) \/ Finish(r)

-----------------------------------------------------------------------------
(***************************************************************************)
(* The five handlers: the same code over their own readers and callbacks.  *)
(***************************************************************************)
Serving(r, p) == upload[r] # None /\ upload[r].platform = p

JuliangUpload(r) == Serving(r, "juliang") /\ UploadExcelFiles(r)
JuliangProcess(r) == Serving(r, "juliang") /\ ProcessExcelAndCallback(r)
GdtUpload(r) == Serving(r, "gdt") /\ UploadExcelFiles(r)
GdtProcess(r) == Serving(r, "gdt") /\ ProcessExcelAndCallback(r)
HonorUpload(r) == Serving(r, "honor") /\ UploadExcelFiles(r)
HonorProcess(r) == Serving(r, "honor") /\ ProcessExcelAndCallback(r)
UcUpload(r) == Serving(r, "uc") /\ UploadExcelFiles(r)
UcProcess(r) == Serving(r, "uc") /\ ProcessExcelAndCallback(r)
KsUpload(r) == Serving(r, "ks") /\ UploadExcelFiles(r)
KsProcess(r) == Serving(r, "ks") /\ ProcessExcelAndCallback(r)

Handle(r) ==
    \/ JuliangUpload(r) \/ JuliangProcess(r)
    \/ GdtUpload(r) \/ GdtProcess(r)
    \/ HonorUpload(r) \/ HonorProcess(r)
    \/ UcUpload(r) \/ UcProcess(r)
    \/ KsUpload(r) \/ KsProcess(r)

\* The process dies, or main returns on an interrupt without waiting for the
\* requests in flight; it is started again and the directory is as it was.
Crash ==
    /\ crashes < MaxCrashes
    /\ crashes' = crashes + 1
    /\ pc' = [r \in Request |-> IF pc[r] \in {"idle", "replied"}
                                THEN pc[r] ELSE "lost"]
    /\ UNCHANGED <<disk, upload, slot, source, clicks, row, total, success,
                   failed, details, sent, reply, met>>

\* Every request is answered or lost: the server waits for others.
Quiet == (\A r \in Request : pc[r] \in {"replied", "lost"}) /\ UNCHANGED vars

Next == (\E r \in Request : Receive(r) \/ Handle(r)) \/ Crash \/ Quiet

Spec == Init /\ [][Next]_vars

\* The Go scheduler runs every goroutine, and every callback returns within
\* its timeout: a handler that can take a step takes one.
FairSpec == Spec /\ \A r \in Request : WF_vars(Handle(r))

-----------------------------------------------------------------------------
(***************************************************************************)
(* Properties.                                                             *)
(***************************************************************************)

\* A request that was answered 200, the rows it sent, and the click rows
\* that are done with.
Answered(r, status) == reply[r] # None /\ reply[r].status = status

TimesSent(r, i) == Cardinality({n \in DOMAIN sent[r] : sent[r][n].row = i})

\* The click rows that ask for the source row i: those whose advertisement is
\* the row's key and whose count reaches the row's rank in its slice.
Rank(p, book, i) ==
    LET keys == ReadDataSource(p, book).keys
    IN  Cardinality({k \in DOMAIN keys : keys[k] = keys[i] /\ k <= i})

Asking(r, i) ==
    LET p == upload[r].platform
    IN  {j \in DOMAIN ClickList(r) :
            /\ ClickList(r)[j].ad = ReadDataSource(p, source[r]).keys[i]
            /\ ClickList(r)[j].count >= Rank(p, source[r], i)}

\* The workbooks the handler processes are the ones its client uploaded.
ReadOwn(r) ==
    /\ source[r] # None => source[r] = upload[r].files[1].book
    /\ clicks[r] # None => clicks[r] = upload[r].files[2].book

\* A request processes its own workbooks unless one that used the same file
\* name was in flight with it: what earlier requests, failed writes and
\* crashes left in the directory is never read (the handlers save by name
\* and open by name).
OwnSheets == \A r \in Request : met[r] = {} => ReadOwn(r)

\* The same without the proviso: the first file uploaded is the data source,
\* the second the click data, as the comments in the handlers say.
FirstIsSourceSecondIsClicks == \A r \in Request : ReadOwn(r)

\* An answer of 200 means that every record of the data source was sent as
\* often as there are click rows that ask for it, no more and no less, and
\* nothing else was sent (the loop of processXExcelAndCallback).
SendsMatchSheets ==
    \A r \in Request : Answered(r, 200) =>
        /\ \A n \in DOMAIN sent[r] :
              sent[r][n].row \in SourceRows(source[r])
        /\ \A i \in SourceRows(source[r]) :
              TimesSent(r, i) = Cardinality(Asking(r, i))

\* The totals of an answer are the calls made; a success is a call that the
\* platform accepted, and a failure may be one as well (a late answer).
ReportMatchesCalls ==
    \A r \in Request : reply[r] # None =>
        LET accepted == {n \in DOMAIN sent[r] : sent[r][n].accepted}
        IN  /\ reply[r].total = Len(sent[r])
            /\ reply[r].success + reply[r].failed = reply[r].total
            /\ reply[r].success <= Cardinality(accepted)
            /\ reply[r].failed >= Len(sent[r]) - Cardinality(accepted)

\* An error answer means that not one callback was made, so the client may
\* upload again without a record being sent twice.
ErrorMeansNothingSent ==
    \A r \in Request :
        (Answered(r, 400) \/ Answered(r, 500)) => sent[r] = <<>>

\* Each click row has exactly one detail, in the order of the sheet, and the
\* completed ones account for every call.
DetailsAccountForCalls ==
    \A r \in Request : Answered(r, 200) =>
        /\ {details[r][n].click : n \in DOMAIN details[r]} = DOMAIN ClickList(r)
        /\ \A m, n \in DOMAIN details[r] :
              m < n => details[r][m].click < details[r][n].click
        /\ \A n \in DOMAIN details[r] :
              LET d == details[r][n]
              IN  SentFor(r, d.click) = IF d.executed > 0 THEN d.executed ELSE 0

\* A record sent for a click row belongs to the click row's advertisement.
SentForItsAd(r) ==
    \A n \in DOMAIN sent[r] :
        AdOf(source[r], sent[r][n].row) = ClickList(r)[sent[r][n].click].ad

\* readKsDataSourceExcel files records under their ad_id.
KsSendsClickedAd ==
    \A r \in Request : Serving(r, "ks") => SentForItsAd(r)

\* The same for every platform: what the comment "group by ad_id" says.
GroupedByAdId == \A r \in Request : SentForItsAd(r)

\* The handler implements the promise.
Promise == INSTANCE CallbackPromise WITH
    alone <- [r \in Request |-> met[r] = {}],
    phase <- [r \in Request |->
                 IF pc[r] = "idle" THEN "new"
                 ELSE IF pc[r] = "replied" THEN "answered"
                 ELSE IF pc[r] = "lost" THEN "lost" ELSE "working"]

\* For a request that shares no file, each call that its own workbooks ask for
\* is made once and a 200 says that all were made; an error says that none was
\* and the totals are right in any case (the whole handler).
KeepsPromise == Promise!Spec

\* Every request gets an answer, unless the process dies under it.
EveryRequestAnswered ==
    \A r \in Request : (pc[r] = "form") ~> (pc[r] \in {"replied", "lost"})
=============================================================================
