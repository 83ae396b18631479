----------------------------- MODULE ExportFile -----------------------------
(***************************************************************************)
(* The export handlers of service/{cps_order,cps_income,cps_user,jd_order} *)
(* .go: each fetches rows from a remote platform, saves them as a workbook *)
(* under one name that all its requests share, serves the file under that  *)
(* name and, for the three CPS exports, removes it.  A file is modelled as *)
(* POSIX has it: a name that links to an inode, writers and readers that   *)
(* keep the inode they opened.  An inode is named after the request whose  *)
(* SaveAs created it.                                                      *)
(***************************************************************************)
EXTENDS Integers, FiniteSets

CONSTANTS
    Request,     \* the requests clients make
    Asks,        \* Asks[r]: the endpoints request r may ask
    MaxCrashes,  \* bound on the crashes of the process
    None         \* no value yet

CpsEndpoint == {"order", "income", "user"}
JdEndpoint == {"jdOrder", "jdBonus"}

\* Each endpoint has one file name: orders.xlsx, incoms.xlsx, user.xlsx,
\* jd_orders.xlsx and jd_bonus_orders.xlsx.
Endpoint == CpsEndpoint \cup JdEndpoint

ASSUME AsksAssumption == Asks \in [Request -> SUBSET Endpoint]
ASSUME MaxCrashesAssumption == MaxCrashes \in Nat
ASSUME NoneAssumption == None \notin Request \cup Endpoint

\* The requests whose rows are among the bytes, and whether the bytes are one
\* complete workbook.
Content == [rows: SUBSET Request, whole: BOOLEAN]
Nothing == [rows |-> {}, whole |-> FALSE]
Workbook(r) == [rows |-> {r}, whole |-> TRUE]
Torn(rows) == [rows |-> rows, whole |-> FALSE]

Label == {"idle", "fetch", "save", "write", "open", "copy", "remove",
          "replied", "lost"}

\* An answer with status 200 carries a file or, for no rows, a message.
Reply == [status: {200, 400, 404, 500}, file: BOOLEAN, body: Content]

VARIABLES
    link,      \* link[e]: the inode that e's file name refers to
    data,      \* data[i]: the content of inode i
    pc,        \* where request r is
    endpoint,  \* what r asked for
    fd,        \* the inode r has open, to write it or to serve it
    seen,      \* what r's Stat saw of it, which fixes the length of the body
    reply,     \* the answer to r
    met,       \* history: requests that used r's file at the same time
    crashes    \* history: how often the process crashed

vars == <<link, data, pc, endpoint, fd, seen, reply, met, crashes>>

\* Besides the types: a request that writes or copies holds a file.
TypeOK ==
    /\ link \in [Endpoint -> Request \cup {None}]
    /\ data \in [Request -> Content]
    /\ pc \in [Request -> Label]
    /\ endpoint \in [Request -> Endpoint \cup {None}]
    /\ fd \in [Request -> Request \cup {None}]
    /\ seen \in [Request -> Content]
    /\ reply \in [Request -> Reply \cup {None}]
    /\ met \in [Request -> SUBSET Request]
    /\ crashes \in 0..MaxCrashes
    /\ \A r \in Request : pc[r] \in {"write", "copy"} => fd[r] # None

Init ==
    /\ link = [e \in Endpoint |-> None]
    /\ data = [i \in Request |-> Nothing]
    /\ pc = [r \in Request |-> "idle"]
    /\ endpoint = [r \in Request |-> None]
    /\ fd = [r \in Request |-> None]
    /\ seen = [r \in Request |-> Nothing]
    /\ reply = [r \in Request |-> None]
    /\ met = [r \in Request |-> {}]
    /\ crashes = 0

-----------------------------------------------------------------------------
Goto(r, label) == pc' = [pc EXCEPT ![r] = label]

Say(r, status, file, body) ==
    reply' = [reply EXCEPT ![r] = [status |-> status, file |-> file, body |-> body]]

\* A handler that returns before it has a file to serve.
Refuse(r, status) == Goto(r, "replied") /\ Say(r, status, FALSE, Nothing)

Receive(r) ==
    /\ pc[r] = "idle"
    /\ \E e \in Asks[r] : endpoint' = [endpoint EXCEPT ![r] = e]
    /\ Goto(r, "fetch")
    /\ UNCHANGED <<link, data, fd, seen, reply, met, crashes>>

\* Validation (JD only), the fetch of all pages and the test for no rows.
\* Nothing here is shared: PagedFetch has the detail.
Fetch(r) ==
    /\ pc[r] = "fetch"
    /\ \/ endpoint[r] \in JdEndpoint /\ Refuse(r, 400)
       \/ Refuse(r, 500)
       \/ Refuse(r, 200)
       \/ Goto(r, "save") /\ UNCHANGED reply
    /\ UNCHANGED <<link, data, endpoint, fd, seen, met, crashes>>

\* The requests that use e's file now.
Users(e) ==
    {q \in Request : endpoint[q] = e /\ pc[q] \in {"write", "open", "copy", "remove"}}

Meet(r) ==
    LET rivals == Users(endpoint[r]) \ {r}
    IN  met' = [q \in Request |-> IF q = r THEN met[q] \cup rivals
                                  ELSE IF q \in rivals THEN met[q] \cup {r}
                                  ELSE met[q]]

\* Mutant: an existing file is not truncated.
CreateExportAppending(r) ==
    LET e == endpoint[r]
    IN  /\ pc[r] = "save"
        /\ \/ Refuse(r, 500) /\ UNCHANGED <<link, data, fd, met>>
           \/ /\ link' = [link EXCEPT ![e] = IF @ = None THEN r ELSE @]
              /\ fd' = [fd EXCEPT ![r] = link'[e]]
              /\ Meet(r) /\ Goto(r, "write") /\ UNCHANGED <<data, reply>>
        /\ UNCHANGED <<endpoint, seen, crashes>>

\* Mutant: a file that is there already is served as it is.
CreateExportReusing(r) ==
    LET e == endpoint[r]
    IN  /\ pc[r] = "save"
        /\ \/ Refuse(r, 500) /\ UNCHANGED <<link, data, fd, met>>
           \/ /\ link[e] # None
              /\ Meet(r) /\ Goto(r, "open") /\ UNCHANGED <<link, data, fd, reply>>
           \/ /\ link[e] = None
              /\ link' = [link EXCEPT ![e] = r]
              /\ data' = [data EXCEPT ![r] = Nothing]
              /\ fd' = [fd EXCEPT ![r] = r]
              /\ Meet(r) /\ Goto(r, "write") /\ UNCHANGED reply
        /\ UNCHANGED <<endpoint, seen, crashes>>

\* SaveAs opens the name with O_CREATE and O_TRUNC: an inode of r's own if the
\* name links to none, else the one it links to, emptied under its users.
CreateExport(r) ==
    LET e == endpoint[r]
    IN  /\ pc[r] = "save"
        /\ \/ Refuse(r, 500) /\ UNCHANGED <<link, data, fd, met>>
           \/ /\ link' = [link EXCEPT ![e] = IF @ = None THEN r ELSE @]
              /\ fd' = [fd EXCEPT ![r] = link'[e]]
              /\ data' = [data EXCEPT ![link'[e]] = Nothing]
              /\ Meet(r) /\ Goto(r, "write") /\ UNCHANGED reply
        /\ UNCHANGED <<endpoint, seen, crashes>>

\* Writers other than r that have inode i open.
Writers(r, i) == {q \in Request \ {r} : pc[q] = "write" /\ fd[q] = i}

\* SaveAs writes from offset 0.  What another request put there after r's
\* truncation may show through; a failed write leaves a part.
WriteExport(r) ==
    LET i == fd[r]
        rows == data[i].rows \cup Writers(r, i) \cup {r}
    IN  /\ pc[r] = "write"
        /\ \/ /\ data' = [data EXCEPT ![i] = Torn(rows)]
              /\ Refuse(r, 500)
           \/ /\ \E content \in {Workbook(r)}
                              \cup (IF rows = {r} THEN {} ELSE {Torn(rows)}) :
                    data' = [data EXCEPT ![i] = content]
              /\ Goto(r, "open")
              /\ UNCHANGED reply
        /\ fd' = [fd EXCEPT ![r] = None]
        /\ UNCHANGED <<link, endpoint, seen, met, crashes>>

\* Mutant: orders.xlsx is left behind.
AfterServingForgetful(e) ==
    IF e \in CpsEndpoint \ {"order"} THEN "remove" ELSE "replied"

\* Only the CPS handlers defer os.Remove.
AfterServing(e) == IF e \in CpsEndpoint THEN "remove" ELSE "replied"

\* Mutant: the error of os.Open is not checked.
OpenExportUnchecked(r) ==
    LET i == link[endpoint[r]]
    IN  /\ pc[r] = "open"
        /\ fd' = [fd EXCEPT ![r] = i]
        /\ seen' = [seen EXCEPT ![r] = IF i = None THEN Nothing ELSE data[i]]
        /\ Goto(r, "copy")
        /\ UNCHANGED <<link, data, endpoint, reply, met, crashes>>

\* http.ServeFile opens the name and takes its length: 404 if it links to
\* nothing.  Of a file that is being written, Stat sees any part.
OpenExport(r) ==
    LET i == link[endpoint[r]]
    IN  /\ pc[r] = "open"
        /\ \/ /\ i = None
              /\ Say(r, 404, FALSE, Nothing)
              /\ Goto(r, AfterServing(endpoint[r]))
              /\ UNCHANGED <<fd, seen>>
           \/ /\ i # None
              /\ fd' = [fd EXCEPT ![r] = i]
              /\ \E c \in {data[i]} \cup
                          (IF Writers(r, i) = {} THEN {}
                           ELSE {Torn(data[i].rows \cup Writers(r, i))}) :
                    seen' = [seen EXCEPT ![r] = c]
              /\ Goto(r, "copy")
              /\ UNCHANGED reply
        /\ UNCHANGED <<link, data, endpoint, met, crashes>>

Close(r) == fd' = [fd EXCEPT ![r] = None] /\ seen' = [seen EXCEPT ![r] = Nothing]

\* Mutant: the file is served only while its length stands.
CopyExportStable(r) ==
    /\ pc[r] = "copy"
    /\ data[fd[r]] = seen[r]
    /\ Say(r, 200, TRUE, data[fd[r]])
    /\ Goto(r, AfterServing(endpoint[r]))
    /\ Close(r)
    /\ UNCHANGED <<link, data, endpoint, met, crashes>>

\* As many bytes as Stat saw are copied; if the inode has been written since,
\* the body need not be either content.
CopyExport(r) ==
    LET i == fd[r]
        rows == data[i].rows \cup Writers(r, i)
        steady == data[i] = seen[r] /\ Writers(r, i) = {}
    IN  /\ pc[r] = "copy"
        /\ \E body \in IF seen[r] = Nothing THEN {Nothing}
                       ELSE {data[i]} \cup (IF steady THEN {} ELSE {Torn(rows)}) :
              Say(r, 200, TRUE, body)
        /\ Goto(r, AfterServing(endpoint[r]))
        /\ Close(r)
        /\ UNCHANGED <<link, data, endpoint, met, crashes>>

\* The deferred os.Remove takes the name away, whoever's file it is by now.
RemoveExport(r) ==
    /\ pc[r] = "remove"
    /\ link' = [link EXCEPT ![endpoint[r]] = None]
    /\ Goto(r, "replied")
    /\ UNCHANGED <<data, endpoint, fd, seen, reply, met, crashes>>

-----------------------------------------------------------------------------
Export(r) == CreateExport(r) \/ WriteExport(r)
Serve(r) == OpenExport(r) \/ CopyExport(r) \/ RemoveExport(r)

\* The five exporters differ in the columns, the handlers in the file and in
\* whether they remove it.
ExportOrdersToExcel(r) == endpoint[r] = "order" /\ Export(r)
ExportIncomeToExcel(r) == endpoint[r] = "income" /\ Export(r)
ExportUserToExcel(r) == endpoint[r] = "user" /\ Export(r)
ExportJdOrdersToExcel(r) == endpoint[r] = "jdOrder" /\ Export(r)
ExportJdBonusOrdersToExcel(r) == endpoint[r] = "jdBonus" /\ Export(r)

Answer(r) == Fetch(r) \/ Serve(r)

GetCpsOrder(r) == ExportOrdersToExcel(r) \/ (endpoint[r] = "order" /\ Answer(r))
GetCpsIncome(r) == ExportIncomeToExcel(r) \/ (endpoint[r] = "income" /\ Answer(r))
GetCpsUser(r) == ExportUserToExcel(r) \/ (endpoint[r] = "user" /\ Answer(r))
GetJdOrder(r) == ExportJdOrdersToExcel(r) \/ (endpoint[r] = "jdOrder" /\ Answer(r))
GetJdBonusOrder(r) ==
    ExportJdBonusOrdersToExcel(r) \/ (endpoint[r] = "jdBonus" /\ Answer(r))

Handle(r) == \/ GetCpsOrder(r) \/ GetCpsIncome(r) \/ GetCpsUser(r)
             \/ GetJdOrder(r) \/ GetJdBonusOrder(r)

InFlight(r) == pc[r] \notin {"idle", "replied", "lost"}

\* The process dies, or main returns without waiting; the files stay.
Crash ==
    /\ crashes < MaxCrashes
    /\ crashes' = crashes + 1
    /\ pc' = [r \in Request |-> IF InFlight(r) THEN "lost" ELSE pc[r]]
    /\ fd' = [r \in Request |-> None]
    /\ seen' = [r \in Request |-> Nothing]
    /\ UNCHANGED <<link, data, endpoint, reply, met>>

\* Every request is answered or lost: the server waits for others.
Quiet == (\A r \in Request : pc[r] \in {"replied", "lost"}) /\ UNCHANGED vars

Next == (\E r \in Request : Receive(r) \/ Handle(r)) \/ Crash \/ Quiet

Spec == Init /\ [][Next]_vars

\* The Go scheduler runs every handler; the HTTP clients of the fetch have
\* timeouts and the client's connection is assumed to take the bytes.
FairSpec == Spec /\ \A r \in Request : WF_vars(Handle(r))

-----------------------------------------------------------------------------
(***************************************************************************)
(* Properties.                                                             *)
(***************************************************************************)
Downloaded(r) == reply[r] # None /\ reply[r].file

\* The answer is an error or a message from before there was a file, or it is
\* r's own workbook, complete.
OwnOrNoFile(r) ==
    reply[r] # None =>
        \/ Downloaded(r) /\ reply[r].body = Workbook(r)
        \/ ~Downloaded(r) /\ reply[r].status # 404

\* A request gets its own workbook unless another one used the file between
\* its SaveAs and its Remove: leftovers of failed writes and crashes do no
\* harm (SaveAs truncates, File opens what SaveAs wrote).
AloneGetsOwnExport == \A r \in Request : met[r] = {} => OwnOrNoFile(r)

\* Even when requests overlap, rows can only leak from a request that used
\* the file at the same time, never from an earlier one.
FreshRows ==
    \A r \in Request : Downloaded(r) => reply[r].body.rows \subseteq {r} \cup met[r]

\* When no request uses a CPS file and none failed or was lost, the file is
\* gone, however the removals interleaved with the saves.
CpsFilesRemoved ==
    \A e \in CpsEndpoint :
        LET asked == {r \in Request : endpoint[r] = e}
        IN  (\A r \in asked : pc[r] = "replied" /\ reply[r].status # 500)
                => link[e] = None

\* What the comments say of the last step: the file exported is the file
\* downloaded.
DownloadProvided == \A r \in Request : OwnOrNoFile(r)

\* Every export request is answered, unless the process dies under it.
EveryExportAnswered ==
    \A r \in Request : (pc[r] = "fetch") ~> (pc[r] \in {"replied", "lost"})
=============================================================================
