-------------------------- MODULE ExportFileProofs --------------------------
(***************************************************************************)
(* Safety of the export handlers for every number of requests, endpoints   *)
(* and crashes.  The argument: an inode belongs to one endpoint (InodeOf), *)
(* two requests that use the file of one endpoint have met (Apart), and so *)
(* whoever writes to the inode a request writes, serves or will open is in *)
(* its met set: the rows of that inode stay among its own and theirs       *)
(* (Fresh), and if it met nobody it is the workbook it saved (Own).        *)
(***************************************************************************)
EXTENDS ExportFile, TLAPS

Early == {"idle", "fetch", "save"}
Using == {"write", "open", "copy", "remove"}

LEMMA InitType == Init => TypeOK
BY MaxCrashesAssumption DEF Init, TypeOK, Content, Nothing, Label

\* A handler's step is a step of Fetch, Export or Serve of a known endpoint.
LEMMA HandleCases ==
    ASSUME NEW r \in Request, Handle(r)
    PROVE  /\ endpoint[r] \in Endpoint
           /\ \/ Fetch(r) \/ CreateExport(r) \/ WriteExport(r)
              \/ OpenExport(r) \/ CopyExport(r) \/ RemoveExport(r)
BY DEF Handle, GetCpsOrder, GetCpsIncome, GetCpsUser, GetJdOrder,
   GetJdBonusOrder, ExportOrdersToExcel, ExportIncomeToExcel,
   ExportUserToExcel, ExportJdOrdersToExcel, ExportJdBonusOrdersToExcel,
   Answer, Export, Serve, Endpoint, CpsEndpoint, JdEndpoint

\* The bytes the handlers put in files and answers are contents.
LEMMA ContentType ==
    /\ Nothing \in Content
    /\ \A r \in Request : Workbook(r) \in Content
    /\ \A rows \in SUBSET Request : Torn(rows) \in Content
BY DEF Content, Nothing, Workbook, Torn

Status == {200, 400, 404, 500}
ReplyOK == reply \in [Request -> Reply \cup {None}]

LEMMA SayType ==
    ASSUME TypeOK, NEW r \in Request, NEW status \in Status,
           NEW body \in Content,
           Say(r, status, TRUE, body) \/ Say(r, status, FALSE, body)
    PROVE  ReplyOK'
<1>1. [status |-> status, file |-> TRUE, body |-> body] \in Reply
  BY DEF Reply, Status
<1>2. [status |-> status, file |-> FALSE, body |-> body] \in Reply
  BY DEF Reply, Status
<1> DEFINE a == [status |-> status, file |-> TRUE, body |-> body]
           b == [status |-> status, file |-> FALSE, body |-> body]
<1>3. reply' = [reply EXCEPT ![r] = a] \/ reply' = [reply EXCEPT ![r] = b]
  BY Zenon DEF Say
<1>4. a \in Reply \cup {None} /\ b \in Reply \cup {None}
  BY <1>1, <1>2
<1> HIDE DEF a, b
<1> QED BY <1>3, <1>4 DEF TypeOK, ReplyOK

LEMMA RefuseType ==
    ASSUME TypeOK, NEW r \in Request, NEW status \in Status,
           Refuse(r, status)
    PROVE  /\ pc' = [pc EXCEPT ![r] = "replied"]
           /\ ReplyOK'
<1>1. Say(r, status, FALSE, Nothing)
  BY Zenon DEF Refuse
<1>2. Nothing \in Content
  BY ContentType
<1>3. ReplyOK'
  BY <1>1, <1>2, SayType, Zenon
<1> QED BY <1>3 DEF Refuse, Goto

LEMMA AfterServingLabel == \A e : AfterServing(e) \in {"remove", "replied"}
BY DEF AfterServing

LEMMA FetchType ==
    ASSUME TypeOK, NEW r \in Request, Fetch(r)
    PROVE  TypeOK'
<1>1. ReplyOK'
  BY RefuseType DEF Fetch, TypeOK, ReplyOK, Status
<1>2. pc' \in [Request -> Label]
  BY DEF Fetch, TypeOK, Refuse, Goto, Label
<1>3. pc'[r] \in {"replied", "save"} /\ \A q \in Request \ {r} : pc'[q] = pc[q]
  BY DEF Fetch, TypeOK, Refuse, Goto
<1> QED BY <1>1, <1>2, <1>3 DEF Fetch, TypeOK, ReplyOK

LEMMA CreateType ==
    ASSUME TypeOK, NEW r \in Request, endpoint[r] \in Endpoint, CreateExport(r)
    PROVE  TypeOK'
<1> USE DEF TypeOK, CreateExport
<1>1. CASE Refuse(r, 500) /\ UNCHANGED <<link, data, fd, met>>
  <2>1. ReplyOK'
    BY <1>1, RefuseType DEF Status
  <2> QED BY <1>1, <2>1 DEF Refuse, Goto, Label, ReplyOK
<1>2. CASE /\ link' = [link EXCEPT ![endpoint[r]] = IF @ = None THEN r ELSE @]
           /\ fd' = [fd EXCEPT ![r] = link'[endpoint[r]]]
           /\ data' = [data EXCEPT ![link'[endpoint[r]]] = Nothing]
           /\ Meet(r) /\ Goto(r, "write") /\ UNCHANGED reply
  <2>1. link' \in [Endpoint -> Request \cup {None}] /\ link'[endpoint[r]] \in Request
    BY <1>2
  <2>2. data' \in [Request -> Content]
    BY <1>2, <2>1, ContentType
  <2>3. met' \in [Request -> SUBSET Request]
    BY <1>2 DEF Meet, Users
  <2>4. fd'[r] # None
    BY <1>2, <2>1, NoneAssumption
  <2>5. fd' \in [Request -> Request \cup {None}] /\ \A q \in Request \ {r} : fd'[q] = fd[q]
    BY <1>2, <2>1
  <2> QED BY <1>2, <2>1, <2>2, <2>3, <2>4, <2>5 DEF Goto, Label
<1> QED BY <1>1, <1>2

\* The outcomes of a write, with rows the requests whose bytes may be there.
LEMMA WriteCases ==
    ASSUME TypeOK, NEW r \in Request, WriteExport(r)
    PROVE  LET i == fd[r]
               rows == data[i].rows \cup Writers(r, i) \cup {r}
           IN  /\ i \in Request /\ rows \in SUBSET Request
               /\ \E content \in {Workbook(r), Torn(rows)} :
                     data' = [data EXCEPT ![i] = content]
               /\ rows = {r} => data' = [data EXCEPT ![i] = Workbook(r)]
                                \/ Refuse(r, 500)
               /\ \/ Refuse(r, 500)
                  \/ Goto(r, "open") /\ UNCHANGED reply
<1>1. fd[r] \in Request
  BY DEF WriteExport, TypeOK
<1>2. data[fd[r]].rows \in SUBSET Request
  BY <1>1 DEF TypeOK, Content
<1> QED BY <1>1, <1>2 DEF WriteExport, Writers

LEMMA WriteType ==
    ASSUME TypeOK, NEW r \in Request, WriteExport(r)
    PROVE  TypeOK'
<1>1. data' \in [Request -> Content]
  <2>1. PICK content \in Content : data' = [data EXCEPT ![fd[r]] = content]
    BY WriteCases, ContentType
  <2> QED BY <2>1 DEF TypeOK
<1>2. ReplyOK'
  <2>1. Refuse(r, 500) \/ UNCHANGED reply
    BY WriteCases
  <2>2. Refuse(r, 500) => ReplyOK'
    BY RefuseType DEF Status
  <2> QED BY <2>1, <2>2 DEF TypeOK, ReplyOK
<1>3. /\ pc' \in [Request -> Label] /\ pc'[r] \in {"open", "replied"}
      /\ \A q \in Request \ {r} : pc'[q] = pc[q]
  <2>1. pc' = [pc EXCEPT ![r] = "replied"] \/ pc' = [pc EXCEPT ![r] = "open"]
    BY WriteCases DEF Refuse, Goto
  <2> QED BY <2>1 DEF TypeOK, Label
<1> QED BY <1>1, <1>2, <1>3 DEF WriteExport, TypeOK, ReplyOK

LEMMA OpenType ==
    ASSUME TypeOK, NEW r \in Request, endpoint[r] \in Endpoint, OpenExport(r)
    PROVE  TypeOK'
<1> DEFINE i == link[endpoint[r]]
<1>0. i \in Request \cup {None}
  BY DEF TypeOK
<1>1. CASE /\ i = None
           /\ Say(r, 404, FALSE, Nothing)
           /\ Goto(r, AfterServing(endpoint[r]))
           /\ UNCHANGED <<fd, seen>>
  <2>1. ReplyOK'
    <3>1. 404 \in Status /\ Nothing \in Content
      BY ContentType DEF Status
    <3> QED BY <1>1, <3>1, SayType, Zenon
  <2>2. /\ pc' \in [Request -> Label] /\ pc'[r] \in {"remove", "replied"}
        /\ \A q \in Request \ {r} : pc'[q] = pc[q]
    BY <1>1, AfterServingLabel DEF TypeOK, Goto, Label
  <2> QED BY <1>1, <2>1, <2>2 DEF OpenExport, TypeOK, ReplyOK
<1>2. CASE /\ i # None
           /\ fd' = [fd EXCEPT ![r] = i]
           /\ \E c \in {data[i]} \cup
                       (IF Writers(r, i) = {} THEN {}
                        ELSE {Torn(data[i].rows \cup Writers(r, i))}) :
                 seen' = [seen EXCEPT ![r] = c]
           /\ Goto(r, "copy")
           /\ UNCHANGED reply
  <2>1. data[i] \in Content /\ data[i].rows \cup Writers(r, i) \in SUBSET Request
    BY <1>0, <1>2 DEF TypeOK, Content, Writers
  <2>2. seen' \in [Request -> Content]
    BY <1>2, <2>1, ContentType DEF TypeOK
  <2> QED BY <1>0, <1>2, <2>2 DEF OpenExport, TypeOK, Goto, Label
<1> QED BY <1>1, <1>2 DEF OpenExport

LEMMA CopyType ==
    ASSUME TypeOK, NEW r \in Request, CopyExport(r)
    PROVE  TypeOK'
<1> DEFINE i == fd[r]
           rows == data[i].rows \cup Writers(r, i)
<1>1. i \in Request
  BY DEF CopyExport, TypeOK
<1>2. data[i] \in Content /\ rows \in SUBSET Request
  BY <1>1 DEF TypeOK, Content, Writers
<1>3. \E body \in {Nothing, data[i], Torn(rows)} : Say(r, 200, TRUE, body)
  BY DEF CopyExport
<1>4. ReplyOK'
  <2>1. PICK body \in Content : Say(r, 200, TRUE, body)
    BY <1>2, <1>3, ContentType
  <2>2. 200 \in Status
    BY DEF Status
  <2> QED BY <2>1, <2>2, SayType, Zenon
<1>5. /\ pc' \in [Request -> Label] /\ pc'[r] \in {"remove", "replied"}
      /\ \A q \in Request \ {r} : pc'[q] = pc[q]
  BY AfterServingLabel DEF CopyExport, TypeOK, Goto, Label
<1>6. seen' \in [Request -> Content]
  BY ContentType DEF CopyExport, Close, TypeOK
<1> QED BY <1>4, <1>5, <1>6 DEF CopyExport, Close, TypeOK, ReplyOK

LEMMA RemoveType ==
    ASSUME TypeOK, NEW r \in Request, endpoint[r] \in Endpoint, RemoveExport(r)
    PROVE  TypeOK'
BY DEF RemoveExport, TypeOK, Goto, Label

LEMMA NextType == TypeOK /\ [Next]_vars => TypeOK'
<1> SUFFICES ASSUME TypeOK, [Next]_vars PROVE TypeOK'
  OBVIOUS
<1>1. ASSUME NEW r \in Request, Receive(r) PROVE TypeOK'
  <2>1. \E e \in Endpoint : endpoint' = [endpoint EXCEPT ![r] = e]
    BY <1>1, AsksAssumption DEF Receive
  <2> QED BY <1>1, <2>1 DEF Receive, TypeOK, Goto, Label
<1>2. ASSUME NEW r \in Request, Handle(r) PROVE TypeOK'
  BY <1>2, HandleCases, FetchType, CreateType, WriteType, OpenType, CopyType,
     RemoveType
<1>3. CASE Crash
  <2>1. pc' \in [Request -> Label] /\ \A r \in Request : pc'[r] \notin {"write", "copy"}
    BY <1>3 DEF Crash, TypeOK, InFlight, Label
  <2>2. seen' \in [Request -> Content]
    BY <1>3, ContentType DEF Crash
  <2>3. crashes' \in 0..MaxCrashes
    BY <1>3, MaxCrashesAssumption DEF Crash, TypeOK
  <2> QED BY <1>3, <2>1, <2>2, <2>3 DEF Crash, TypeOK
<1>4. CASE UNCHANGED vars
  BY <1>4 DEF vars, TypeOK
<1> QED BY <1>1, <1>2, <1>3, <1>4 DEF Next, Quiet

-----------------------------------------------------------------------------
\* No request has used the file: no name or request refers to an inode of r.
Unsaved(r) ==
    pc[r] \in Early =>
        /\ met[r] = {}
        /\ \A e \in Endpoint : link[e] # r
        /\ \A q \in Request : fd[q] # r

\* An inode is only reached through the file name of its own endpoint.
InodeOf ==
    /\ \A e \in Endpoint : link[e] # None => endpoint[link[e]] = e
    /\ \A r \in Request : fd[r] # None => endpoint[fd[r]] = endpoint[r]

Apart(r, q) ==
    /\ r # q
    /\ pc[r] \in Using /\ pc[q] \in Using
    /\ endpoint[r] = endpoint[q]
    => q \in met[r]

\* What is in the files of a request that met nobody.
Own(r) ==
    /\ pc[r] = "write" => fd[r] = link[endpoint[r]] /\ data[fd[r]] = Nothing
    /\ pc[r] = "open" => /\ link[endpoint[r]] # None
                         /\ data[link[endpoint[r]]] = Workbook(r)
    /\ pc[r] = "copy" => data[fd[r]] = Workbook(r) /\ seen[r] = Workbook(r)
    /\ OwnOrNoFile(r)

\* Whose rows may be in the files of a request that met some.
Fresh(r) ==
    LET known == {r} \cup met[r]
    IN  /\ pc[r] \in {"write", "copy"} => data[fd[r]].rows \subseteq known
        /\ pc[r] \in {"write", "open"} /\ link[endpoint[r]] # None
               => data[link[endpoint[r]]].rows \subseteq known
        /\ Downloaded(r) => reply[r].body.rows \subseteq known

\* A CPS file that is there has a request that will remove it or that failed.
Owed(e) ==
    link[e] # None =>
        \E r \in Request :
            /\ endpoint[r] = e
            /\ \/ pc[r] \in Using \cup {"lost"}
               \/ pc[r] = "replied" /\ reply[r].status = 500

ExportInv ==
    /\ TypeOK
    /\ \A r \in Request : pc[r] # "idle" => endpoint[r] # None
    /\ \A r \in Request : pc[r] \in Early \cup {"write", "open", "copy"} => reply[r] = None
    /\ \A r \in Request : pc[r] \notin {"write", "copy"} => fd[r] = None
    /\ \A r \in Request : Unsaved(r)
    /\ InodeOf
    /\ \A r, q \in Request : Apart(r, q)
    /\ \A r \in Request : met[r] = {} => Own(r)
    /\ \A r \in Request : Fresh(r)
    /\ \A e \in CpsEndpoint : Owed(e)

LEMMA CpsIsEndpoint == CpsEndpoint \subseteq Endpoint
BY DEF Endpoint

LEMMA InitInv == Init => ExportInv
<1> SUFFICES ASSUME Init PROVE ExportInv
  OBVIOUS
<1>1. TypeOK
  BY InitType
<1>2. /\ \A r \in Request : pc[r] = "idle" /\ fd[r] = None /\ reply[r] = None /\ met[r] = {}
      /\ \A e \in Endpoint : link[e] = None
  BY DEF Init
<1>3. \A r \in Request : Unsaved(r) /\ Own(r) /\ Fresh(r)
  BY <1>2, NoneAssumption DEF Unsaved, Own, Fresh, OwnOrNoFile, Downloaded
<1>4. \A e \in CpsEndpoint : Owed(e)
  BY <1>2, CpsIsEndpoint DEF Owed
<1> QED BY <1>1, <1>2, <1>3, <1>4 DEF ExportInv, InodeOf, Apart, Using

\* What a handler leaves alone: the state of every other request.
Same(r) ==
    /\ pc'[r] = pc[r] /\ fd'[r] = fd[r] /\ seen'[r] = seen[r]
    /\ reply'[r] = reply[r]

LEMMA HandlerFrame ==
    ASSUME TypeOK, NEW q \in Request,
           \/ Fetch(q) \/ CreateExport(q) \/ WriteExport(q)
           \/ OpenExport(q) \/ CopyExport(q) \/ RemoveExport(q)
    PROVE  /\ UNCHANGED <<endpoint, crashes>>
           /\ \A r \in Request \ {q} : Same(r)
           /\ pc[q] \in {"fetch", "save"} \cup Using
<1> USE DEF TypeOK, Same, Using, Goto, Say
<1>1. CASE Fetch(q)
  BY <1>1 DEF Fetch, Refuse
<1>2. CASE CreateExport(q)
  BY <1>2 DEF CreateExport, Refuse
<1>3. CASE WriteExport(q)
  BY <1>3 DEF WriteExport, Refuse
<1>4. CASE OpenExport(q)
  BY <1>4 DEF OpenExport
<1>5. CASE CopyExport(q)
  BY <1>5 DEF CopyExport, Close
<1>6. CASE RemoveExport(q)
  BY <1>6 DEF RemoveExport
<1> QED BY <1>1, <1>2, <1>3, <1>4, <1>5, <1>6

\* An answer without a file, and one with a file.
LEMMA SayNoFile ==
    ASSUME TypeOK, NEW r \in Request, NEW status \in Status, NEW body,
           Say(r, status, FALSE, body)
    PROVE  reply'[r].status = status /\ ~Downloaded(r)'
BY DEF TypeOK, Say, Downloaded

LEMMA RefuseReply ==
    ASSUME TypeOK, NEW r \in Request, NEW status \in Status, Refuse(r, status)
    PROVE  reply'[r].status = status /\ ~Downloaded(r)'
<1>1. Say(r, status, FALSE, Nothing)
  BY Zenon DEF Refuse
<1> QED BY <1>1, SayNoFile, Zenon

LEMMA NotFoundReply ==
    ASSUME TypeOK, NEW r \in Request
    PROVE  Say(r, 404, FALSE, Nothing) => ~Downloaded(r)'
<1>1. 404 \in Status
  BY DEF Status
<1> QED BY <1>1, SayNoFile, Zenon

LEMMA SayFile ==
    ASSUME TypeOK, NEW r \in Request, NEW body, Say(r, 200, TRUE, body)
    PROVE  reply'[r].body = body /\ (reply'[r] # None => Downloaded(r)')
BY DEF TypeOK, Say, Downloaded

LEMMA SameReply ==
    ASSUME NEW r \in Request, reply'[r] = reply[r]
    PROVE  /\ Downloaded(r)' <=> Downloaded(r)
           /\ OwnOrNoFile(r)' <=> OwnOrNoFile(r)
BY DEF Downloaded, OwnOrNoFile

-----------------------------------------------------------------------------
LEMMA ReceiveInv ==
    ASSUME ExportInv, TypeOK', NEW q \in Request, Receive(q)
    PROVE  ExportInv'
<1> USE DEF ExportInv, TypeOK
<1>1. /\ pc[q] = "idle" /\ pc'[q] = "fetch" /\ endpoint'[q] # None
      /\ \A r \in Request \ {q} : pc'[r] = pc[r] /\ endpoint'[r] = endpoint[r]
      /\ UNCHANGED <<link, data, fd, seen, reply, met, crashes>>
  <2>1. PICK e \in Asks[q] : endpoint' = [endpoint EXCEPT ![q] = e]
    BY DEF Receive
  <2>2. e \in Endpoint /\ e # None
    BY AsksAssumption, NoneAssumption
  <2> QED BY <2>1, <2>2 DEF Receive, Goto
<1>2. /\ met[q] = {} /\ fd[q] = None /\ reply[q] = None
      /\ \A e \in Endpoint : link[e] # q
      /\ \A r \in Request : fd[r] # q
  BY <1>1 DEF Unsaved, Early
<1>3. \A r \in Request : Unsaved(r)'
  BY <1>1, <1>2 DEF Unsaved, Early
<1>4. InodeOf'
  BY <1>1, <1>2 DEF InodeOf
<1>5. \A r, t \in Request : Apart(r, t)'
  BY <1>1 DEF Apart, Using
<1>6. ASSUME NEW r \in Request PROVE (met'[r] = {} => Own(r)') /\ Fresh(r)'
  <2>1. CASE r = q
    BY <1>1, <1>2, <2>1 DEF Own, Fresh, OwnOrNoFile, Downloaded
  <2>2. CASE r # q
    BY <1>1, <2>2 DEF Own, Fresh, OwnOrNoFile, Downloaded
  <2> QED BY <2>1, <2>2
<1>7. ASSUME NEW e \in CpsEndpoint PROVE Owed(e)'
  <2>1. Owed(e)
    OBVIOUS
  <2> QED BY <1>1, <2>1 DEF Owed, Using
<1> QED BY <1>1, <1>2, <1>3, <1>4, <1>5, <1>6, <1>7 DEF Early

\* A handler that gives up before it has saved a file.
LEMMA RefuseInv ==
    ASSUME ExportInv, TypeOK', NEW q \in Request, pc[q] \in {"fetch", "save"},
           NEW status \in {200, 400, 500}, Refuse(q, status),
           UNCHANGED <<link, data, endpoint, fd, seen, met, crashes>>
    PROVE  ExportInv'
<1> USE DEF ExportInv
<1>1. /\ pc'[q] = "replied"
      /\ \A r \in Request \ {q} : pc'[r] = pc[r] /\ reply'[r] = reply[r]
  BY DEF TypeOK, Refuse, Goto, Say
<1>2. ~Downloaded(q)' /\ reply'[q].status # 404
  <2>1. status \in Status /\ status # 404
    BY DEF Status
  <2> QED BY <2>1, RefuseReply
<1>3. \A r \in Request : Unsaved(r)'
  BY <1>1 DEF Unsaved, Early
<1>4. \A r, t \in Request : Apart(r, t)'
  BY <1>1 DEF Apart, Using
<1>5. ASSUME NEW r \in Request PROVE (met'[r] = {} => Own(r)') /\ Fresh(r)'
  <2>1. CASE r = q
    BY <1>1, <1>2, <2>1 DEF Own, Fresh, OwnOrNoFile
  <2>2. CASE r # q
    <3>1. /\ Downloaded(r)' <=> Downloaded(r)
          /\ OwnOrNoFile(r)' <=> OwnOrNoFile(r)
      BY <1>1, <2>2, SameReply
    <3> QED BY <1>1, <2>2, <3>1 DEF Own, Fresh
  <2> QED BY <2>1, <2>2
<1>6. ASSUME NEW e \in CpsEndpoint PROVE Owed(e)'
  BY <1>1 DEF Owed, Using
<1> QED BY <1>1, <1>3, <1>4, <1>5, <1>6 DEF InodeOf, Early

LEMMA FetchInv ==
    ASSUME ExportInv, TypeOK', NEW q \in Request, Fetch(q)
    PROVE  ExportInv'
<1>1. CASE Goto(q, "save") /\ UNCHANGED reply
  <2> USE DEF ExportInv
  <2>1. /\ pc[q] = "fetch" /\ pc'[q] = "save"
        /\ \A r \in Request \ {q} : pc'[r] = pc[r]
        /\ UNCHANGED <<link, data, endpoint, fd, seen, reply, met, crashes>>
    BY <1>1 DEF Fetch, TypeOK, Goto
  <2>2. \A r \in Request : Unsaved(r)'
    BY <2>1 DEF Unsaved, Early
  <2>3. \A r, t \in Request : Apart(r, t)'
    BY <2>1 DEF Apart, Using
  <2>4. ASSUME NEW r \in Request PROVE (met'[r] = {} => Own(r)') /\ Fresh(r)'
    BY <2>1 DEF Own, Fresh, OwnOrNoFile, Downloaded
  <2>5. ASSUME NEW e \in CpsEndpoint PROVE Owed(e)'
    BY <2>1 DEF Owed, Using
  <2> QED BY <2>1, <2>2, <2>3, <2>4, <2>5 DEF InodeOf, Early
<1>2. CASE Refuse(q, 200) \/ Refuse(q, 400) \/ Refuse(q, 500)
  BY <1>2, RefuseInv DEF Fetch
<1> QED BY <1>1, <1>2 DEF Fetch

\* SaveAs opens the file: its inode is emptied, and q meets its users.
LEMMA CreateInv ==
    ASSUME ExportInv, TypeOK', NEW q \in Request, endpoint[q] \in Endpoint,
           CreateExport(q)
    PROVE  ExportInv'
<1> DEFINE e == endpoint[q]
           i == link'[e]
           rivals == Users(e) \ {q}
<1>1. CASE Refuse(q, 500) /\ UNCHANGED <<link, data, fd, met>>
  BY <1>1, RefuseInv DEF CreateExport
<1>2. CASE /\ link' = [link EXCEPT ![e] = IF @ = None THEN q ELSE @]
           /\ fd' = [fd EXCEPT ![q] = i]
           /\ data' = [data EXCEPT ![i] = Nothing]
           /\ Meet(q) /\ Goto(q, "write") /\ UNCHANGED reply
  <2> USE DEF ExportInv
  <2>1. /\ pc[q] = "save" /\ pc'[q] = "write" /\ UNCHANGED <<endpoint, seen, reply>>
        /\ \A r \in Request \ {q} : pc'[r] = pc[r] /\ fd'[r] = fd[r]
    BY <1>2 DEF CreateExport, Goto, TypeOK
  <2>2. /\ i = IF link[e] = None THEN q ELSE link[e]
        /\ \A f \in Endpoint \ {e} : link'[f] = link[f]
    BY <1>2 DEF TypeOK
  <2>3. i \in Request /\ i # None
    BY <2>2, NoneAssumption DEF TypeOK
  <2>4. /\ fd'[q] = i /\ data'[i] = Nothing
        /\ \A j \in Request \ {i} : data'[j] = data[j]
    BY <1>2, <2>3 DEF TypeOK
  <2>5. /\ met[q] = {} /\ \A f \in Endpoint : link[f] # q
        /\ \A r \in Request : fd[r] # q
    BY <2>1 DEF Unsaved, Early
  <2>6. /\ met'[q] = rivals
        /\ \A r \in rivals : met'[r] = met[r] \cup {q}
        /\ \A r \in Request \ {q} : r \notin rivals => met'[r] = met[r]
    BY <1>2, <2>5 DEF Meet, Users
  <2>7. \A r \in Request \ {q} : r \in rivals <=> endpoint[r] = e /\ pc[r] \in Using
    BY DEF Users, Using
  <2> HIDE DEF i, rivals, e
  <2>8. endpoint[q] = e /\ e \in Endpoint /\ link'[e] = i
    BY DEF i, e
  <2>9. \A r \in Request : Unsaved(r)'
    BY <2>1, <2>2, <2>4, <2>5, <2>6, <2>7, <2>8 DEF Unsaved, Early, Using
  <2>10. endpoint[i] = e
    BY <2>2, <2>8 DEF InodeOf
  <2>11. InodeOf'
    BY <2>1, <2>2, <2>4, <2>8, <2>10 DEF InodeOf
  <2>12. \A r, t \in Request : Apart(r, t)'
    BY <2>1, <2>6, <2>7, <2>8 DEF Apart, Using
  <2>13. ASSUME NEW r \in Request, met'[r] = {} PROVE Own(r)'
    <3>1. CASE r = q
      BY <2>1, <2>4, <2>8, <3>1 DEF Own, OwnOrNoFile, Early
    <3>2. CASE r # q
      <4>1. met[r] = {} /\ r \notin rivals
        BY <2>6, <2>13, <3>2
      <4>2. Own(r) /\ pc'[r] = pc[r] /\ fd'[r] = fd[r]
        BY <2>1, <3>2, <4>1
      <4>3. OwnOrNoFile(r)'
        BY <2>1, <4>2 DEF Own, OwnOrNoFile, Downloaded
      <4>4. CASE pc[r] \in Using
        <5>1. endpoint[r] \in Endpoint \ {e}
          BY <2>7, <3>2, <4>1, <4>4 DEF TypeOK, Using
        <5>2. link'[endpoint[r]] = link[endpoint[r]]
          BY <2>2, <5>1
        <5>3. \A j \in Request : endpoint[j] = endpoint[r] => data'[j] = data[j]
          BY <2>4, <2>10, <5>1
        <5>4. pc[r] \in {"write", "copy"} => data'[fd[r]] = data[fd[r]]
          BY <5>3 DEF TypeOK, InodeOf
        <5>5. link[endpoint[r]] # None =>
                data'[link[endpoint[r]]] = data[link[endpoint[r]]]
          BY <5>1, <5>3 DEF TypeOK, InodeOf
        <5> QED BY <2>1, <4>2, <4>3, <5>2, <5>4, <5>5 DEF Own
      <4>5. CASE pc[r] \notin Using
        BY <4>2, <4>3, <4>5 DEF Own, Using
      <4> QED BY <4>4, <4>5
    <3> QED BY <3>1, <3>2
  <2>14. ASSUME NEW r \in Request PROVE Fresh(r)'
    <3>1. \A j \in Request : data'[j].rows \subseteq data[j].rows
      BY <2>4 DEF Nothing
    <3>2. met[r] \subseteq met'[r] /\ Fresh(r)
      BY <2>5, <2>6
    <3>3. Downloaded(r)' => reply'[r].body.rows \subseteq {r} \cup met'[r]
      BY <2>1, <3>2 DEF Fresh, Downloaded
    <3>4. ASSUME pc'[r] \in {"write", "copy"}
          PROVE  data'[fd'[r]].rows \subseteq {r} \cup met'[r]
      <4>1. CASE r = q
        BY <2>4, <4>1 DEF Nothing
      <4>2. CASE r # q
        <5>1. pc[r] \in {"write", "copy"} /\ fd'[r] = fd[r] /\ fd[r] \in Request
          BY <2>1, <3>4, <4>2 DEF TypeOK
        <5> QED BY <3>1, <3>2, <5>1 DEF Fresh
      <4> QED BY <4>1, <4>2
    <3>5. ASSUME pc'[r] \in {"write", "open"}, link'[endpoint[r]] # None
          PROVE  data'[link'[endpoint[r]]].rows \subseteq {r} \cup met'[r]
      <4>1. CASE endpoint[r] = e
        BY <2>4, <2>8, <4>1 DEF Nothing
      <4>2. CASE endpoint[r] # e
        <5>1. r # q /\ endpoint[r] \in Endpoint
          BY <2>1, <2>8, <3>5, <4>2 DEF TypeOK
        <5>2. link'[endpoint[r]] = link[endpoint[r]] /\ pc[r] \in {"write", "open"}
          BY <2>1, <2>2, <3>5, <4>2, <5>1
        <5>3. link[endpoint[r]] \in Request
          BY <3>5, <5>1, <5>2 DEF TypeOK
        <5> QED BY <3>1, <3>2, <3>5, <5>2, <5>3 DEF Fresh
      <4> QED BY <4>1, <4>2
    <3> QED BY <2>1, <3>3, <3>4, <3>5 DEF Fresh
  <2>15. ASSUME NEW f \in CpsEndpoint PROVE Owed(f)'
    <3>1. CASE f = e
      BY <2>1, <2>8, <3>1 DEF Owed, Using
    <3>2. CASE f # e
      <4>1. Owed(f) /\ link'[f] = link[f]
        BY <2>2, <3>2, CpsIsEndpoint
      <4> QED BY <2>1, <4>1 DEF Owed, Using
    <3> QED BY <3>1, <3>2
  <2> QED BY <2>1, <2>4, <2>9, <2>11, <2>12, <2>13, <2>14, <2>15 DEF Early
<1> QED BY <1>1, <1>2 DEF CreateExport

\* Whoever writes to an inode of r's endpoint is known to r.
LEMMA WritersKnown ==
    ASSUME ExportInv, NEW r \in Request, pc[r] \in Using,
           NEW i \in Request, endpoint[i] = endpoint[r], NEW q \in Request
    PROVE  Writers(q, i) \subseteq {r} \cup met[r]
<1> SUFFICES ASSUME NEW w \in Request, pc[w] = "write", fd[w] = i, w # r
             PROVE  w \in met[r]
  BY DEF Writers
<1>1. fd[w] # None /\ endpoint[w] = endpoint[i]
  BY NoneAssumption DEF ExportInv, InodeOf
<1> QED BY <1>1 DEF ExportInv, Apart, Using

LEMMA WriteInv ==
    ASSUME ExportInv, TypeOK', NEW q \in Request, endpoint[q] \in Endpoint,
           WriteExport(q)
    PROVE  ExportInv'
<1> USE DEF ExportInv
<1> DEFINE i == fd[q]
           rows == data[i].rows \cup Writers(q, i) \cup {q}
<1>1. /\ pc[q] = "write" /\ i \in Request /\ i # None /\ fd'[q] = None
      /\ \A r \in Request \ {q} : fd'[r] = fd[r]
      /\ UNCHANGED <<link, endpoint, seen, met>>
  BY DEF WriteExport, TypeOK
<1>2. /\ \/ Refuse(q, 500) /\ data' = [data EXCEPT ![i] = Torn(rows)]
         \/ /\ Goto(q, "open") /\ UNCHANGED reply
            /\ \/ data' = [data EXCEPT ![i] = Workbook(q)]
               \/ rows # {q} /\ data' = [data EXCEPT ![i] = Torn(rows)]
  BY DEF WriteExport
<1>3. /\ data'[i] \in {Workbook(q), Torn(rows)}
      /\ \A j \in Request \ {i} : data'[j] = data[j]
  BY <1>1, <1>2 DEF TypeOK
<1>4. \A r \in Request \ {q} : pc'[r] = pc[r] /\ reply'[r] = reply[r]
  BY <1>2 DEF TypeOK, Refuse, Goto, Say
<1>5. \/ pc'[q] = "open" /\ UNCHANGED reply
      \/ /\ pc'[q] = "replied" /\ ~Downloaded(q)'
         /\ reply'[q].status = 500
  <2>1. 500 \in Status
    BY DEF Status
  <2>2. Refuse(q, 500) => pc'[q] = "replied"
    BY DEF Refuse, Goto, TypeOK
  <2>3. Goto(q, "open") => pc'[q] = "open"
    BY DEF Goto, TypeOK
  <2> QED BY <1>2, <2>1, <2>2, <2>3, RefuseReply
<1>6. endpoint[i] = endpoint[q]
  BY <1>1 DEF InodeOf
<1> HIDE DEF i
<1>7. \A r \in Request : Unsaved(r)'
  BY <1>1, <1>4, <1>5, NoneAssumption DEF Unsaved, Early
<1>8. InodeOf'
  BY <1>1 DEF InodeOf
<1>9. \A r, t \in Request : Apart(r, t)'
  BY <1>1, <1>4, <1>5 DEF Apart, Using
<1>10. ASSUME NEW r \in Request \ {q}, met[r] = {}, pc[r] \in Using
       PROVE  endpoint[r] # endpoint[q]
  BY <1>1, <1>10 DEF Apart, Using
<1>11. ASSUME NEW r \in Request, met'[r] = {} PROVE Own(r)'
  <2>1. met[r] = {} /\ Own(r)
    BY <1>1, <1>11
  <2>2. CASE r = q
    <3>1. rows = {q}
      <4>1. Writers(q, i) \subseteq {q}
        BY <1>1, <1>6, <2>1, <2>2, WritersKnown DEF Using
      <4>2. data[i] = Nothing
        BY <1>1, <2>1, <2>2 DEF Own, i
      <4> QED BY <4>1, <4>2 DEF Nothing
    <3>2. CASE pc'[q] = "open" /\ UNCHANGED reply
      <4>1. data' = [data EXCEPT ![i] = Workbook(q)]
        BY <1>2, <3>1, <3>2 DEF Refuse, Goto, TypeOK
      <4>2. link[endpoint[q]] = i
        BY <1>1, <2>1, <2>2 DEF Own, i
      <4>3. data'[i] = Workbook(q)
        BY <1>1, <4>1 DEF TypeOK
      <4>4. OwnOrNoFile(q)'
        BY <2>1, <2>2, <3>2 DEF Own, OwnOrNoFile, Downloaded
      <4> QED BY <1>1, <2>2, <3>2, <4>2, <4>3, <4>4 DEF Own
    <3>3. CASE pc'[q] = "replied" /\ ~Downloaded(q)' /\ reply'[q].status = 500
      BY <2>2, <3>3 DEF Own, OwnOrNoFile
    <3> QED BY <1>5, <3>2, <3>3
  <2>3. CASE r # q
    <3>1. OwnOrNoFile(r)'
      BY <1>4, <2>1, <2>3, SameReply DEF Own
    <3>2. CASE pc[r] \in Using
      <4>1. endpoint[r] # endpoint[q] /\ endpoint[r] \in Endpoint
        BY <1>10, <2>1, <2>3, <3>2 DEF TypeOK, Using
      <4>2. \A j \in Request : endpoint[j] = endpoint[r] => data'[j] = data[j]
        BY <1>3, <1>6, <4>1
      <4>3. pc[r] \in {"write", "copy"} => data'[fd[r]] = data[fd[r]]
        BY <4>2 DEF TypeOK, InodeOf
      <4>4. link[endpoint[r]] # None =>
              data'[link[endpoint[r]]] = data[link[endpoint[r]]]
        BY <4>1, <4>2 DEF TypeOK, InodeOf
      <4> QED BY <1>1, <1>4, <2>1, <2>3, <3>1, <4>3, <4>4 DEF Own
    <3>3. CASE pc[r] \notin Using
      BY <1>4, <2>3, <3>1, <3>3 DEF Own, Using
    <3> QED BY <3>2, <3>3
  <2> QED BY <2>2, <2>3
<1>12. ASSUME NEW r \in Request, pc[r] \in Using, NEW j \in Request,
              endpoint[j] = endpoint[r], data[j].rows \subseteq {r} \cup met[r]
       PROVE  data'[j].rows \subseteq {r} \cup met[r]
  <2>1. CASE j = i
    <3>1. Writers(q, i) \subseteq {r} \cup met[r]
      BY <1>1, <1>12, <2>1, WritersKnown
    <3>2. q \in {r} \cup met[r]
      BY <1>1, <1>6, <1>12, <2>1 DEF Apart, Using
    <3> QED BY <1>3, <1>12, <2>1, <3>1, <3>2 DEF Workbook, Torn
  <2>2. CASE j # i
    BY <1>3, <1>12, <2>2
  <2> QED BY <2>1, <2>2
<1>13. ASSUME NEW r \in Request PROVE Fresh(r)'
  <2>1. Fresh(r)
    OBVIOUS
  <2>2. Downloaded(r)' => reply'[r].body.rows \subseteq {r} \cup met[r]
    <3>1. CASE r = q /\ ~Downloaded(q)'
      BY <3>1
    <3>2. CASE reply'[r] = reply[r]
      BY <2>1, <3>2, SameReply DEF Fresh
    <3> QED BY <1>4, <1>5, <3>1, <3>2
  <2>3. ASSUME pc'[r] \in {"write", "copy"}
        PROVE  data'[fd'[r]].rows \subseteq {r} \cup met[r]
    <3>1. r # q /\ pc[r] \in {"write", "copy"} /\ fd'[r] = fd[r]
      BY <1>1, <1>4, <1>5, <2>3
    <3>2. fd[r] \in Request /\ endpoint[fd[r]] = endpoint[r]
      BY <3>1 DEF TypeOK, InodeOf
    <3> QED BY <1>12, <2>1, <3>1, <3>2 DEF Fresh, Using
  <2>4. ASSUME pc'[r] \in {"write", "open"}, link'[endpoint[r]] # None
        PROVE  data'[link[endpoint[r]]].rows \subseteq {r} \cup met[r]
    <3>1. pc[r] \in {"write", "open"} /\ endpoint[r] \in Endpoint
      BY <1>1, <1>4, <2>4 DEF TypeOK
    <3>2. link[endpoint[r]] \in Request /\ endpoint[link[endpoint[r]]] = endpoint[r]
      BY <1>1, <2>4, <3>1 DEF TypeOK, InodeOf
    <3> QED BY <1>1, <1>12, <2>1, <2>4, <3>1, <3>2 DEF Fresh, Using
  <2> QED BY <1>1, <2>2, <2>3, <2>4 DEF Fresh
<1>14. ASSUME NEW f \in CpsEndpoint PROVE Owed(f)'
  <2>1. Owed(f)
    OBVIOUS
  <2> QED BY <1>1, <1>4, <1>5, <2>1 DEF Owed, Using
<1> QED BY <1>1, <1>4, <1>5, <1>7, <1>8, <1>9, <1>11, <1>13, <1>14 DEF Early

\* The two outcomes of opening a file.
LEMMA OpenOutcomes ==
    ASSUME TypeOK, NEW q \in Request, OpenExport(q)
    PROVE  LET i == link[endpoint[q]]
           IN  \/ /\ i = None /\ pc'[q] = AfterServing(endpoint[q])
                  /\ UNCHANGED <<fd, seen>> /\ Say(q, 404, FALSE, Nothing)
               \/ /\ i # None /\ pc'[q] = "copy" /\ fd'[q] = i /\ UNCHANGED reply
                  /\ seen'[q] = data[i] \/ Writers(q, i) # {}
<1> DEFINE i == link[endpoint[q]]
<1>1. DOMAIN pc = Request /\ DOMAIN fd = Request /\ DOMAIN seen = Request
  BY DEF TypeOK
<1> HIDE DEF i
<1>2. CASE /\ i = None /\ Say(q, 404, FALSE, Nothing)
           /\ Goto(q, AfterServing(endpoint[q])) /\ UNCHANGED <<fd, seen>>
  <2>1. pc'[q] = AfterServing(endpoint[q])
    BY <1>1, <1>2 DEF Goto
  <2> QED BY <1>2, <2>1 DEF i
<1>3. CASE /\ i # None /\ fd' = [fd EXCEPT ![q] = i]
           /\ \E c \in {data[i]} \cup
                       (IF Writers(q, i) = {} THEN {}
                        ELSE {Torn(data[i].rows \cup Writers(q, i))}) :
                 seen' = [seen EXCEPT ![q] = c]
           /\ Goto(q, "copy") /\ UNCHANGED reply
  <2>1. pc'[q] = "copy" /\ fd'[q] = i
    BY <1>1, <1>3 DEF Goto
  <2>2. seen'[q] = data[i] \/ Writers(q, i) # {}
    BY <1>1, <1>3
  <2> QED BY <1>3, <2>1, <2>2 DEF i
<1> QED BY <1>2, <1>3 DEF OpenExport, i

LEMMA OpenInv ==
    ASSUME ExportInv, TypeOK', NEW q \in Request, endpoint[q] \in Endpoint,
           OpenExport(q)
    PROVE  ExportInv'
<1> USE DEF ExportInv
<1> DEFINE e == endpoint[q]
           i == link[e]
<1>1. /\ pc[q] = "open" /\ UNCHANGED <<link, data, endpoint, met>>
      /\ \A r \in Request \ {q} : Same(r)
  BY HandlerFrame DEF OpenExport
<1>2. \/ /\ i = None /\ pc'[q] = AfterServing(e) /\ UNCHANGED <<fd, seen>>
         /\ Say(q, 404, FALSE, Nothing)
      \/ /\ i # None /\ pc'[q] = "copy" /\ fd'[q] = i /\ UNCHANGED reply
         /\ seen'[q] = data[i] \/ Writers(q, i) # {}
  BY OpenOutcomes
<1>3. i = None => ~Downloaded(q)'
  <2>1. Say(q, 404, FALSE, Nothing) => ~Downloaded(q)'
    BY NotFoundReply
  <2> QED BY <1>2, <2>1
<1>4. pc'[q] \in {"copy", "remove", "replied"} /\ (pc'[q] = "replied" => e \notin CpsEndpoint)
  BY <1>2 DEF AfterServing
<1>5. i # None => i \in Request /\ endpoint[i] = e
  BY DEF TypeOK, InodeOf
<1> HIDE DEF i
<1>6. \A r \in Request : Unsaved(r)'
  <2>1. \A r \in Request : pc'[r] \in Early => r # q /\ pc[r] \in Early
    BY <1>1, <1>4 DEF Same, Early
  <2>2. \A r \in Request : fd'[r] = fd[r] \/ fd'[r] = link[e]
    BY <1>1, <1>2 DEF Same, i
  <2> QED BY <1>1, <2>1, <2>2 DEF Unsaved
<1>7. InodeOf'
  <2>1. \A f \in Endpoint : link'[f] # None => endpoint'[link'[f]] = f
    BY <1>1 DEF InodeOf
  <2>2. ASSUME NEW r \in Request, fd'[r] # None PROVE endpoint'[fd'[r]] = endpoint'[r]
    <3>1. fd'[r] = fd[r] \/ (r = q /\ i # None /\ fd'[r] = i)
      BY <1>1, <1>2 DEF Same
    <3> QED BY <1>1, <1>5, <2>2, <3>1 DEF InodeOf
  <2> QED BY <2>1, <2>2 DEF InodeOf
<1>8. \A r, t \in Request : Apart(r, t)'
  BY <1>1, <1>4 DEF Apart, Using, Same
<1>9. ASSUME NEW r \in Request, met'[r] = {} PROVE Own(r)'
  <2>1. met[r] = {} /\ Own(r)
    BY <1>1, <1>9
  <2>2. CASE r = q
    <3>0. i = link[e]
      BY DEF i
    <3>1. i # None /\ data[i] = Workbook(q) /\ OwnOrNoFile(q)
      BY <1>1, <2>1, <2>2, <3>0 DEF Own
    <3>2. Writers(q, i) \subseteq {q}
      BY <1>1, <1>5, <2>1, <2>2, <3>1, WritersKnown DEF Using
    <3>3. Writers(q, i) = {}
      BY <3>2 DEF Writers
    <3>4. OwnOrNoFile(q)'
      BY <1>2, <2>2, <3>1, SameReply
    <3> QED BY <1>1, <1>2, <2>2, <3>1, <3>3, <3>4 DEF Own
  <2>3. CASE r # q
    <3>1. OwnOrNoFile(r)'
      BY <1>1, <2>1, <2>3, SameReply DEF Own, Same
    <3> QED BY <1>1, <2>1, <2>3, <3>1 DEF Own, Same
  <2> QED BY <2>2, <2>3
<1>10. ASSUME NEW r \in Request PROVE Fresh(r)'
  <2>1. Fresh(r)
    OBVIOUS
  <2>2. CASE r = q /\ i = None
    BY <1>2, <1>3, <2>2 DEF Fresh, AfterServing
  <2>3. CASE r = q /\ i # None
    <3>1. Downloaded(r)' <=> Downloaded(r)
      BY <1>2, <2>3, SameReply
    <3>2. data[i].rows \subseteq {q} \cup met[q]
      BY <1>1, <2>1, <2>3 DEF Fresh, i
    <3> QED BY <1>1, <1>2, <2>1, <2>3, <3>1, <3>2 DEF Fresh
  <2>4. CASE r # q
    <3>1. Downloaded(r)' <=> Downloaded(r)
      BY <1>1, <2>4, SameReply DEF Same
    <3> QED BY <1>1, <2>1, <2>4, <3>1 DEF Fresh, Same
  <2> QED BY <2>2, <2>3, <2>4
<1>11. ASSUME NEW f \in CpsEndpoint PROVE Owed(f)'
  <2>1. Owed(f)
    OBVIOUS
  <2> QED BY <1>1, <1>4, <2>1 DEF Owed, Using, Same
<1>12. \A r \in Request : pc'[r] \in Early \cup {"write", "open", "copy"} => reply'[r] = None
  <2>1. ASSUME pc'[q] = "copy" PROVE reply'[q] = None
    BY <1>1, <1>2, <2>1 DEF AfterServing
  <2> QED BY <1>1, <1>4, <2>1 DEF Early, Same
<1>13. \A r \in Request : pc'[r] \notin {"write", "copy"} => fd'[r] = None
  BY <1>1, <1>2 DEF Same
<1>14. \A r \in Request : pc'[r] # "idle" => endpoint'[r] # None
  BY <1>1 DEF Same
<1> QED BY <1>6, <1>7, <1>8, <1>9, <1>10, <1>11, <1>12, <1>13, <1>14

LEMMA CopyInv ==
    ASSUME ExportInv, TypeOK', NEW q \in Request, endpoint[q] \in Endpoint,
           CopyExport(q)
    PROVE  ExportInv'
<1> USE DEF ExportInv
<1> DEFINE i == fd[q]
           rows == data[i].rows \cup Writers(q, i)
<1>1. /\ pc[q] = "copy" /\ UNCHANGED <<link, data, endpoint, met>>
      /\ fd'[q] = None /\ \A r \in Request \ {q} : Same(r)
  <2>1. pc[q] = "copy" /\ UNCHANGED <<link, data, endpoint, met>> /\ Close(q)
    BY DEF CopyExport
  <2>2. fd'[q] = None
    BY <2>1 DEF Close, TypeOK
  <2>3. \A r \in Request \ {q} : Same(r)
    BY HandlerFrame
  <2> QED BY <2>1, <2>2, <2>3
<1>2. PICK body \in {Nothing, data[i], Torn(rows)} :
        /\ Say(q, 200, TRUE, body)
        /\ seen[q] # Nothing /\ data[i] = seen[q] /\ Writers(q, i) = {} => body = data[i]
  BY DEF CopyExport
<1>3. reply'[q].body = body /\ (reply'[q] # None => Downloaded(q)')
  BY <1>2, SayFile, Zenon
<1>4. pc'[q] \in {"remove", "replied"} /\ (pc'[q] = "replied" => endpoint[q] \notin CpsEndpoint)
  BY DEF CopyExport, AfterServing, Goto, TypeOK
<1>5. i \in Request /\ endpoint[i] = endpoint[q]
  BY <1>1 DEF TypeOK, InodeOf
<1>6. \A r \in Request : Unsaved(r)'
  BY <1>1, <1>4, NoneAssumption DEF Unsaved, Early, Same
<1>7. InodeOf'
  BY <1>1 DEF InodeOf, Same
<1>8. \A r, t \in Request : Apart(r, t)'
  BY <1>1, <1>4 DEF Apart, Using, Same
<1>9. Writers(q, i) \subseteq {q} \cup met[q]
  BY <1>1, <1>5, WritersKnown DEF Using
<1> HIDE DEF i
<1>10. ASSUME NEW r \in Request, met'[r] = {} PROVE Own(r)'
  <2>1. met[r] = {} /\ Own(r)
    BY <1>1, <1>10
  <2>2. CASE r = q
    <3>1. data[i] = Workbook(q) /\ seen[q] = Workbook(q)
      BY <1>1, <2>1, <2>2 DEF Own, i
    <3>2. Workbook(q) # Nothing
      BY DEF Workbook, Nothing
    <3>3. Writers(q, i) = {}
      BY <1>9, <2>1, <2>2 DEF Writers
    <3>4. body = Workbook(q)
      BY <1>2, <3>1, <3>2, <3>3
    <3> QED BY <1>3, <1>4, <2>2, <3>4 DEF Own, OwnOrNoFile
  <2>3. CASE r # q
    <3>1. OwnOrNoFile(r)'
      BY <1>1, <2>1, <2>3, SameReply DEF Own, Same
    <3> QED BY <1>1, <2>1, <2>3, <3>1 DEF Own, Same
  <2> QED BY <2>2, <2>3
<1>11. ASSUME NEW r \in Request PROVE Fresh(r)'
  <2>1. Fresh(r)
    OBVIOUS
  <2>2. CASE r = q
    <3>1. data[i].rows \subseteq {q} \cup met[q]
      BY <1>1, <2>1, <2>2 DEF Fresh, i
    <3>2. body.rows \subseteq {q} \cup met[q]
      BY <1>9, <3>1 DEF Nothing, Torn
    <3> QED BY <1>1, <1>3, <1>4, <2>2, <3>2 DEF Fresh
  <2>3. CASE r # q
    <3>1. Downloaded(r)' <=> Downloaded(r)
      BY <1>1, <2>3, SameReply DEF Same
    <3> QED BY <1>1, <2>1, <2>3, <3>1 DEF Fresh, Same
  <2> QED BY <2>2, <2>3
<1>12. ASSUME NEW f \in CpsEndpoint PROVE Owed(f)'
  <2>1. Owed(f)
    OBVIOUS
  <2> QED BY <1>1, <1>4, <2>1 DEF Owed, Using, Same
<1> QED BY <1>1, <1>4, <1>6, <1>7, <1>8, <1>10, <1>11, <1>12 DEF Early, Same

LEMMA RemoveInv ==
    ASSUME ExportInv, TypeOK', NEW q \in Request, endpoint[q] \in Endpoint,
           RemoveExport(q)
    PROVE  ExportInv'
<1> USE DEF ExportInv
<1>1. /\ pc[q] = "remove" /\ pc'[q] = "replied"
      /\ UNCHANGED <<data, endpoint, fd, seen, reply, met>>
      /\ \A r \in Request \ {q} : pc'[r] = pc[r]
      /\ link'[endpoint[q]] = None
      /\ \A e \in Endpoint \ {endpoint[q]} : link'[e] = link[e]
  BY DEF RemoveExport, Goto, TypeOK
<1>2. \A r \in Request : Unsaved(r)'
  BY <1>1, NoneAssumption DEF Unsaved, Early
<1>3. InodeOf'
  BY <1>1 DEF InodeOf
<1>4. \A r, t \in Request : Apart(r, t)'
  BY <1>1 DEF Apart, Using
<1>5. ASSUME NEW r \in Request, met'[r] = {} PROVE Own(r)'
  <2>1. met[r] = {} /\ Own(r) /\ OwnOrNoFile(r)'
    BY <1>1, <1>5, SameReply DEF Own
  <2>2. ASSUME r # q, pc[r] \in Using PROVE link'[endpoint[r]] = link[endpoint[r]]
    BY <1>1, <2>1, <2>2 DEF Apart, Using, TypeOK
  <2> QED BY <1>1, <2>1, <2>2 DEF Own, Using
<1>6. ASSUME NEW r \in Request PROVE Fresh(r)'
  <2>1. Fresh(r) /\ (Downloaded(r)' <=> Downloaded(r))
    BY <1>1, SameReply
  <2>2. pc[r] \in Using => link'[endpoint[r]] \in {None, link[endpoint[r]]}
    BY <1>1 DEF TypeOK, Using
  <2> QED BY <1>1, <2>1, <2>2 DEF Fresh, Using
<1>7. ASSUME NEW f \in CpsEndpoint PROVE Owed(f)'
  <2>1. Owed(f) /\ f \in Endpoint
    BY CpsIsEndpoint
  <2> QED BY <1>1, <2>1 DEF Owed, Using
<1> QED BY <1>1, <1>2, <1>3, <1>4, <1>5, <1>6, <1>7 DEF Early

LEMMA CrashInv ==
    ASSUME ExportInv, TypeOK', Crash
    PROVE  ExportInv'
<1> USE DEF ExportInv
<1>1. /\ UNCHANGED <<link, data, endpoint, reply, met>>
      /\ \A r \in Request : fd'[r] = None
      /\ \A r \in Request : pc'[r] = IF InFlight(r) THEN "lost" ELSE pc[r]
  BY DEF Crash
<1>2. \A r \in Request : pc'[r] \notin Using \cup {"fetch", "save"}
  BY <1>1 DEF InFlight, Using
<1>3. \A r \in Request : Unsaved(r)'
  BY <1>1, NoneAssumption DEF Unsaved, Early, InFlight
<1>4. ASSUME NEW r \in Request PROVE (met'[r] = {} => Own(r)') /\ Fresh(r)'
  <2>1. /\ Downloaded(r)' <=> Downloaded(r)
        /\ OwnOrNoFile(r)' <=> OwnOrNoFile(r)
    BY <1>1, SameReply
  <2> QED BY <1>1, <1>2, <2>1 DEF Own, Fresh, Using
<1>5. ASSUME NEW f \in CpsEndpoint PROVE Owed(f)'
  <2>1. Owed(f)
    OBVIOUS
  <2> QED BY <1>1, <2>1 DEF Owed, Using, InFlight
<1> QED BY <1>1, <1>2, <1>3, <1>4, <1>5 DEF InodeOf, Apart, Early, Using, InFlight

LEMMA NextInv == ExportInv /\ [Next]_vars => ExportInv'
<1> SUFFICES ASSUME ExportInv, [Next]_vars PROVE ExportInv'
  OBVIOUS
<1>0. TypeOK'
  BY NextType DEF ExportInv
<1>1. ASSUME NEW q \in Request, Receive(q) PROVE ExportInv'
  BY <1>0, <1>1, ReceiveInv
<1>2. ASSUME NEW q \in Request, Handle(q) PROVE ExportInv'
  BY <1>0, <1>2, HandleCases, FetchInv, CreateInv, WriteInv, OpenInv, CopyInv,
     RemoveInv
<1>3. CASE Crash
  BY <1>0, <1>3, CrashInv
<1>4. CASE UNCHANGED vars
  BY <1>0, <1>4 DEF vars, ExportInv, Unsaved, InodeOf, Apart, Own, Fresh, Owed,
     OwnOrNoFile, Downloaded
<1> QED BY <1>1, <1>2, <1>3, <1>4 DEF Next, Quiet

LEMMA InvHolds == Spec => []ExportInv
BY InitInv, NextInv, PTL DEF Spec

-----------------------------------------------------------------------------
\* Files, inodes, answers and what requests hold open have their types.
THEOREM TypeCorrect == Spec => []TypeOK
BY InitType, NextType, PTL DEF Spec

\* Whatever the number of requests and crashes: a request that no other one
\* joined at its file, between its SaveAs and its os.Remove, downloads its own
\* workbook, complete, or is told of an error or of no rows.
THEOREM OwnExport == Spec => []AloneGetsOwnExport
<1>1. ExportInv => AloneGetsOwnExport
  BY DEF ExportInv, Own, AloneGetsOwnExport
<1> QED BY <1>1, InvHolds, PTL

\* Rows of another request in a download come from one that used the file at
\* the same time, never from what an earlier request or a crash left there.
THEOREM RowsAreFresh == Spec => []FreshRows
<1>1. ExportInv => FreshRows
  BY DEF ExportInv, Fresh, FreshRows
<1> QED BY <1>1, InvHolds, PTL

\* However the removals interleave with the saves, a CPS file is gone when all
\* who asked for it have been answered and none with a 500.
THEOREM CpsFilesGone == Spec => []CpsFilesRemoved
<1>1. ExportInv => CpsFilesRemoved
  BY DEF ExportInv, Owed, CpsFilesRemoved, Using
<1> QED BY <1>1, InvHolds, PTL
=============================================================================
