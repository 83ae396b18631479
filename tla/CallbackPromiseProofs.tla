------------------------ MODULE CallbackPromiseProofs ------------------------
(***************************************************************************)
(* What the upload handlers send and report, and that they implement the   *)
(* promise.  The argument: the rows sent for a click row are always the    *)
(* first ones of its slice, as many as were sent (Progress), so the next   *)
(* row sent is a new one (Once), and when no click row is pending they are *)
(* those that the two workbooks ask for.                                   *)
(***************************************************************************)
EXTENDS CallbackUploadProofs

Before == {"idle", "form", "open", "write", "readSource", "readClicks"}
Looping == {"loop", "send"}

\* How many members of the slice S come up to i.
RankIn(S, i) == Cardinality({k \in S : k <= i})

ClickSlice(r, j) == Slice(r, ClickList(r)[j])

Wanted(r, j) == IF ToSend(r, j) > 0 THEN ToSend(r, j) ELSE 0

MadeCalls(r) == {<<sent[r][n].row, sent[r][n].click>> : n \in DOMAIN sent[r]}

\* Click row j is done with: it was sent for or skipped.
Past(r, j) == j < row[r] \/ (j = row[r] /\ pc[r] = "loop")

\* Nothing has been sent, counted or answered before the loop.
Untouched(r) ==
    /\ pc[r] \in Before =>
          /\ sent[r] = <<>> /\ details[r] = <<>> /\ row[r] = 0
    /\ pc[r] # "replied" => reply[r] = None

\* The counters describe the calls.
OkCalls(r) == {n \in DOMAIN sent[r] : sent[r][n].ok}

Counted(r) ==
    /\ total[r] = Len(sent[r])
    /\ success[r] = Cardinality(OkCalls(r))
    /\ failed[r] = total[r] - success[r]
    /\ \A n \in DOMAIN sent[r] : sent[r][n].ok => sent[r][n].accepted

\* A call is for a click row and a record of its slice, and made once.
Belongs(r) ==
    \A n \in DOMAIN sent[r] :
        /\ sent[r][n].click \in DOMAIN ClickList(r)
        /\ sent[r][n].row \in ClickSlice(r, sent[r][n].click)

Once(r) ==
    \A m, n \in DOMAIN sent[r] :
        sent[r][m].row = sent[r][n].row /\ sent[r][m].click = sent[r][n].click
            => m = n

\* How many records have been sent for a click row, and which.
Progress(r) ==
    pc[r] \in Looping =>
        \A j \in DOMAIN ClickList(r) :
            /\ Past(r, j) => SentFor(r, j) = Wanted(r, j)
            /\ j = row[r] => SentFor(r, j) <= Wanted(r, j)
            /\ j > row[r] => SentFor(r, j) = 0
            /\ \A i \in ClickSlice(r, j) :
                  <<i, j>> \in MadeCalls(r)
                      <=> RankIn(ClickSlice(r, j), i) <= SentFor(r, j)

\* The details are those of the click rows that are done with.
DetailTrue(r, d) == SentFor(r, d.click) = IF d.executed > 0 THEN d.executed ELSE 0

DetailsTrue(r) ==
    /\ \A m, n \in DOMAIN details[r] :
          m < n => details[r][m].click < details[r][n].click
    /\ \A n \in DOMAIN details[r] : DetailTrue(r, details[r][n])

DetailClicks(r) == {details[r][n].click : n \in DOMAIN details[r]}

Detailed(r) ==
    pc[r] \in Looping =>
        /\ DetailClicks(r) = {j \in DOMAIN ClickList(r) : Past(r, j)}
        /\ DetailsTrue(r)

\* What an answer says of its request.
Echo(r) == reply[r] = [status |-> reply[r].status, total |-> total[r],
                       success |-> success[r], failed |-> failed[r]]

Reported(r) ==
    reply[r] # None =>
        /\ Echo(r)
        /\ reply[r].status # 200 => sent[r] = <<>>

SendsAll(r) ==
    Answered(r, 200) =>
        /\ \A n \in DOMAIN sent[r] : sent[r][n].row \in SourceRows(source[r])
        /\ \A i \in SourceRows(source[r]) :
              TimesSent(r, i) = Cardinality(Asking(r, i))

DetailsAll(r) ==
    Answered(r, 200) =>
        DetailClicks(r) = DOMAIN ClickList(r) /\ DetailsTrue(r)

CallInv(r) ==
    /\ Untouched(r)
    /\ Counted(r)
    /\ Belongs(r)
    /\ Once(r)
    /\ Progress(r)
    /\ Detailed(r)
    /\ Reported(r)
    /\ SendsAll(r)
    /\ DetailsAll(r)

PromiseInv == OwnInv /\ \A r \in Request : CallInv(r)

-----------------------------------------------------------------------------
(***************************************************************************)
(* Ranks in a finite slice, and counting in a sequence that grows.         *)
(***************************************************************************)
LEMMA RankType ==
    ASSUME NEW S \in SUBSET Nat, IsFiniteSet(S), NEW i \in Nat
    PROVE  RankIn(S, i) \in Nat /\ RankIn(S, i) <= Cardinality(S)
<1>1. {k \in S : k <= i} \subseteq S
  OBVIOUS
<1> QED BY <1>1, FS_Subset, FS_CardinalityType DEF RankIn

\* A later row has a higher rank, so a rank has one row.
LEMMA RankGrows ==
    ASSUME NEW S \in SUBSET Nat, IsFiniteSet(S), NEW i \in S, NEW k \in S, i < k
    PROVE  RankIn(S, i) < RankIn(S, k)
<1> DEFINE A == {x \in S : x <= i}
           B == {x \in S : x <= k}
<1>1. A \subseteq S /\ B \subseteq S /\ A \cup {k} \subseteq B /\ k \notin A
  <2>1. i \in Nat /\ k \in Nat /\ \A x \in S : x \in Nat
    OBVIOUS
  <2>2. \A x \in S : x <= i => x <= k
    BY <2>1
  <2>3. ~(k <= i) /\ k <= k
    BY <2>1
  <2> QED BY <2>2, <2>3
<1>2. IsFiniteSet(A) /\ IsFiniteSet(B)
  BY <1>1, FS_Subset
<1>3. Cardinality(A \cup {k}) = Cardinality(A) + 1
  BY <1>1, <1>2, FS_AddElement
<1>4. Cardinality(A \cup {k}) <= Cardinality(B)
  BY <1>1, <1>2, FS_Subset
<1>5. Cardinality(A) \in Nat /\ Cardinality(B) \in Nat
  BY <1>2, FS_CardinalityType
<1> QED BY <1>3, <1>4, <1>5 DEF RankIn

LEMMA RankInjective ==
    ASSUME NEW S \in SUBSET Nat, IsFiniteSet(S), NEW i \in S, NEW k \in S,
           RankIn(S, i) = RankIn(S, k)
    PROVE  i = k
<1>1. RankIn(S, i) \in Nat /\ RankIn(S, k) \in Nat /\ i \in Nat /\ k \in Nat
  BY RankType
<1>2. ~(i < k) /\ ~(k < i)
  BY <1>1, RankGrows
<1> QED BY <1>1, <1>2

\* The callbacks of a request after one more of them.
LEMMA AppendSent ==
    ASSUME NEW s \in Seq(Sent), NEW x \in Sent
    PROVE  LET t == Append(s, x)
               last == Len(s) + 1
           IN  /\ t \in Seq(Sent) /\ Len(t) = last /\ Len(s) \in Nat
               /\ DOMAIN s = 1..Len(s) /\ DOMAIN t = DOMAIN s \cup {last}
               /\ last \notin DOMAIN s /\ t[last] = x
               /\ \A n \in DOMAIN s : t[n] = s[n]
               /\ IsFiniteSet(DOMAIN s)
<1>1. IsFiniteSet(1..Len(s))
  BY FS_Interval
<1> QED BY <1>1

LEMMA SentForType ==
    ASSUME NEW r \in Request, sent[r] \in Seq(Sent), NEW j
    PROVE  SentFor(r, j) \in Nat
<1>1. IsFiniteSet(1..Len(sent[r])) /\ DOMAIN sent[r] = 1..Len(sent[r])
  BY FS_Interval
<1>2. IsFiniteSet({n \in DOMAIN sent[r] : sent[r][n].click = j})
  BY <1>1, FS_Subset
<1> QED BY <1>2, FS_CardinalityType DEF SentFor

LEMMA SentForGrows ==
    ASSUME NEW r \in Request, sent[r] \in Seq(Sent), NEW x \in Sent,
           sent'[r] = Append(sent[r], x), NEW j
    PROVE  SentFor(r, j)' = IF x.click = j THEN SentFor(r, j) + 1
                                           ELSE SentFor(r, j)
<1> DEFINE A == {n \in DOMAIN sent[r] : sent[r][n].click = j}
           B == {n \in DOMAIN sent'[r] : sent'[r][n].click = j}
           last == Len(sent[r]) + 1
<1>1. /\ DOMAIN sent'[r] = DOMAIN sent[r] \cup {last} /\ last \notin DOMAIN sent[r]
      /\ sent'[r][last] = x /\ \A n \in DOMAIN sent[r] : sent'[r][n] = sent[r][n]
      /\ IsFiniteSet(DOMAIN sent[r])
  BY AppendSent
<1>2. B = IF x.click = j THEN A \cup {last} ELSE A
  BY <1>1
<1>3. IsFiniteSet(A) /\ last \notin A
  BY <1>1, FS_Subset
<1>4. Cardinality(A \cup {last}) = Cardinality(A) + 1
  BY <1>3, FS_AddElement
<1> HIDE DEF A, last
<1>5. Cardinality(B) = IF x.click = j THEN Cardinality(A) + 1 ELSE Cardinality(A)
  BY <1>2, <1>4
<1> QED BY <1>5 DEF SentFor, A

LEMMA OkCallsGrow ==
    ASSUME NEW r \in Request, sent[r] \in Seq(Sent), NEW x \in Sent,
           sent'[r] = Append(sent[r], x)
    PROVE  /\ Cardinality(OkCalls(r)') = IF x.ok THEN Cardinality(OkCalls(r)) + 1
                                                ELSE Cardinality(OkCalls(r))
           /\ Cardinality(OkCalls(r)) \in Nat
<1> DEFINE last == Len(sent[r]) + 1
<1>1. /\ DOMAIN sent'[r] = DOMAIN sent[r] \cup {last} /\ last \notin DOMAIN sent[r]
      /\ sent'[r][last] = x /\ \A n \in DOMAIN sent[r] : sent'[r][n] = sent[r][n]
      /\ IsFiniteSet(DOMAIN sent[r])
  BY AppendSent
<1>2. OkCalls(r) \subseteq DOMAIN sent[r]
  BY DEF OkCalls
<1>3. IsFiniteSet(OkCalls(r)) /\ last \notin OkCalls(r)
  BY <1>1, <1>2, FS_Subset
<1>4. Cardinality(OkCalls(r) \cup {last}) = Cardinality(OkCalls(r)) + 1
  BY <1>3, FS_AddElement
<1>5. x.ok => OkCalls(r)' = OkCalls(r) \cup {last}
  BY <1>1 DEF OkCalls
<1>6. ~x.ok => OkCalls(r)' = OkCalls(r)
  BY <1>1 DEF OkCalls
<1>7. Cardinality(OkCalls(r)) \in Nat
  BY <1>3, FS_CardinalityType
<1> QED BY <1>4, <1>5, <1>6, <1>7

-----------------------------------------------------------------------------
(***************************************************************************)
(* Steps that leave the callbacks of a request alone.                      *)
(***************************************************************************)
\* A slice is a finite set of row numbers, all of them rows of the source.
LEMMA SliceFacts ==
    ASSUME NEW p \in Platform, NEW book \in Book, NEW key
    PROVE  /\ Records(p, book, key) \in SUBSET Nat
           /\ IsFiniteSet(Records(p, book, key))
           /\ Records(p, book, key) \subseteq SourceRows(book)
<1>1. Len(book.rows) \in Nat
  BY DEF Book
<1>2. IsFiniteSet(1..Len(book.rows))
  BY <1>1, FS_Interval
<1>3. Records(p, book, key) \subseteq 1..Len(book.rows)
  BY RecordsAreRows
<1>4. IsFiniteSet(Records(p, book, key))
  BY <1>2, <1>3, FS_Subset
<1>5. DOMAIN ReadDataSource(p, book).keys = SourceRows(book)
  BY DEF Platform, ReadDataSource, JuliangReadDataSource, GdtReadDataSource,
         HonorReadDataSource, UcReadDataSource, KsReadDataSource, ByCampaign
<1> QED BY <1>1, <1>3, <1>4, <1>5 DEF Records

LEMMA RankPositive ==
    ASSUME NEW S \in SUBSET Nat, IsFiniteSet(S), NEW i \in S
    PROVE  RankIn(S, i) \in Nat /\ RankIn(S, i) > 0
<1> DEFINE A == {k \in S : k <= i}
<1>1. IsFiniteSet(A) /\ i \in A
  BY FS_Subset
<1>2. Cardinality(A) # 0 /\ Cardinality(A) \in Nat
  BY <1>1, FS_EmptySet, FS_CardinalityType
<1> QED BY <1>2 DEF RankIn

\* What is read from the two workbooks stays while they stay.
LEMMA BooksSame ==
    ASSUME NEW r, upload'[r] = upload[r], source'[r] = source[r],
           clicks'[r] = clicks[r]
    PROVE  /\ ClickList(r)' = ClickList(r)
           /\ \A c : Slice(r, c)' = Slice(r, c)
           /\ \A j : ClickSlice(r, j)' = ClickSlice(r, j)
           /\ \A j : Wanted(r, j)' = Wanted(r, j)
           /\ \A j : ToSend(r, j)' = ToSend(r, j)
           /\ \A i : Asking(r, i)' = Asking(r, i)
<1>1. ClickList(r)' = ClickList(r)
  BY DEF ClickList
<1>2. \A c : Slice(r, c)' = Slice(r, c)
  BY DEF Slice
<1>3. \A j : ToSend(r, j)' = ToSend(r, j)
  BY <1>1 DEF ToSend
<1>4. \A j : ClickSlice(r, j)' = ClickSlice(r, j)
  BY <1>1, <1>2 DEF ClickSlice
<1>5. \A i : Asking(r, i)' = Asking(r, i)
  BY <1>1 DEF Asking
<1> QED BY <1>1, <1>2, <1>3, <1>4, <1>5 DEF Wanted

\* What is counted in the callbacks stays while they stay.
LEMMA SentSame ==
    ASSUME NEW r, sent'[r] = sent[r]
    PROVE  /\ \A j : SentFor(r, j)' = SentFor(r, j)
           /\ \A i : TimesSent(r, i)' = TimesSent(r, i)
           /\ MadeCalls(r)' = MadeCalls(r)
           /\ OkCalls(r)' = OkCalls(r)
           /\ Once(r)' <=> Once(r)
BY DEF SentFor, TimesSent, MadeCalls, OkCalls, Once

SameCalls(r) ==
    /\ total'[r] = total[r] /\ success'[r] = success[r]
    /\ failed'[r] = failed[r] /\ details'[r] = details[r]
    /\ sent'[r] = sent[r] /\ reply'[r] = reply[r]

\* A request whose data stay keeps its invariant, also when it is lost.
LEMMA CallsKept ==
    ASSUME NEW r \in Request, CallInv(r), SameCalls(r),
           upload'[r] = upload[r], source'[r] = source[r],
           clicks'[r] = clicks[r], row'[r] = row[r],
           pc'[r] = pc[r] \/ (pc'[r] = "lost" /\ pc[r] # "replied")
    PROVE  CallInv(r)'
<1> USE BooksSame, SentSame DEF CallInv, SameCalls
<1>1. Untouched(r)'
  BY DEF Untouched, Before
<1>2. Counted(r)'
  BY DEF Counted
<1>3. Belongs(r)' /\ Once(r)'
  BY DEF Belongs
<1>5. ASSUME pc[r] = pc'[r] PROVE \A j : Past(r, j)' <=> Past(r, j)
  BY <1>5 DEF Past
<1>6. Progress(r)'
  <2>1. CASE pc'[r] = pc[r]
    BY <1>5, <2>1 DEF Progress
  <2>2. CASE pc'[r] = "lost"
    BY <2>2 DEF Progress, Looping
  <2> QED BY <2>1, <2>2
<1>7. DetailClicks(r)' = DetailClicks(r) /\ (DetailsTrue(r)' <=> DetailsTrue(r))
  BY DEF DetailClicks, DetailsTrue, DetailTrue
<1>8. Detailed(r)'
  <2>1. CASE pc'[r] = pc[r]
    BY <1>5, <1>7, <2>1 DEF Detailed
  <2>2. CASE pc'[r] = "lost"
    BY <2>2 DEF Detailed, Looping
  <2> QED BY <2>1, <2>2
<1>9. Reported(r)'
  BY DEF Reported, Echo
<1>10. Answered(r, 200)' <=> Answered(r, 200)
  BY DEF Answered
<1>11. SendsAll(r)'
  BY <1>10 DEF SendsAll
<1>12. DetailsAll(r)'
  BY <1>7, <1>10 DEF DetailsAll
<1> QED BY <1>1, <1>2, <1>3, <1>6, <1>8, <1>9, <1>11, <1>12

\* An answer and the counters it repeats.
LEMMA AnswerFacts ==
    ASSUME TypeOK, NEW r \in Request, NEW status, Answer(r, status),
           total'[r] = total[r], success'[r] = success[r], failed'[r] = failed[r]
    PROVE  /\ pc'[r] = "replied"
           /\ reply'[r].status = status
           /\ Echo(r)'
BY DEF TypeOK, Answer, Echo

\* Steps before the loop, the one that enters it included: nothing is sent.
LEMMA EarlyCalls ==
    ASSUME TypeInv, TypeInv', NEW r \in Request, CallInv(r), pc[r] \in Before,
           row'[r] = row[r], total'[r] = total[r], success'[r] = success[r],
           failed'[r] = failed[r], details'[r] = details[r], sent'[r] = sent[r],
           \/ reply'[r] = reply[r] /\ pc'[r] \in Before \cup {"loop"}
           \/ Answer(r, 400) \/ Answer(r, 500)
    PROVE  CallInv(r)'
<1> USE DEF CallInv, TypeInv
<1>1. /\ sent[r] = <<>> /\ sent'[r] = <<>> /\ details'[r] = <<>> /\ row'[r] = 0
      /\ reply[r] = None
  BY DEF Untouched, Before
<1>2. \/ reply'[r] = None /\ pc'[r] \in Before \cup {"loop"}
      \/ pc'[r] = "replied" /\ reply'[r].status # 200 /\ Echo(r)'
  BY <1>1, AnswerFacts
<1>3. ~Answered(r, 200)'
  BY <1>2 DEF Answered
<1>4. Untouched(r)'
  BY <1>1, <1>2 DEF Untouched, Before
<1>5. Counted(r)'
  BY SentSame DEF Counted
<1>6. Belongs(r)' /\ Once(r)' /\ MadeCalls(r)' = {} /\ \A j : SentFor(r, j)' = 0
  BY <1>1, FS_EmptySet DEF Belongs, Once, MadeCalls, SentFor
<1>7. Reported(r)'
  BY <1>1, <1>2 DEF Reported
<1>8. ASSUME pc'[r] = "loop"
      PROVE  /\ DOMAIN ClickList(r)' \in SUBSET (Nat \ {0})
             /\ upload'[r].platform \in Platform /\ source'[r] \in Book
  <2>1. upload'[r].platform \in Platform /\ source'[r] \in Book /\ clicks'[r] \in Book
    BY <1>8 DEF Holds, Upload
  <2> QED BY <2>1, ClickListType DEF ClickList
<1>9. Progress(r)'
  <2> SUFFICES ASSUME pc'[r] \in Looping, NEW j \in DOMAIN ClickList(r)'
               PROVE  /\ Past(r, j)' => SentFor(r, j)' = Wanted(r, j)'
                      /\ j = row'[r] => SentFor(r, j)' <= Wanted(r, j)'
                      /\ j > row'[r] => SentFor(r, j)' = 0
                      /\ \A i \in ClickSlice(r, j)' :
                            <<i, j>> \in MadeCalls(r)'
                               <=> RankIn(ClickSlice(r, j)', i) <= SentFor(r, j)'
    BY DEF Progress
  <2>1. pc'[r] = "loop"
    BY <1>2 DEF Looping, Before
  <2>2. j \in Nat \ {0}
    BY <1>8, <2>1
  <2>3. ASSUME NEW i \in ClickSlice(r, j)'
        PROVE  ~(RankIn(ClickSlice(r, j)', i) <= SentFor(r, j)')
    <3>1. ClickSlice(r, j)' \in SUBSET Nat /\ IsFiniteSet(ClickSlice(r, j)')
      BY <1>8, <2>1, SliceFacts DEF ClickSlice, Slice
    <3>2. RankIn(ClickSlice(r, j)', i) \in Nat /\ RankIn(ClickSlice(r, j)', i) > 0
      BY <2>3, <3>1, RankPositive
    <3> QED BY <1>6, <3>2
  <2>4. ~Past(r, j)' /\ j # row'[r]
    BY <1>1, <2>2 DEF Past
  <2> QED BY <1>6, <2>3, <2>4
<1>10. Detailed(r)'
  <2> SUFFICES ASSUME pc'[r] = "loop"
               PROVE  DetailClicks(r)' = {j \in DOMAIN ClickList(r)' : Past(r, j)'}
                      /\ DetailsTrue(r)'
    BY <1>2 DEF Detailed, Looping, Before
  <2>1. DetailClicks(r)' = {} /\ DetailsTrue(r)'
    BY <1>1 DEF DetailClicks, DetailsTrue
  <2>2. \A j \in DOMAIN ClickList(r)' : ~Past(r, j)'
    BY <1>1, <1>8 DEF Past
  <2> QED BY <2>1, <2>2
<1> QED BY <1>3, <1>4, <1>5, <1>6, <1>7, <1>9, <1>10 DEF SendsAll, DetailsAll

-----------------------------------------------------------------------------
(***************************************************************************)
(* The steps of the loop.                                                  *)
(***************************************************************************)
\* A detail for the next click row, with as many calls as were made for it.
LEMMA AddDetailCalls ==
    ASSUME TypeOK, NEW r \in Request, sent'[r] = sent[r], DetailsTrue(r),
           NEW j \in Nat, \A k \in DetailClicks(r) : k < j,
           NEW status \in {"skipped", "completed"}, NEW executed \in Int,
           SentFor(r, j) = IF executed > 0 THEN executed ELSE 0,
           AddDetail(r, j, status, executed)
    PROVE  DetailClicks(r)' = DetailClicks(r) \cup {j} /\ DetailsTrue(r)'
<1> DEFINE x == [click |-> j, status |-> status, executed |-> executed]
           last == Len(details[r]) + 1
<1>1. details[r] \in Seq(Detail) /\ x \in Detail
  BY DEF TypeOK, Detail
<1>2. details'[r] = Append(details[r], x)
  BY DEF TypeOK, AddDetail
<1>3. /\ DOMAIN details[r] = 1..Len(details[r]) /\ Len(details[r]) \in Nat
      /\ DOMAIN details'[r] = DOMAIN details[r] \cup {last}
      /\ last \notin DOMAIN details[r] /\ details'[r][last] = x
      /\ \A n \in DOMAIN details[r] : details'[r][n] = details[r][n] /\ n < last
  BY <1>1, <1>2
<1>4. DetailClicks(r)' = DetailClicks(r) \cup {j}
  BY <1>3 DEF DetailClicks
<1>5. \A n \in DOMAIN details[r] : details[r][n].click < j
  BY DEF DetailClicks
<1>6. ASSUME NEW m \in DOMAIN details'[r], NEW n \in DOMAIN details'[r], m < n
      PROVE  details'[r][m].click < details'[r][n].click
  <2>1. m \in DOMAIN details[r]
    BY <1>3, <1>6
  <2> QED BY <1>3, <1>5, <1>6, <2>1 DEF DetailsTrue
<1>7. \A d : DetailTrue(r, d)' <=> DetailTrue(r, d)
  BY SentSame DEF DetailTrue
<1>8. DetailTrue(r, x)
  BY DEF DetailTrue
<1>9. ASSUME NEW n \in DOMAIN details'[r] PROVE DetailTrue(r, details'[r][n])
  BY <1>3, <1>8 DEF DetailsTrue
<1>10. \A n \in DOMAIN details'[r] : DetailTrue(r, details[r][n])'
  BY <1>7, <1>9
<1> QED BY <1>4, <1>6, <1>10 DEF DetailsTrue

LEMMA TakeRowCalls ==
    ASSUME TypeInv, NEW r \in Request, CallInv(r), TakeRow(r)
    PROVE  CallInv(r)'
<1> USE DEF CallInv
<1> DEFINE j == Least(Pending(r))
           D == DOMAIN ClickList(r)
<1>0. TypeOK
  BY DEF TypeInv
<1>1. pc[r] = "loop" /\ row[r] \in Nat /\ Pending(r) # {} /\ D \in SUBSET (Nat \ {0})
  BY <1>0, LoopFacts DEF TakeRow, TypeOK
<1>2. j \in D /\ j > row[r] /\ \A k \in D : k <= row[r] \/ k >= j
  <2>1. Pending(r) \in SUBSET Nat
    BY <1>1 DEF Pending
  <2>2. j \in Pending(r) /\ \A k \in Pending(r) : j <= k
    BY <1>1, <2>1, LeastIsLeast
  <2> QED BY <1>1, <2>2 DEF Pending
<1> HIDE DEF j
<1>3. /\ row'[r] = j
      /\ upload'[r] = upload[r] /\ source'[r] = source[r] /\ clicks'[r] = clicks[r]
      /\ total'[r] = total[r] /\ success'[r] = success[r] /\ failed'[r] = failed[r]
      /\ sent'[r] = sent[r] /\ reply'[r] = reply[r]
  BY <1>0 DEF TakeRow, TypeOK, Goto, j
<1>4. \/ /\ ClickSlice(r, j) = {} /\ AddDetail(r, j, "skipped", 0)
         /\ pc'[r] = "loop"
      \/ details'[r] = details[r] /\ pc'[r] = "send"
  BY <1>0, <1>1 DEF TakeRow, TypeOK, Goto, j, ClickSlice
<1>5. \A k \in D : Past(r, k) <=> k < j
  BY <1>1, <1>2 DEF Past
<1>6. \A k \in D : Past(r, k)' <=> Past(r, k) \/ (k = j /\ pc'[r] = "loop")
  BY <1>3, <1>4, <1>5 DEF Past
<1>7. Untouched(r)' /\ Counted(r)' /\ Belongs(r)' /\ Once(r)'
  BY <1>1, <1>3, <1>4, BooksSame, SentSame
     DEF Untouched, Before, Counted, Belongs
<1>8. SentFor(r, j) = 0 /\ reply[r] = None
  BY <1>1, <1>2 DEF Progress, Looping, Untouched
<1>9. Wanted(r, j) \in Nat /\ (ClickSlice(r, j) = {} => Wanted(r, j) = 0)
  <2>1. ToSend(r, j) \in Int
    BY <1>1, <1>2, LoopFacts
  <2>2. clicks[r] \in Book /\ upload[r].platform \in Platform
    BY <1>1, LoopFacts
  <2>3. ClickList(r)[j].count \in Int
    BY <1>2, <2>2, ClickListType DEF ClickList
  <2>4. ClickSlice(r, j) = {} => ~(ToSend(r, j) > 0)
    BY <2>3, FS_EmptySet DEF ClickSlice, Slice, ToSend, Executed
  <2> QED BY <2>1, <2>4 DEF Wanted
<1>10. Progress(r)'
  <2> SUFFICES ASSUME NEW k \in D
               PROVE  /\ Past(r, k)' => SentFor(r, k) = Wanted(r, k)
                      /\ k = j => SentFor(r, k) <= Wanted(r, k)
                      /\ k > j => SentFor(r, k) = 0
                      /\ \A i \in ClickSlice(r, k) :
                            <<i, k>> \in MadeCalls(r)
                               <=> RankIn(ClickSlice(r, k), i) <= SentFor(r, k)
    BY <1>3, BooksSame, SentSame DEF Progress
  <2>1. /\ Past(r, k) => SentFor(r, k) = Wanted(r, k)
        /\ k > row[r] => SentFor(r, k) = 0
        /\ \A i \in ClickSlice(r, k) :
              <<i, k>> \in MadeCalls(r)
                 <=> RankIn(ClickSlice(r, k), i) <= SentFor(r, k)
    BY <1>1 DEF Progress, Looping
  <2>2. k > j => k > row[r]
    BY <1>1, <1>2
  <2>3. Past(r, k)' => SentFor(r, k) = Wanted(r, k)
    BY <1>4, <1>6, <1>8, <1>9, <2>1
  <2>4. k = j => SentFor(r, k) <= Wanted(r, k)
    BY <1>8, <1>9
  <2> QED BY <2>1, <2>2, <2>3, <2>4
<1>11. DetailClicks(r) = {k \in D : Past(r, k)} /\ DetailsTrue(r)
  BY <1>1 DEF Detailed, Looping
<1>12. Detailed(r)'
  <2> SUFFICES DetailClicks(r)' = {k \in D : Past(r, k)'} /\ DetailsTrue(r)'
    BY <1>3, BooksSame DEF Detailed
  <2>1. CASE pc'[r] = "loop"
    <3>1. DetailClicks(r)' = DetailClicks(r) \cup {j} /\ DetailsTrue(r)'
      <4>1. \A k \in DetailClicks(r) : k < j
        BY <1>5, <1>11
      <4>2. j \in Nat /\ SentFor(r, j) = IF 0 > 0 THEN 0 ELSE 0
        BY <1>1, <1>2, <1>8
      <4>3. AddDetail(r, j, "skipped", 0)
        BY <1>4, <2>1
      <4> QED BY <1>0, <1>3, <1>11, <4>1, <4>2, <4>3, AddDetailCalls
    <3> QED BY <1>2, <1>6, <1>11, <2>1, <3>1
  <2>2. CASE pc'[r] = "send" /\ details'[r] = details[r]
    <3>1. DetailClicks(r)' = DetailClicks(r) /\ (DetailsTrue(r)' <=> DetailsTrue(r))
      BY <1>3, <2>2, SentSame DEF DetailClicks, DetailsTrue, DetailTrue
    <3> QED BY <1>6, <1>11, <2>2, <3>1
  <2> QED BY <1>4, <2>1, <2>2
<1>13. reply'[r] = None
  BY <1>3, <1>8
<1> QED BY <1>7, <1>10, <1>12, <1>13 DEF Reported, SendsAll, DetailsAll, Answered

\* One more callback: for the first record of the slice not sent so far.
LEMMA SendRecordFacts ==
    ASSUME TypeInv, NEW r \in Request, CallInv(r), SendRecord(r)
    PROVE  \E x \in Sent :
             /\ x.click = row[r] /\ x.row \in ClickSlice(r, row[r])
             /\ RankIn(ClickSlice(r, row[r]), x.row) = SentFor(r, row[r]) + 1
             /\ x.ok => x.accepted
             /\ sent'[r] = Append(sent[r], x)
             /\ total'[r] = total[r] + 1
             /\ x.ok => success'[r] = success[r] + 1 /\ failed'[r] = failed[r]
             /\ ~x.ok => success'[r] = success[r] /\ failed'[r] = failed[r] + 1
<1> DEFINE j == row[r]
<1>0. TypeOK /\ pc[r] = "send" /\ j \in Nat
  BY DEF TypeInv, TypeOK, SendRecord
<1>1. PICK i \in Slice(r, ClickList(r)[j]),
           o \in CallbackOutcomes(upload[r].platform) :
        /\ IsNth(Slice(r, ClickList(r)[j]), i, SentFor(r, j) + 1)
        /\ sent' = [sent EXCEPT ![r] = Append(@,
                       [row |-> i, click |-> j,
                        accepted |-> o.accepted, ok |-> o.ok])]
        /\ total' = [total EXCEPT ![r] = @ + 1]
        /\ success' = IF o.ok THEN [success EXCEPT ![r] = @ + 1] ELSE success
        /\ failed' = IF o.ok THEN failed ELSE [failed EXCEPT ![r] = @ + 1]
  BY DEF SendRecord
<1> DEFINE x == [row |-> i, click |-> j, accepted |-> o.accepted, ok |-> o.ok]
<1>2. i \in Nat
  BY <1>0, LoopFacts
<1>3. o \in Outcome /\ (o.ok => o.accepted)
  BY <1>0, LoopFacts, OutcomesAreHttp DEF HttpGet
<1>4. x \in Sent
  BY <1>0, <1>2, <1>3 DEF Sent, Outcome
<1>5. x.click = j /\ x.row = i /\ (x.ok <=> o.ok) /\ (x.accepted <=> o.accepted)
  OBVIOUS
<1>6. sent'[r] = Append(sent[r], x) /\ total'[r] = total[r] + 1
  BY <1>0, <1>1 DEF TypeOK
<1>7. o.ok => success'[r] = success[r] + 1 /\ failed'[r] = failed[r]
  BY <1>0, <1>1 DEF TypeOK
<1>8. ~o.ok => success'[r] = success[r] /\ failed'[r] = failed[r] + 1
  BY <1>0, <1>1 DEF TypeOK
<1>9. RankIn(ClickSlice(r, j), i) = SentFor(r, j) + 1 /\ i \in ClickSlice(r, j)
  BY <1>1 DEF IsNth, RankIn, ClickSlice
<1> HIDE DEF x
<1> QED BY <1>3, <1>4, <1>5, <1>6, <1>7, <1>8, <1>9

LEMMA SendRecordCalls ==
    ASSUME TypeInv, NEW r \in Request, CallInv(r), SendRecord(r),
           NEW j \in Nat, row[r] = j
    PROVE  CallInv(r)'
<1> USE DEF CallInv
<1> DEFINE last == Len(sent[r]) + 1
           S == ClickSlice(r, j)
<1>0. TypeOK /\ pc[r] = "send" /\ sent[r] \in Seq(Sent) /\ row[r] = j
  BY DEF TypeInv, TypeOK, SendRecord
<1>1. PICK x \in Sent :
        /\ x.click = j /\ x.row \in S
        /\ RankIn(S, x.row) = SentFor(r, j) + 1
        /\ x.ok => x.accepted
        /\ sent'[r] = Append(sent[r], x)
        /\ total'[r] = total[r] + 1
        /\ x.ok => success'[r] = success[r] + 1 /\ failed'[r] = failed[r]
        /\ ~x.ok => success'[r] = success[r] /\ failed'[r] = failed[r] + 1
  BY SendRecordFacts
<1>2. /\ row'[r] = j /\ pc'[r] = "send" /\ details'[r] = details[r]
      /\ upload'[r] = upload[r] /\ source'[r] = source[r] /\ clicks'[r] = clicks[r]
      /\ reply'[r] = reply[r]
  BY <1>0 DEF SendRecord
<1>3. /\ Len(sent'[r]) = last /\ Len(sent[r]) \in Nat
      /\ DOMAIN sent'[r] = DOMAIN sent[r] \cup {last} /\ last \notin DOMAIN sent[r]
      /\ sent'[r][last] = x /\ \A n \in DOMAIN sent[r] : sent'[r][n] = sent[r][n]
  BY <1>0, <1>1, AppendSent
<1>4. /\ j \in DOMAIN ClickList(r) /\ DOMAIN ClickList(r) \in SUBSET (Nat \ {0})
      /\ S \in SUBSET Nat /\ IsFiniteSet(S)
  <2>1. upload[r].platform \in Platform /\ source[r] \in Book
    BY <1>0, LoopFacts
  <2> QED BY <1>0, <2>1, LoopFacts, SliceFacts DEF TypeInv, Holds, ClickSlice, Slice
<1>5. SentFor(r, j) \in Nat /\ SentFor(r, j)' = SentFor(r, j) + 1
  BY <1>0, <1>1, SentForType, SentForGrows
<1>6. \A k : k # j => SentFor(r, k)' = SentFor(r, k)
  BY <1>0, <1>1, SentForGrows
<1> HIDE DEF S, last
<1>7. MadeCalls(r)' = MadeCalls(r) \cup {<<x.row, j>>}
  BY <1>1, <1>3 DEF MadeCalls
<1>8. /\ SentFor(r, j) < ToSend(r, j) /\ ToSend(r, j) \in Int
      /\ Wanted(r, j) = ToSend(r, j)
  <2>1. SentFor(r, j) < ToSend(r, j) /\ ToSend(r, j) \in Int
    BY <1>0, <1>4, LoopFacts DEF SendRecord
  <2> QED BY <1>5, <2>1 DEF Wanted
<1>9. /\ \A k \in DOMAIN ClickList(r) :
           /\ Past(r, k) => SentFor(r, k) = Wanted(r, k)
           /\ k > j => SentFor(r, k) = 0
           /\ \A i \in ClickSlice(r, k) :
                 <<i, k>> \in MadeCalls(r)
                    <=> RankIn(ClickSlice(r, k), i) <= SentFor(r, k)
      /\ \A k : Past(r, k)' <=> Past(r, k)
  BY <1>0, <1>2 DEF Progress, Looping, Past
<1>10. <<x.row, j>> \notin MadeCalls(r)
  <2>1. ~(RankIn(S, x.row) <= SentFor(r, j))
    BY <1>1, <1>5
  <2> QED BY <1>1, <1>4, <1>9, <2>1 DEF S
<1>11. Untouched(r)'
  BY <1>0, <1>2 DEF Untouched, Before
<1>12. Counted(r)'
  <2>1. /\ Cardinality(OkCalls(r)') = IF x.ok THEN Cardinality(OkCalls(r)) + 1
                                             ELSE Cardinality(OkCalls(r))
        /\ Cardinality(OkCalls(r)) \in Nat
    BY <1>0, <1>1, OkCallsGrow
  <2>2. \A n \in DOMAIN sent'[r] : sent'[r][n].ok => sent'[r][n].accepted
    BY <1>1, <1>3 DEF Counted
  <2>3. total[r] \in Nat /\ success[r] \in Nat /\ failed[r] \in Nat
    BY <1>0 DEF TypeOK
  <2>4. total'[r] = Len(sent'[r])
    BY <1>1, <1>3 DEF Counted, last
  <2>5. success'[r] = Cardinality(OkCalls(r)')
    BY <1>1, <2>1 DEF Counted
  <2>6. failed'[r] = total'[r] - success'[r]
    BY <1>1, <2>3 DEF Counted
  <2> QED BY <2>2, <2>4, <2>5, <2>6 DEF Counted
<1>13. Belongs(r)'
  <2>1. /\ ClickList(r)' = ClickList(r)
        /\ \A k : ClickSlice(r, k)' = ClickSlice(r, k)
    BY <1>2, BooksSame
  <2>2. \A n \in DOMAIN sent'[r] :
          /\ sent'[r][n].click \in DOMAIN ClickList(r)
          /\ sent'[r][n].row \in ClickSlice(r, sent'[r][n].click)
    BY <1>1, <1>3, <1>4 DEF Belongs, S
  <2> QED BY <2>1, <2>2 DEF Belongs
<1>14. Once(r)'
  <2>1. \A n \in DOMAIN sent[r] : ~(sent[r][n].row = x.row /\ sent[r][n].click = j)
    BY <1>10 DEF MadeCalls
  <2> QED BY <1>1, <1>3, <2>1 DEF Once
<1>15. Progress(r)'
  <2> SUFFICES ASSUME NEW k \in DOMAIN ClickList(r)
               PROVE  /\ Past(r, k) => SentFor(r, k)' = Wanted(r, k)
                      /\ k = j => SentFor(r, k)' <= Wanted(r, k)
                      /\ k > j => SentFor(r, k)' = 0
                      /\ \A i \in ClickSlice(r, k) :
                            <<i, k>> \in MadeCalls(r)'
                               <=> RankIn(ClickSlice(r, k), i) <= SentFor(r, k)'
    BY <1>2, <1>9, BooksSame DEF Progress
  <2>1. CASE k # j
    BY <1>6, <1>7, <1>9, <2>1
  <2>2. CASE k = j
    <3>1. ~Past(r, k) /\ ~(k > j)
      BY <1>0, <1>4, <2>2 DEF Past
    <3>2. SentFor(r, k)' <= Wanted(r, k)
      BY <1>5, <1>8, <2>2
    <3>3. ASSUME NEW i \in S
          PROVE  <<i, j>> \in MadeCalls(r)' <=> RankIn(S, i) <= SentFor(r, j)'
      <4>1. RankIn(S, i) \in Nat /\ RankIn(S, x.row) \in Nat
        BY <1>1, <1>4, <3>3, RankType
      <4>2. i = x.row <=> RankIn(S, i) = RankIn(S, x.row)
        BY <1>1, <1>4, <3>3, RankInjective
      <4>3. <<i, j>> \in MadeCalls(r) <=> RankIn(S, i) <= SentFor(r, j)
        BY <1>4, <1>9, <3>3 DEF S
      <4>4. <<i, j>> \in MadeCalls(r)' <=> <<i, j>> \in MadeCalls(r) \/ i = x.row
        BY <1>7
      <4>5. RankIn(S, i) <= SentFor(r, j)'
              <=> RankIn(S, i) <= SentFor(r, j) \/ RankIn(S, i) = RankIn(S, x.row)
        BY <1>1, <1>5, <4>1
      <4> QED BY <4>2, <4>3, <4>4, <4>5
    <3> QED BY <2>2, <3>1, <3>2, <3>3 DEF S
  <2> QED BY <2>1, <2>2
<1>16. Detailed(r)'
  <2>1. DetailClicks(r) = {k \in DOMAIN ClickList(r) : Past(r, k)} /\ DetailsTrue(r)
    BY <1>0 DEF Detailed, Looping
  <2>2. ~Past(r, j)
    BY <1>0, <1>4 DEF Past
  <2>3. DetailClicks(r)' = {k \in DOMAIN ClickList(r)' : Past(r, k)'}
    BY <1>2, <1>9, <2>1, BooksSame DEF DetailClicks
  <2>4. \A n \in DOMAIN details[r] : details[r][n].click # j
    BY <2>1, <2>2 DEF DetailClicks
  <2>5. \A n \in DOMAIN details[r] : DetailTrue(r, details[r][n])'
    BY <1>2, <1>6, <2>1, <2>4 DEF DetailsTrue, DetailTrue
  <2>6. DetailsTrue(r)'
    BY <1>2, <2>1, <2>5 DEF DetailsTrue
  <2> QED BY <2>3, <2>6 DEF Detailed
<1>17. reply'[r] = None
  BY <1>0, <1>2 DEF Untouched
<1> QED BY <1>11, <1>12, <1>13, <1>14, <1>15, <1>16, <1>17
        DEF Reported, SendsAll, DetailsAll, Answered

\* The detail of a click row whose records are sent.
LEMMA CompleteRowCalls ==
    ASSUME TypeInv, NEW r \in Request, CallInv(r), CompleteRow(r),
           NEW j \in Nat, row[r] = j
    PROVE  CallInv(r)'
<1> USE DEF CallInv
<1> DEFINE D == DOMAIN ClickList(r)
<1>0. TypeOK /\ pc[r] = "send" /\ row[r] = j
  BY DEF TypeInv, CompleteRow
<1>1. j \in D /\ D \in SUBSET (Nat \ {0}) /\ ToSend(r, j) \in Int
  BY <1>0, LoopFacts DEF TypeInv, Holds
<1>2. /\ row'[r] = j /\ pc'[r] = "loop"
      /\ upload'[r] = upload[r] /\ source'[r] = source[r] /\ clicks'[r] = clicks[r]
      /\ total'[r] = total[r] /\ success'[r] = success[r] /\ failed'[r] = failed[r]
      /\ sent'[r] = sent[r] /\ reply'[r] = reply[r]
  BY <1>0 DEF CompleteRow, TypeOK, Goto
<1>3. SentFor(r, j) \in Nat
  BY <1>0, SentForType DEF TypeOK
<1>4. SentFor(r, j) >= ToSend(r, j) /\ AddDetail(r, j, "completed", ToSend(r, j))
  BY <1>0 DEF CompleteRow
<1>5. SentFor(r, j) = Wanted(r, j)
  <2>1. SentFor(r, j) <= Wanted(r, j)
    BY <1>0, <1>1 DEF Progress, Looping
  <2> QED BY <1>1, <1>3, <1>4, <2>1 DEF Wanted
<1>6. \A k \in D : Past(r, k) <=> k < j
  BY <1>0, <1>1 DEF Past
<1>7. \A k \in D : Past(r, k)' <=> Past(r, k) \/ k = j
  BY <1>0, <1>2 DEF Past
<1>8. Untouched(r)' /\ Counted(r)' /\ Belongs(r)' /\ Once(r)'
  BY <1>0, <1>2, BooksSame, SentSame DEF Untouched, Before, Counted, Belongs
<1>9. Progress(r)'
  <2> SUFFICES ASSUME NEW k \in D
               PROVE  /\ Past(r, k)' => SentFor(r, k) = Wanted(r, k)
                      /\ k = j => SentFor(r, k) <= Wanted(r, k)
                      /\ k > j => SentFor(r, k) = 0
                      /\ \A i \in ClickSlice(r, k) :
                            <<i, k>> \in MadeCalls(r)
                               <=> RankIn(ClickSlice(r, k), i) <= SentFor(r, k)
    BY <1>2, BooksSame, SentSame DEF Progress
  <2>1. /\ Past(r, k) => SentFor(r, k) = Wanted(r, k)
        /\ k = j => SentFor(r, k) <= Wanted(r, k)
        /\ k > j => SentFor(r, k) = 0
        /\ \A i \in ClickSlice(r, k) :
              <<i, k>> \in MadeCalls(r)
                 <=> RankIn(ClickSlice(r, k), i) <= SentFor(r, k)
    BY <1>0 DEF Progress, Looping
  <2>2. Past(r, k)' => SentFor(r, k) = Wanted(r, k)
    BY <1>5, <1>7, <2>1
  <2> QED BY <2>1, <2>2
<1>10. Detailed(r)'
  <2>1. DetailClicks(r) = {k \in D : Past(r, k)} /\ DetailsTrue(r)
    BY <1>0 DEF Detailed, Looping
  <2>2. \A k \in DetailClicks(r) : k < j
    BY <1>6, <2>1
  <2>3. SentFor(r, j) = IF ToSend(r, j) > 0 THEN ToSend(r, j) ELSE 0
    BY <1>5 DEF Wanted
  <2>4. DetailClicks(r)' = DetailClicks(r) \cup {j} /\ DetailsTrue(r)'
    BY <1>0, <1>1, <1>2, <1>4, <2>1, <2>2, <2>3, AddDetailCalls
  <2>5. DetailClicks(r)' = {k \in D : Past(r, k)'}
    BY <1>1, <1>7, <2>1, <2>4
  <2> QED BY <1>2, <2>4, <2>5, BooksSame DEF Detailed
<1>11. reply'[r] = None
  BY <1>0, <1>2 DEF Untouched
<1> QED BY <1>8, <1>9, <1>10, <1>11 DEF Reported, SendsAll, DetailsAll, Answered

-----------------------------------------------------------------------------
(***************************************************************************)
(* The end of the loop: the calls are those that the workbooks ask for.    *)
(***************************************************************************)
LEMMA SameSize ==
    ASSUME NEW S, NEW T, IsFiniteSet(S), NEW f \in [S -> T],
           \A a, b \in S : f[a] = f[b] => a = b,
           \A t \in T : \E a \in S : f[a] = t
    PROVE  Cardinality(S) = Cardinality(T)
<1>1. f \in Bijection(S, T)
  BY DEF Bijection, Injection, Surjection, IsInjective
<1>2. ExistsBijection(S, T)
  BY <1>1 DEF ExistsBijection
<1> QED BY <1>2, FS_Bijection

\* A row is one of the first in its slice that are wanted when the click count
\* reaches its rank.
LEMMA WantedByRank ==
    ASSUME TypeInv, NEW r \in Request, pc[r] \in Looping,
           NEW i \in SourceRows(source[r]), NEW j \in DOMAIN ClickList(r)
    PROVE  LET p == upload[r].platform
               S == ClickSlice(r, j)
           IN  /\ i \in S <=> ClickList(r)[j].ad = ReadDataSource(p, source[r]).keys[i]
               /\ i \in S => RankIn(S, i) = Rank(p, source[r], i)
               /\ i \in S => (ClickList(r)[j].count >= Rank(p, source[r], i)
                                <=> RankIn(S, i) <= Wanted(r, j))
<1> DEFINE p == upload[r].platform
           keys == ReadDataSource(p, source[r]).keys
           S == ClickSlice(r, j)
           count == ClickList(r)[j].count
<1>1. p \in Platform /\ source[r] \in Book /\ clicks[r] \in Book
  BY LoopFacts DEF Looping
<1>2. DOMAIN keys = SourceRows(source[r])
  BY <1>1 DEF Platform, ReadDataSource, JuliangReadDataSource, GdtReadDataSource,
         HonorReadDataSource, UcReadDataSource, KsReadDataSource, ByCampaign
<1>3. S = {k \in DOMAIN keys : keys[k] = ClickList(r)[j].ad}
  BY DEF ClickSlice, Slice, Records
<1>4. S \in SUBSET Nat /\ IsFiniteSet(S)
  BY <1>1, SliceFacts DEF ClickSlice, Slice
<1>5. count \in Int
  BY <1>1, ClickListType DEF ClickList
<1>6. Wanted(r, j) = LET n == IF count > Cardinality(S) THEN Cardinality(S) ELSE count
                     IN  IF n > 0 THEN n ELSE 0
  BY DEF Wanted, ToSend, Executed, ClickSlice, Slice
<1>7. i \in S <=> ClickList(r)[j].ad = keys[i]
  BY <1>2, <1>3
<1> HIDE DEF p, keys, count
<1>8. ASSUME i \in S
      PROVE  /\ RankIn(S, i) = Rank(p, source[r], i)
             /\ count >= Rank(p, source[r], i) <=> RankIn(S, i) <= Wanted(r, j)
  <2>1. {k \in S : k <= i} = {k \in DOMAIN keys : keys[k] = keys[i] /\ k <= i}
    BY <1>3, <1>7, <1>8
  <2>2. RankIn(S, i) = Rank(p, source[r], i)
    BY <2>1 DEF RankIn, Rank, keys
  <2>3. /\ RankIn(S, i) \in Nat /\ RankIn(S, i) > 0
        /\ RankIn(S, i) <= Cardinality(S)
    BY <1>4, <1>8, RankPositive, RankType
  <2>4. Cardinality(S) \in Nat
    BY <1>4, FS_CardinalityType
  <2> HIDE DEF S
  <2> QED BY <1>5, <1>6, <2>2, <2>3, <2>4
<1> QED BY <1>7, <1>8 DEF p, keys, count

\* A call was made for exactly the click rows that ask for the row.
LEMMA CallsAsked ==
    ASSUME TypeInv, NEW r \in Request, CallInv(r), pc[r] = "loop", Pending(r) = {},
           NEW i \in SourceRows(source[r])
    PROVE  \A j : j \in Asking(r, i)
                    <=> j \in DOMAIN ClickList(r) /\ <<i, j>> \in MadeCalls(r)
<1> USE DEF CallInv
<1> SUFFICES ASSUME NEW j \in DOMAIN ClickList(r)
             PROVE  j \in Asking(r, i) <=> <<i, j>> \in MadeCalls(r)
  BY DEF Asking
<1> DEFINE S == ClickSlice(r, j)
<1>1. Past(r, j)
  <2>1. j \in Nat /\ row[r] \in Nat /\ ~(j > row[r])
    BY LoopFacts DEF Pending, TypeInv, TypeOK
  <2> QED BY <2>1 DEF Past
<1>2. /\ SentFor(r, j) = Wanted(r, j)
      /\ i \in S => (<<i, j>> \in MadeCalls(r) <=> RankIn(S, i) <= SentFor(r, j))
  BY <1>1 DEF Progress, Looping
<1>3. <<i, j>> \in MadeCalls(r) => i \in S
  BY DEF MadeCalls, Belongs
<1>4. /\ i \in S <=> ClickList(r)[j].ad = ReadDataSource(upload[r].platform, source[r]).keys[i]
      /\ i \in S => (ClickList(r)[j].count >= Rank(upload[r].platform, source[r], i)
                       <=> RankIn(S, i) <= Wanted(r, j))
  BY WantedByRank DEF Looping
<1>5. j \in Asking(r, i) <=>
         i \in S /\ ClickList(r)[j].count >= Rank(upload[r].platform, source[r], i)
  BY <1>4 DEF Asking
<1> QED BY <1>2, <1>3, <1>4, <1>5

\* Hence a record was sent as often as click rows ask for it.
LEMMA TimesAsked ==
    ASSUME TypeInv, NEW r \in Request, CallInv(r), pc[r] = "loop", Pending(r) = {},
           NEW i \in SourceRows(source[r])
    PROVE  TimesSent(r, i) = Cardinality(Asking(r, i))
<1> USE DEF CallInv
<1> DEFINE N == {n \in DOMAIN sent[r] : sent[r][n].row = i}
           f == [n \in N |-> sent[r][n].click]
<1>1. IsFiniteSet(N)
  <2>1. sent[r] \in Seq(Sent)
    BY DEF TypeInv, TypeOK
  <2>2. IsFiniteSet(1..Len(sent[r])) /\ DOMAIN sent[r] = 1..Len(sent[r])
    BY <2>1, FS_Interval
  <2> QED BY <2>2, FS_Subset
<1>2. f \in [N -> Asking(r, i)]
  <2> SUFFICES ASSUME NEW n \in N PROVE sent[r][n].click \in Asking(r, i)
    OBVIOUS
  <2>1. sent[r][n].click \in DOMAIN ClickList(r)
    BY DEF Belongs
  <2>2. <<i, sent[r][n].click>> \in MadeCalls(r)
    BY DEF MadeCalls
  <2> QED BY <2>1, <2>2, CallsAsked
<1>3. \A m, n \in N : f[m] = f[n] => m = n
  BY DEF Once
<1>4. ASSUME NEW j \in Asking(r, i) PROVE \E n \in N : f[n] = j
  <2>1. <<i, j>> \in MadeCalls(r)
    BY <1>4, CallsAsked
  <2> QED BY <2>1 DEF MadeCalls
<1> HIDE DEF N, f
<1>5. Cardinality(N) = Cardinality(Asking(r, i))
  BY <1>1, <1>2, <1>3, <1>4, SameSize
<1> QED BY <1>5 DEF TimesSent, N

LEMMA FinishCalls ==
    ASSUME TypeInv, NEW r \in Request, CallInv(r), Finish(r)
    PROVE  CallInv(r)'
<1> USE DEF CallInv
<1>0. TypeOK /\ pc[r] = "loop" /\ Pending(r) = {}
  BY DEF TypeInv, Finish
<1>1. /\ row'[r] = row[r] /\ details'[r] = details[r] /\ sent'[r] = sent[r]
      /\ upload'[r] = upload[r] /\ source'[r] = source[r] /\ clicks'[r] = clicks[r]
      /\ total'[r] = total[r] /\ success'[r] = success[r] /\ failed'[r] = failed[r]
      /\ Answer(r, 200)
  BY DEF Finish
<1>2. pc'[r] = "replied" /\ reply'[r].status = 200 /\ Echo(r)'
  BY <1>0, <1>1, AnswerFacts
<1>3. Untouched(r)' /\ Counted(r)' /\ Belongs(r)' /\ Once(r)' /\ Reported(r)'
  BY <1>1, <1>2, BooksSame, SentSame DEF Untouched, Before, Counted, Belongs, Reported
<1>4. Progress(r)' /\ Detailed(r)'
  BY <1>2 DEF Progress, Detailed, Looping
<1>5. \A n \in DOMAIN sent[r] : sent[r][n].row \in SourceRows(source[r])
  <2>1. upload[r].platform \in Platform /\ source[r] \in Book
    BY <1>0, LoopFacts
  <2> QED BY <2>1, SliceFacts DEF Belongs, ClickSlice, Slice
<1>6. \A i \in SourceRows(source[r]) : TimesSent(r, i) = Cardinality(Asking(r, i))
  BY <1>0, TimesAsked
<1>7. SendsAll(r)'
  BY <1>1, <1>5, <1>6, BooksSame, SentSame DEF SendsAll
<1>8. DetailClicks(r) = DOMAIN ClickList(r) /\ DetailsTrue(r)
  <2>1. \A j \in DOMAIN ClickList(r) : Past(r, j)
    <3>1. DOMAIN ClickList(r) \in SUBSET (Nat \ {0}) /\ row[r] \in Nat
      BY <1>0, LoopFacts DEF TypeOK
    <3>2. \A j \in DOMAIN ClickList(r) : ~(j > row[r])
      BY <1>0 DEF Pending
    <3> QED BY <1>0, <3>1, <3>2 DEF Past
  <2> QED BY <1>0, <2>1 DEF Detailed, Looping
<1>9. DetailsAll(r)'
  <2>1. DetailClicks(r)' = DetailClicks(r) /\ (DetailsTrue(r)' <=> DetailsTrue(r))
    BY <1>1, SentSame DEF DetailClicks, DetailsTrue, DetailTrue
  <2> QED BY <1>1, <1>8, <2>1, BooksSame DEF DetailsAll
<1> QED BY <1>3, <1>4, <1>7, <1>9

-----------------------------------------------------------------------------
(***************************************************************************)
(* Every step keeps the invariant.                                         *)
(***************************************************************************)
LEMMA InitPromise == Init => PromiseInv
<1> SUFFICES ASSUME Init PROVE PromiseInv
  OBVIOUS
<1>1. OwnInv
  BY InitOwn
<1>2. ASSUME NEW r \in Request PROVE CallInv(r)
  <2>1. /\ pc[r] = "idle" /\ row[r] = 0 /\ total[r] = 0 /\ success[r] = 0
        /\ failed[r] = 0 /\ details[r] = <<>> /\ sent[r] = <<>> /\ reply[r] = None
    BY DEF Init
  <2>2. OkCalls(r) = {}
    BY <2>1 DEF OkCalls
  <2>3. Counted(r)
    BY <2>1, <2>2, FS_EmptySet DEF Counted
  <2> QED BY <2>1, <2>3 DEF CallInv, Untouched, Before, Looping, Belongs, Once,
          Progress, Detailed, Reported, SendsAll, DetailsAll, Answered
<1> QED BY <1>1, <1>2 DEF PromiseInv

\* A handler keeps the calls of every other request.
LEMMA CallFrame ==
    ASSUME TypeOK, NEW r \in Request, NEW q \in Request \ {r},
           Receive(r) \/ UploadExcelFiles(r) \/ ProcessExcelAndCallback(r)
    PROVE  SameCalls(q)
<1> USE DEF TypeOK, SameCalls, Goto, Answer
<1>1. CASE Receive(r)
  BY <1>1 DEF Receive
<1>2. CASE ParseForm(r)
  BY <1>2 DEF ParseForm
<1>3. CASE CreateFile(r)
  BY <1>3 DEF CreateFile
<1>4. CASE CopyFile(r)
  BY <1>4 DEF CopyFile
<1>5. CASE ReadSource(r)
  BY <1>5 DEF ReadSource
<1>6. CASE ReadClicks(r)
  BY <1>6 DEF ReadClicks
<1>7. CASE TakeRow(r)
  BY <1>7 DEF TakeRow, AddDetail
<1>8. CASE SendRecord(r)
  BY <1>8 DEF SendRecord
<1>9. CASE CompleteRow(r)
  BY <1>9 DEF CompleteRow, AddDetail
<1>10. CASE Finish(r)
  BY <1>10 DEF Finish
<1> QED BY <1>1, <1>2, <1>3, <1>4, <1>5, <1>6, <1>7, <1>8, <1>9, <1>10
        DEF UploadExcelFiles, ProcessExcelAndCallback

\* The steps of a handler before its loop.
LEMMA EarlySteps ==
    ASSUME TypeInv, NEW r \in Request,
           \/ Receive(r) \/ ParseForm(r) \/ CreateFile(r) \/ CopyFile(r)
           \/ ReadSource(r) \/ ReadClicks(r)
    PROVE  /\ pc[r] \in Before
           /\ row'[r] = row[r] /\ total'[r] = total[r] /\ success'[r] = success[r]
           /\ failed'[r] = failed[r] /\ details'[r] = details[r]
           /\ sent'[r] = sent[r]
           /\ \/ reply'[r] = reply[r] /\ pc'[r] \in Before \cup {"loop"}
              \/ Answer(r, 400) \/ Answer(r, 500)
<1>0. TypeOK
  BY DEF TypeInv
<1>1. ASSUME NEW label, Goto(r, label)
      PROVE  reply'[r] = reply[r] /\ pc'[r] = label
  BY <1>0, <1>1 DEF Goto, TypeOK
<1>2. CASE Receive(r)
  BY <1>1, <1>2 DEF Receive, Before
<1>3. CASE ParseForm(r)
  BY <1>1, <1>3 DEF ParseForm, Before
<1>4. CASE CreateFile(r)
  BY <1>1, <1>4 DEF CreateFile, Before
<1>5. CASE CopyFile(r)
  BY <1>1, <1>5 DEF CopyFile, Before
<1>6. CASE ReadSource(r)
  BY <1>1, <1>6 DEF ReadSource, Before
<1>7. CASE ReadClicks(r)
  BY <1>1, <1>7 DEF ReadClicks, Before
<1> QED BY <1>2, <1>3, <1>4, <1>5, <1>6, <1>7

LEMMA StepCalls ==
    ASSUME TypeInv, TypeInv', NEW r \in Request, CallInv(r),
           Receive(r) \/ UploadExcelFiles(r) \/ ProcessExcelAndCallback(r)
    PROVE  CallInv(r)'
<1>1. row[r] \in Nat
  BY DEF TypeInv, TypeOK
<1>2. CASE \/ Receive(r) \/ ParseForm(r) \/ CreateFile(r) \/ CopyFile(r)
           \/ ReadSource(r) \/ ReadClicks(r)
  BY <1>2, EarlySteps, EarlyCalls
<1>3. CASE TakeRow(r)
  BY <1>3, TakeRowCalls
<1>4. CASE SendRecord(r)
  BY <1>1, <1>4, SendRecordCalls
<1>5. CASE CompleteRow(r)
  BY <1>1, <1>5, CompleteRowCalls
<1>6. CASE Finish(r)
  BY <1>6, FinishCalls
<1> QED BY <1>2, <1>3, <1>4, <1>5, <1>6
        DEF UploadExcelFiles, ProcessExcelAndCallback

LEMMA NextPromise == PromiseInv /\ [Next]_vars => PromiseInv'
<1> SUFFICES ASSUME PromiseInv, [Next]_vars PROVE PromiseInv'
  OBVIOUS
<1>0. OwnInv' /\ TypeInv /\ TypeInv' /\ TypeOK /\ \A r \in Request : CallInv(r)
  BY NextOwn DEF PromiseInv, OwnInv, TypeInv
<1>1. ASSUME NEW q \in Request,
             Receive(q) \/ UploadExcelFiles(q) \/ ProcessExcelAndCallback(q),
             NEW r \in Request
      PROVE  CallInv(r)'
  <2>1. CASE r = q
    BY <1>0, <1>1, <2>1, StepCalls
  <2>2. CASE r # q
    <3>1. SameCalls(r) /\ Same(r)
      BY <1>0, <1>1, <2>2, CallFrame, Frame
    <3> QED BY <1>0, <3>1, CallsKept DEF Same
  <2> QED BY <2>1, <2>2
<1>2. ASSUME NEW q \in Request, Handle(q)
      PROVE  UploadExcelFiles(q) \/ ProcessExcelAndCallback(q)
  BY <1>2, HandleCases
<1>3. ASSUME Crash \/ UNCHANGED vars, NEW r \in Request
      PROVE  CallInv(r)'
  <2>1. SameCalls(r) /\ upload'[r] = upload[r] /\ source'[r] = source[r]
        /\ clicks'[r] = clicks[r] /\ row'[r] = row[r]
    BY <1>3 DEF Crash, vars, request, SameCalls
  <2>2. pc'[r] = pc[r] \/ (pc'[r] = "lost" /\ pc[r] # "replied")
    BY <1>3 DEF Crash, vars, request
  <2> QED BY <1>0, <2>1, <2>2, CallsKept
<1>4. \A r \in Request : CallInv(r)'
  BY <1>1, <1>2, <1>3 DEF Next, Quiet
<1> QED BY <1>0, <1>4 DEF PromiseInv

LEMMA PromiseHolds == Spec => []PromiseInv
<1> QED BY InitPromise, NextPromise, PTL DEF Spec

-----------------------------------------------------------------------------
(***************************************************************************)
(* The theorems: for any requests, file names, workbooks and crashes.      *)
(***************************************************************************)
\* An answer of 200 means that each record of the data source was sent as
\* often as click rows ask for it, and nothing else was sent.
THEOREM SendsAsAsked == Spec => []SendsMatchSheets
<1>1. PromiseInv => SendsMatchSheets
  BY DEF PromiseInv, CallInv, SendsAll, SendsMatchSheets
<1> QED BY PromiseHolds, <1>1, PTL

\* A 200 comes with one detail for each click row, in the order of the sheet,
\* which together account for every call.
THEOREM DetailsComplete == Spec => []DetailsAccountForCalls
<1>1. PromiseInv => DetailsAccountForCalls
  BY DEF PromiseInv, CallInv, DetailsAll, DetailsTrue, DetailTrue, DetailClicks,
         DetailsAccountForCalls
<1> QED BY PromiseHolds, <1>1, PTL

\* The totals of an answer are those of the calls, and a success was accepted
\* by the platform.
THEOREM ReportTrue == Spec => []ReportMatchesCalls
<1> SUFFICES PromiseInv => ReportMatchesCalls
  BY PromiseHolds, PTL
<1> SUFFICES ASSUME PromiseInv, NEW r \in Request, reply[r] # None
             PROVE  LET accepted == {n \in DOMAIN sent[r] : sent[r][n].accepted}
                    IN  /\ reply[r].total = Len(sent[r])
                        /\ reply[r].success + reply[r].failed = reply[r].total
                        /\ reply[r].success <= Cardinality(accepted)
                        /\ reply[r].failed >= Len(sent[r]) - Cardinality(accepted)
  BY DEF ReportMatchesCalls
<1> DEFINE accepted == {n \in DOMAIN sent[r] : sent[r][n].accepted}
<1>1. Counted(r) /\ Reported(r) /\ TypeOK
  BY DEF PromiseInv, CallInv, OwnInv, TypeInv
<1>2. sent[r] \in Seq(Sent) /\ success[r] \in Nat
  BY <1>1 DEF TypeOK
<1>3. Len(sent[r]) \in Nat
  BY <1>2
<1>4. IsFiniteSet(accepted)
  <2>1. IsFiniteSet(1..Len(sent[r])) /\ DOMAIN sent[r] = 1..Len(sent[r])
    BY <1>2, FS_Interval
  <2> QED BY <2>1, FS_Subset
<1>5. Cardinality(OkCalls(r)) <= Cardinality(accepted)
  <2>1. OkCalls(r) \subseteq accepted
    BY <1>1 DEF Counted, OkCalls
  <2> QED BY <1>4, <2>1, FS_Subset
<1>6. Cardinality(accepted) \in Nat
  BY <1>4, FS_CardinalityType
<1>7. /\ reply[r].total = total[r] /\ reply[r].success = success[r]
      /\ reply[r].failed = failed[r]
  BY <1>1 DEF Reported, Echo
<1> HIDE DEF accepted
<1>8. /\ total[r] = Len(sent[r]) /\ success[r] <= Cardinality(accepted)
      /\ failed[r] = total[r] - success[r]
  BY <1>1, <1>5 DEF Counted
<1>9. /\ reply[r].success + reply[r].failed = reply[r].total
      /\ reply[r].failed >= Len(sent[r]) - Cardinality(accepted)
  BY <1>2, <1>3, <1>6, <1>7, <1>8
<1> QED BY <1>7, <1>8, <1>9 DEF accepted

\* An answer of 400 or 500 means that not one callback was made.
THEOREM ErrorSendsNothing == Spec => []ErrorMeansNothingSent
<1>1. PromiseInv => ErrorMeansNothingSent
  BY DEF PromiseInv, CallInv, Reported, Answered, ErrorMeansNothingSent
<1> QED BY PromiseHolds, <1>1, PTL

\* The ks handler sends a click row the records of its own advertisement.
THEOREM KsGroupsByAd == Spec => []KsSendsClickedAd
<1>1. ASSUME PromiseInv, NEW r \in Request, Serving(r, "ks"), NEW n \in DOMAIN sent[r]
      PROVE  AdOf(source[r], sent[r][n].row) = ClickList(r)[sent[r][n].click].ad
  <2>1. sent[r][n].row \in Slice(r, ClickList(r)[sent[r][n].click])
    BY <1>1 DEF PromiseInv, CallInv, Belongs, ClickSlice
  <2>2. ReadDataSource(upload[r].platform, source[r]).keys
           = [i \in SourceRows(source[r]) |-> AdOf(source[r], i)]
    BY <1>1 DEF Serving, ReadDataSource, KsReadDataSource
  <2> QED BY <2>1, <2>2 DEF Slice, Records
<1>2. PromiseInv => KsSendsClickedAd
  BY <1>1 DEF KsSendsClickedAd, SentForItsAd
<1> QED BY PromiseHolds, <1>2, PTL

-----------------------------------------------------------------------------
(***************************************************************************)
(* The promise.  A step of a handler is a step of the abstract upload or   *)
(* leaves it as it is; where the promise speaks of the client's own        *)
(* workbooks, OwnInv says that they are the ones that were read.           *)
(***************************************************************************)
LEMMA SameReaders ==
    /\ \A p, book : Promise!ReadDataSource(p, book) = ReadDataSource(p, book)
    /\ \A p, book : Promise!ReadClickData(p, book) = ReadClickData(p, book)
<1>1. \A S : Promise!Least(S) = Least(S)
  BY DEF Promise!Least, Least
<1>2. \A header, names :
         Promise!FindColumnIndex(header, names) = FindColumnIndex(header, names)
  BY <1>1 DEF Promise!FindColumnIndex, FindColumnIndex
<1>3. \A book, i, names :
         /\ Promise!Has(book, i, names) <=> Has(book, i, names)
         /\ Promise!Value(book, i, names) = Value(book, i, names)
  BY <1>2 DEF Promise!Has, Has, Promise!Value, Value
<1>4. \A book, i, names :
         Promise!ValueOrBlank(book, i, names) = ValueOrBlank(book, i, names)
  BY <1>3 DEF Promise!ValueOrBlank, ValueOrBlank, Promise!Blank, Blank
<1>5. \A c : Promise!Clean(c) = Clean(c) /\ (Promise!IsCount(c) <=> IsCount(c))
  BY DEF Promise!Clean, Clean, Promise!IsCount, IsCount
<1>6. \A book : Promise!SourceRows(book) = SourceRows(book)
  BY <1>3 DEF Promise!SourceRows, SourceRows, Promise!SourceColumns, SourceColumns
<1>7. \A book, names : Promise!LacksCell(book, names) = LacksCell(book, names)
  BY <1>3, <1>6 DEF Promise!LacksCell, LacksCell
<1>8. \A book : Promise!ByCampaign(book) = ByCampaign(book)
  BY <1>4, <1>6 DEF Promise!ByCampaign, ByCampaign
<1>9. \A book, i : Promise!AdOf(book, i) = AdOf(book, i)
  BY <1>3, <1>5 DEF Promise!AdOf, AdOf
<1>10. \A book : Promise!JuliangReadDataSource(book) = JuliangReadDataSource(book)
  BY <1>5, <1>6, <1>7, <1>8
     DEF Promise!JuliangReadDataSource, JuliangReadDataSource
<1>11. \A book : /\ Promise!GdtReadDataSource(book) = GdtReadDataSource(book)
                 /\ Promise!HonorReadDataSource(book) = HonorReadDataSource(book)
                 /\ Promise!UcReadDataSource(book) = UcReadDataSource(book)
  BY <1>7, <1>8 DEF Promise!GdtReadDataSource, GdtReadDataSource,
     Promise!HonorReadDataSource, HonorReadDataSource,
     Promise!UcReadDataSource, UcReadDataSource
<1>12. \A book : Promise!KsReadDataSource(book) = KsReadDataSource(book)
  BY <1>6, <1>9 DEF Promise!KsReadDataSource, KsReadDataSource
<1>13. \A p, book : Promise!ReadDataSource(p, book) = ReadDataSource(p, book)
  BY <1>10, <1>11, <1>12 DEF Promise!ReadDataSource, ReadDataSource
<1>14. \A book : Promise!JuliangReadClickData(book) = JuliangReadClickData(book)
  BY <1>3, <1>5 DEF Promise!JuliangReadClickData, JuliangReadClickData,
     Promise!ClickColumns, ClickColumns, Promise!AdNames, AdNames,
     Promise!CountNames, CountNames
<1>15. \A p, book : Promise!ReadClickData(p, book) = ReadClickData(p, book)
  BY <1>14 DEF Promise!ReadClickData, ReadClickData,
     Promise!GdtReadClickData, GdtReadClickData,
     Promise!HonorReadClickData, HonorReadClickData,
     Promise!UcReadClickData, UcReadClickData,
     Promise!KsReadClickData, KsReadClickData
<1> QED BY <1>13, <1>15

LEMMA SameCardinality == \A S : Promise!Cardinality(S) = Cardinality(S)
BY Zenon DEF Promise!Cardinality, Cardinality

PhaseOf(r) == IF pc[r] = "idle" THEN "new"
              ELSE IF pc[r] = "replied" THEN "answered"
              ELSE IF pc[r] = "lost" THEN "lost" ELSE "working"

\* A request that was not made yet has met nobody.
Unmet == \A r \in Request : pc[r] = "idle" => met[r] = {}

\* The calls that a request's own workbooks ask for, once it has read them.
LEMMA OwnCalls ==
    ASSUME TypeInv, NEW r \in Request, pc[r] \in Looping, ReadOwn(r), NEW c
    PROVE  c \in Promise!Calls(upload[r])
             <=> \E i \in SourceRows(source[r]), j \in DOMAIN ClickList(r) :
                    c = <<i, j>> /\ j \in Asking(r, i)
<1> DEFINE p == upload[r].platform
           keys == ReadDataSource(p, source[r]).keys
           list == ClickList(r)
<1>1. p \in Platform /\ source[r] \in Book /\ clicks[r] \in Book
  BY LoopFacts DEF Looping
<1>2. source[r] = upload[r].files[1].book /\ clicks[r] = upload[r].files[2].book
  BY <1>1, NoneAssumption DEF ReadOwn
<1>3. DOMAIN keys = SourceRows(source[r])
  BY <1>1 DEF Platform, ReadDataSource, JuliangReadDataSource, GdtReadDataSource,
         HonorReadDataSource, UcReadDataSource, KsReadDataSource, ByCampaign
<1>4. /\ Promise!ReadDataSource(p, upload[r].files[1].book).keys = keys
      /\ Promise!ReadClickData(p, upload[r].files[2].book) = list
  BY <1>2, SameReaders DEF ClickList
<1>5. c \in Promise!Calls(upload[r])
        <=> /\ c \in (DOMAIN keys) \X (DOMAIN list)
            /\ keys[c[1]] = list[c[2]].ad
            /\ Cardinality({k \in DOMAIN keys : keys[k] = keys[c[1]] /\ k <= c[1]})
                  <= list[c[2]].count
  <2> DEFINE K == Promise!ReadDataSource(p, upload[r].files[1].book).keys
             L == Promise!ReadClickData(p, upload[r].files[2].book)
  <2>1. Promise!Calls(upload[r])
           = {d \in (DOMAIN K) \X (DOMAIN L) :
                /\ K[d[1]] = L[d[2]].ad
                /\ Cardinality({k \in DOMAIN K : K[k] = K[d[1]] /\ k <= d[1]})
                      <= L[d[2]].count}
    BY SameCardinality DEF Promise!Calls
  <2>2. K = keys /\ L = list
    BY <1>4
  <2> HIDE DEF keys, list, K, L
  <2> QED BY <2>1, <2>2
<1>6. \A i : Rank(p, source[r], i)
               = Cardinality({k \in DOMAIN keys : keys[k] = keys[i] /\ k <= i})
  BY DEF Rank
<1>7. ASSUME NEW i \in SourceRows(source[r]), NEW j \in DOMAIN list
      PROVE  Rank(p, source[r], i) <= list[j].count
                <=> list[j].count >= Rank(p, source[r], i)
  OBVIOUS
<1>8. \A i \in SourceRows(source[r]), j \in DOMAIN list :
         j \in Asking(r, i)
            <=> keys[i] = list[j].ad /\ Rank(p, source[r], i) <= list[j].count
  BY <1>7 DEF Asking
<1> HIDE DEF p, keys, list
<1>9. \A i \in SourceRows(source[r]), j \in DOMAIN list :
         <<i, j>>[1] = i /\ <<i, j>>[2] = j
  OBVIOUS
<1>10. c \in (DOMAIN keys) \X (DOMAIN list)
         <=> \E i \in SourceRows(source[r]), j \in DOMAIN list : c = <<i, j>>
  BY <1>3
<1> QED BY <1>5, <1>6, <1>8, <1>9, <1>10 DEF list

\* While a handler is at work and its calls are the same, the promise sees
\* nothing.
LEMMA SeesNothing ==
    ASSUME UNCHANGED <<upload, sent, reply, met>>,
           \A r \in Request : PhaseOf(r)' = PhaseOf(r)
    PROVE  UNCHANGED Promise!vars
BY DEF Promise!vars, PhaseOf

LEMMA PhaseChange ==
    ASSUME TypeOK, NEW r \in Request, NEW phase, PhaseOf(r)' = phase,
           \A q \in Request \ {r} : pc'[q] = pc[q]
    PROVE  [q \in Request |-> PhaseOf(q)']
              = [[q \in Request |-> PhaseOf(q)] EXCEPT ![r] = phase]
BY DEF PhaseOf

\* An answer is one of the promise's, with the true totals.
LEMMA AnswerPromised ==
    ASSUME TypeOK, NEW r \in Request, Counted(r), NEW status, Answer(r, status),
           UNCHANGED <<upload, sent, met>>
    PROVE  Promise!Answer(r, status)
<1>1. /\ PhaseOf(r)' = "answered"
      /\ \A q \in Request \ {r} : pc'[q] = pc[q]
  BY DEF Answer, TypeOK, PhaseOf
<1>2. [q \in Request |-> PhaseOf(q)']
         = [[q \in Request |-> PhaseOf(q)] EXCEPT ![r] = "answered"]
  BY <1>1, PhaseChange
<1>3. total[r] = Len(sent[r]) /\ success[r] = Cardinality(OkCalls(r))
      /\ failed[r] = Len(sent[r]) - Cardinality(OkCalls(r))
  BY DEF Counted
<1>4. reply' = [reply EXCEPT ![r] =
                  [status |-> status, total |-> Len(sent[r]),
                   success |-> Cardinality(OkCalls(r)),
                   failed |-> Len(sent[r]) - Cardinality(OkCalls(r))]]
  BY <1>3 DEF Answer
<1>5. Promise!Cardinality(OkCalls(r)) = Cardinality(OkCalls(r))
  BY SameCardinality
<1>6. [q \in Request |-> met[q] = {}]' = [q \in Request |-> met[q] = {}]
  OBVIOUS
<1> QED BY <1>2, <1>4, <1>5, <1>6 DEF Promise!Answer, OkCalls, PhaseOf

LEMMA ReceivePromised ==
    ASSUME TypeOK, Unmet, NEW r \in Request, Receive(r)
    PROVE  Promise!Submit(r)
<1>0. pc[r] = "idle" /\ met[r] = {}
  BY DEF Receive, Unmet
<1>1. /\ PhaseOf(r) = "new" /\ PhaseOf(r)' = "working"
      /\ \A q \in Request \ {r} : pc'[q] = pc[q]
  BY <1>0 DEF Receive, Goto, TypeOK, PhaseOf
<1>2. [q \in Request |-> PhaseOf(q)']
         = [[q \in Request |-> PhaseOf(q)] EXCEPT ![r] = "working"]
  BY <1>1, PhaseChange
<1>3. (\E u \in Submissions[r] : upload' = [upload EXCEPT ![r] = u])
      /\ UNCHANGED <<sent, reply>>
  BY DEF Receive, Goto
<1>4. ASSUME NEW q \in Request
      PROVE  (met'[q] = {}) \in {met[q] = {}, FALSE}
  <2>1. \E rivals : met' = [x \in Request |->
                               IF x = r THEN rivals
                               ELSE IF x \in rivals THEN met[x] \cup {r} ELSE met[x]]
    BY DEF Receive
  <2>2. met'[q] = {} => met[q] = {}
    BY <1>0, <2>1
  <2> QED BY <2>2
<1>5. \A q \in Request : [x \in Request |-> met[x] = {}]'[q]
                             \in {[x \in Request |-> met[x] = {}][q], FALSE}
  BY <1>4
<1>6. [q \in Request |-> PhaseOf(q)][r] = "new"
  BY <1>1
<1> QED BY <1>2, <1>3, <1>5, <1>6 DEF Promise!Submit, PhaseOf

LEMMA EarlyPromised ==
    ASSUME TypeInv, NEW r \in Request, CallInv(r),
           \/ ParseForm(r) \/ CreateFile(r) \/ CopyFile(r)
           \/ ReadSource(r) \/ ReadClicks(r),
           pc[r] # "idle"
    PROVE  Promise!Refuse(r) \/ UNCHANGED Promise!vars
<1>0. TypeOK
  BY DEF TypeInv
<1>1. UNCHANGED <<upload, sent, met>> /\ pc[r] \in Before \ {"idle"}
  BY DEF ParseForm, CreateFile, CopyFile, ReadSource, ReadClicks, Before
<1>2. sent[r] = <<>> /\ Counted(r)
  BY <1>1 DEF CallInv, Untouched
<1>3. \/ Answer(r, 400) \/ Answer(r, 500)
      \/ \E label \in {"open", "write", "readSource", "readClicks", "loop"} :
            Goto(r, label)
  BY DEF ParseForm, CreateFile, CopyFile, ReadSource, ReadClicks
<1>4. ASSUME NEW status \in {400, 500}, Answer(r, status)
      PROVE  Promise!Refuse(r)
  <2>1. Promise!Answer(r, status)
    BY <1>0, <1>1, <1>2, <1>4, AnswerPromised
  <2>2. PhaseOf(r) = "working"
    BY <1>1 DEF PhaseOf, Before
  <2> QED BY <1>2, <2>1, <2>2 DEF Promise!Refuse, PhaseOf
<1>5. ASSUME NEW label \in {"open", "write", "readSource", "readClicks", "loop"},
             Goto(r, label)
      PROVE  UNCHANGED Promise!vars
  <2>1. \A q \in Request : PhaseOf(q)' = PhaseOf(q)
    BY <1>0, <1>1, <1>5 DEF Goto, TypeOK, PhaseOf, Before
  <2> QED BY <1>1, <1>5, <2>1, SeesNothing DEF Goto
<1> QED BY <1>3, <1>4, <1>5

\* Taking a click row and finishing it make no call.
LEMMA RowPromised ==
    ASSUME TypeOK, NEW r \in Request, TakeRow(r) \/ CompleteRow(r)
    PROVE  UNCHANGED Promise!vars
<1>1. UNCHANGED <<upload, sent, reply, met>>
  BY DEF TakeRow, CompleteRow, Goto
<1>2. pc[r] \in Looping /\ (UNCHANGED pc \/ \E label \in Looping : Goto(r, label))
  BY DEF TakeRow, CompleteRow, Looping
<1>3. \A q \in Request : PhaseOf(q)' = PhaseOf(q)
  BY <1>2 DEF TypeOK, PhaseOf, Goto, Looping
<1> QED BY <1>1, <1>3, SeesNothing

\* Each call is one that the workbooks ask for and that was not made before.
LEMMA SendPromised ==
    ASSUME TypeInv, NEW r \in Request, CallInv(r), SendRecord(r),
           met[r] = {} => ReadOwn(r)
    PROVE  Promise!Call(r)
<1> DEFINE j == row[r]
           S == ClickSlice(r, j)
<1>0. TypeOK /\ pc[r] = "send" /\ sent[r] \in Seq(Sent) /\ Len(upload[r].files) = 2
  BY DEF TypeInv, TypeOK, SendRecord, Holds
<1>1. PICK x \in Sent :
        /\ x.click = j /\ x.row \in S
        /\ RankIn(S, x.row) = SentFor(r, j) + 1
        /\ x.ok => x.accepted
        /\ sent'[r] = Append(sent[r], x)
  BY SendRecordFacts
<1>2. UNCHANGED <<pc, upload, reply, met>>
  BY DEF SendRecord
<1>3. sent' = [sent EXCEPT ![r] = Append(@, x)]
  <2>1. \E y : sent' = [sent EXCEPT ![r] = Append(@, y)]
    BY DEF SendRecord
  <2>2. \A q \in Request \ {r} : sent'[q] = sent[q]
    BY <1>0, <2>1 DEF TypeOK
  <2>3. DOMAIN sent' = Request /\ DOMAIN sent = Request
    BY <1>0, <2>1 DEF TypeOK
  <2> QED BY <1>0, <1>1, <2>1, <2>2, <2>3 DEF TypeOK
<1>4. /\ Len(sent'[r]) = Len(sent[r]) + 1
      /\ sent'[r][Len(sent'[r])] = x
  BY <1>0, <1>1, AppendSent
<1>5. /\ upload[r].platform \in Platform /\ source[r] \in Book
      /\ j \in DOMAIN ClickList(r) /\ ToSend(r, j) \in Int
  BY <1>0, LoopFacts DEF TypeInv, Holds
<1>6. S \in SUBSET Nat /\ IsFiniteSet(S) /\ x.row \in SourceRows(source[r])
  BY <1>1, <1>5, SliceFacts DEF ClickSlice, Slice
<1>7. RankIn(S, x.row) \in Nat /\ SentFor(r, j) \in Nat
  BY <1>0, <1>1, <1>6, RankType, SentForType
<1>8. j \in Asking(r, x.row)
  <2>1. SentFor(r, j) < ToSend(r, j)
    BY DEF SendRecord
  <2>2. RankIn(S, x.row) <= Wanted(r, j)
    BY <1>1, <1>5, <1>7, <2>1 DEF Wanted
  <2>3. pc[r] \in Looping
    BY <1>0 DEF Looping
  <2> QED BY <1>1, <1>5, <1>6, <2>2, <2>3, WantedByRank DEF Asking
<1>9. <<x.row, j>> \notin MadeCalls(r)
  <2>1. <<x.row, j>> \in MadeCalls(r) => RankIn(S, x.row) <= SentFor(r, j)
    BY <1>0, <1>1, <1>5 DEF CallInv, Progress, Looping
  <2> QED BY <1>1, <1>7, <2>1
<1>10. met[r] = {} => <<x.row, x.click>> \in Promise!Calls(upload[r]) \ Promise!Made(r)
  <2>1. Promise!Made(r) = MadeCalls(r)
    BY DEF Promise!Made, MadeCalls
  <2>2. pc[r] \in Looping
    BY <1>0 DEF Looping
  <2> QED BY <1>1, <1>5, <1>6, <1>8, <1>9, <2>1, <2>2, OwnCalls
<1>11. [q \in Request |-> PhaseOf(q)][r] = "working"
       /\ [q \in Request |-> PhaseOf(q)]' = [q \in Request |-> PhaseOf(q)]
  BY <1>0, <1>2 DEF PhaseOf
<1>12. [q \in Request |-> met[q] = {}]' = [q \in Request |-> met[q] = {}]
  BY <1>2
<1>13. [q \in Request |-> met[q] = {}][r] => met[r] = {}
  OBVIOUS
<1> HIDE DEF j, S
<1> QED BY <1>0, <1>1, <1>2, <1>3, <1>4, <1>10, <1>11, <1>12, <1>13
        DEF Promise!Call, PhaseOf

\* At the end every call was made that the workbooks ask for.
LEMMA FinishPromised ==
    ASSUME TypeInv, NEW r \in Request, CallInv(r), Finish(r),
           met[r] = {} => ReadOwn(r)
    PROVE  Promise!Succeed(r)
<1>0. /\ TypeOK /\ pc[r] = "loop" /\ Pending(r) = {} /\ Len(upload[r].files) = 2
      /\ Counted(r) /\ Belongs(r)
  BY DEF TypeInv, Finish, Holds, CallInv
<1>1. Promise!Answer(r, 200)
  BY <1>0, AnswerPromised DEF Finish
<1>2. ASSUME ReadOwn(r), NEW c
      PROVE  c \in MadeCalls(r) <=> c \in Promise!Calls(upload[r])
  <2>1. c \in Promise!Calls(upload[r])
          <=> \E i \in SourceRows(source[r]), j \in DOMAIN ClickList(r) :
                 c = <<i, j>> /\ j \in Asking(r, i)
    BY <1>0, <1>2, OwnCalls DEF Looping
  <2>2. \A i \in SourceRows(source[r]), j \in DOMAIN ClickList(r) :
           j \in Asking(r, i) <=> <<i, j>> \in MadeCalls(r)
    BY <1>0, CallsAsked
  <2>3. c \in MadeCalls(r)
          => \E i \in SourceRows(source[r]), j \in DOMAIN ClickList(r) : c = <<i, j>>
    <3>1. upload[r].platform \in Platform /\ source[r] \in Book
      BY <1>0, LoopFacts
    <3>2. \A j : ClickSlice(r, j) \subseteq SourceRows(source[r])
      BY <3>1, SliceFacts DEF ClickSlice, Slice
    <3> QED BY <1>0, <3>2 DEF MadeCalls, Belongs
  <2> QED BY <2>1, <2>2, <2>3
<1>3. ReadOwn(r) => Promise!Made(r) = Promise!Calls(upload[r])
  BY <1>2 DEF Promise!Made, MadeCalls
<1>4. [q \in Request |-> PhaseOf(q)][r] = "working"
  BY <1>0 DEF PhaseOf
<1>5. [q \in Request |-> met[q] = {}][r] => met[r] = {}
  OBVIOUS
<1> QED BY <1>0, <1>1, <1>3, <1>4, <1>5 DEF Promise!Succeed, PhaseOf

LEMMA CrashPromised ==
    ASSUME TypeOK, Crash
    PROVE  Promise!Lose
<1>1. UNCHANGED <<upload, sent, reply, met>>
  BY DEF Crash
<1>2. \A r \in Request :
        PhaseOf(r)' = IF PhaseOf(r) = "working" THEN "lost" ELSE PhaseOf(r)
  BY DEF Crash, PhaseOf
<1>3. [r \in Request |-> PhaseOf(r)']
        = [r \in Request |-> IF [q \in Request |-> PhaseOf(q)][r] = "working"
                             THEN "lost" ELSE [q \in Request |-> PhaseOf(q)][r]]
  BY <1>2
<1> QED BY <1>1, <1>3 DEF Promise!Lose, PhaseOf

-----------------------------------------------------------------------------
LEMMA NextUnmet == TypeOK /\ Unmet /\ [Next]_vars => Unmet'
<1> SUFFICES ASSUME TypeOK, Unmet, [Next]_vars, NEW r \in Request, pc'[r] = "idle"
             PROVE  met'[r] = {}
  BY DEF Unmet
<1>1. ASSUME NEW q \in Request, Receive(q) PROVE met'[r] = {}
  <2>1. r # q /\ pc[r] = "idle"
    BY <1>1 DEF Receive, Goto, TypeOK
  <2>2. PICK u \in Submissions[q] :
          LET rivals == {x \in Request : InFlight(x) /\ SharesFile(upload[x], u)}
          IN  met' = [x \in Request |->
                        IF x = q THEN rivals
                        ELSE IF x \in rivals THEN met[x] \cup {q} ELSE met[x]]
    BY <1>1 DEF Receive
  <2>3. ~InFlight(r) /\ met[r] = {}
    BY <2>1 DEF InFlight, Unmet
  <2> QED BY <2>1, <2>2, <2>3
<1>2. ASSUME NEW q \in Request, Handle(q) PROVE met'[r] = {}
  <2>1. /\ UNCHANGED met /\ pc'[q] \in Active \cup {"replied"}
        /\ \A x \in Request \ {q} : Same(x)
    BY <1>2, HandleCases, HandlerFrame, Frame
  <2>2. pc[r] = "idle"
    BY <2>1 DEF Same, Active
  <2> QED BY <2>1, <2>2 DEF Unmet
<1>3. CASE Crash
  BY <1>3 DEF Crash, Unmet
<1>4. CASE UNCHANGED vars
  BY <1>4 DEF vars, request, Unmet
<1> QED BY <1>1, <1>2, <1>3, <1>4 DEF Next, Quiet

LEMMA StepPromised ==
    PromiseInv /\ Unmet /\ [Next]_vars => [Promise!Next]_(Promise!vars)
<1> SUFFICES ASSUME PromiseInv, Unmet, [Next]_vars
             PROVE  Promise!Next \/ UNCHANGED Promise!vars
  OBVIOUS
<1>0. TypeInv /\ TypeOK
  BY DEF PromiseInv, OwnInv, TypeInv
<1>1. \A r \in Request : CallInv(r) /\ (met[r] = {} => ReadOwn(r))
  BY DEF PromiseInv, OwnInv
<1>2. ASSUME NEW r \in Request, Receive(r) PROVE Promise!Next
  BY <1>0, <1>2, ReceivePromised DEF Promise!Next
<1>3. ASSUME NEW r \in Request, Handle(r)
      PROVE  Promise!Next \/ UNCHANGED Promise!vars
  <2>1. /\ UploadExcelFiles(r) \/ ProcessExcelAndCallback(r)
        /\ pc[r] \in Active \cup {"form"}
    BY <1>0, <1>3, HandleCases, HandlerFrame
  <2>2. CASE \/ ParseForm(r) \/ CreateFile(r) \/ CopyFile(r)
             \/ ReadSource(r) \/ ReadClicks(r)
    BY <1>0, <1>1, <2>1, <2>2, EarlyPromised DEF Active, Promise!Next
  <2>3. CASE TakeRow(r) \/ CompleteRow(r)
    BY <1>0, <2>3, RowPromised
  <2>4. CASE SendRecord(r)
    BY <1>0, <1>1, <2>4, SendPromised DEF Promise!Next
  <2>5. CASE Finish(r)
    BY <1>0, <1>1, <2>5, FinishPromised DEF Promise!Next
  <2> QED BY <2>1, <2>2, <2>3, <2>4, <2>5
          DEF UploadExcelFiles, ProcessExcelAndCallback
<1>4. CASE Crash
  BY <1>0, <1>4, CrashPromised DEF Promise!Next
<1>5. CASE UNCHANGED vars
  BY <1>5 DEF vars, request, Promise!vars
<1> QED BY <1>2, <1>3, <1>4, <1>5 DEF Next, Quiet

\* The handlers implement the promise: for a request that is alone with its
\* file names each call its own workbooks ask for is made once, a 200 says
\* that all were made, an error that none was.
THEOREM PromiseKept == Spec => KeepsPromise
<1>1. Init => Promise!Init /\ Unmet
  BY DEF Init, Promise!Init, Unmet
<1> QED BY <1>1, PromiseHolds, NextUnmet, StepPromised, PTL
        DEF Spec, KeepsPromise, Promise!Spec, PromiseInv, OwnInv, TypeInv
=============================================================================
