----------------------------- MODULE PagedFetch -----------------------------
(***************************************************************************)
(* How one export request collects its rows from a remote platform: the    *)
(* page loops of common/topsdk-go/query{Order,Income,User}.go and the      *)
(* window and page loops of service/jd_order.go.  The platform is external:*)
(* it lists orders, pages through them, and may fail, answer with          *)
(* something else, or claim that there are more pages for ever.  Only the  *)
(* request itself uses this state, so one request at a time is modelled.   *)
(***************************************************************************)
EXTENDS Integers, Sequences, FiniteSets

CONSTANTS
    Time,       \* Time[o]: when order o was placed
    Listed,     \* the orders the platform lists at first, in its order
    Late,       \* the orders that may be listed while the pages are fetched
    Interval,   \* the intervals [start, end, midnight] clients ask for
    Hour,       \* the width of a window: 1 hour, 600 seconds for bonuses
    PageSize,   \* the orders of a page
    MaxPages,   \* the most pages per window, 100 in the code
    PageBound,  \* bound of the page counter of the loops without a limit
    None        \* no cursor, no outcome

Order == DOMAIN Time

CpsKind == {"order", "income", "user"}
JdKind == {"jdOrder", "jdBonus"}
Kind == CpsKind \cup JdKind

ASSUME TimeAssumption == Time \in [Order -> Nat]
ASSUME ListAssumption ==
    /\ Listed \in Seq(Order) /\ Late \subseteq Order /\ IsFiniteSet(Late)
    /\ \A m, n \in DOMAIN Listed : Listed[m] = Listed[n] => m = n
ASSUME WidthAssumption ==
    Hour \in Nat \ {0} /\ PageSize \in Nat \ {0} /\ MaxPages \in Nat \ {0}
ASSUME IntervalAssumption ==
    Interval \subseteq [start: Nat, end: Nat \ {0}, midnight: BOOLEAN]
ASSUME NoneAssumption ==
    None \notin Order /\ None \notin {"rows", "empty", "error", "refused"}
ASSUME PageBoundAssumption ==
    /\ PageBound \in Nat /\ PageBound > MaxPages + 1
    /\ (PageBound - 2) * PageSize >= Len(Listed) + Cardinality(Late)

\* What can be wrong with an answer: no answer at all, an error code, no list
\* in it, an item that cannot be decoded, no word that more follows, no
\* sortValue in the items or none in the last one, a wrong claim that more
\* follows.
Damage == {"failed", "rejected", "noList", "badItem", "noMore", "noSort",
           "noLastSort", "endless"}

VARIABLES
    phase,     \* idle, page (about to ask for a page) or done
    kind,      \* the endpoint
    asked,     \* the interval of a JD request
    inclusive, \* whether the platform's intervals include their end
    listing,   \* what the platform lists now
    shifted,   \* history: an order was listed before others
    cur,       \* start of the current window
    page,      \* pageIndex, pageNo
    cursor,    \* the last order seen in the window that had a sortValue
    got,       \* allOrders
    outcome,   \* rows, empty (a 200 with a message), error, refused
    calls,     \* history: the requests made for the current window
    damage     \* history: what was wrong with the answers

vars == <<phase, kind, asked, inclusive, listing, shifted, cur, page, cursor,
          got, outcome, calls, damage>>

request == <<kind, asked, inclusive>>

\* 24:00:00 is not a time to time.Parse: GetJdOrder reads it as 23:59:59.
EndTime == IF kind = "jdOrder" /\ asked.midnight THEN asked.end - 1 ELSE asked.end

\* Besides the types: the windows stay inside the interval.
TypeOK ==
    /\ phase \in {"idle", "page", "done"}
    /\ kind \in Kind
    /\ asked \in Interval
    /\ inclusive \in BOOLEAN /\ shifted \in BOOLEAN
    /\ listing \in Seq(Order) /\ got \in Seq(Order)
    /\ cur \in Nat
    /\ cur <= asked.start \/ cur <= EndTime
    /\ phase = "page" /\ kind \in JdKind => cur \in asked.start..(EndTime - 1)
    /\ page \in 1..PageBound
    /\ cursor \in Order \cup {None}
    /\ outcome \in {None, "rows", "empty", "error", "refused"}
    /\ calls \in 0..PageBound
    /\ damage \subseteq Damage

Init ==
    /\ phase = "idle"
    /\ kind \in Kind
    /\ asked \in Interval
    /\ inclusive \in BOOLEAN
    /\ listing = Listed /\ shifted = FALSE
    /\ cur = 0 /\ page = 1 /\ cursor = None
    /\ got = <<>>
    /\ outcome = None
    /\ calls = 0 /\ damage = {}

-----------------------------------------------------------------------------
(***************************************************************************)
(* The platform.                                                           *)
(***************************************************************************)
Within(o, a, b) == a <= Time[o] /\ (Time[o] < b \/ (inclusive /\ Time[o] = b))

Earlier(a, b) == IF a < b THEN a ELSE b

\* Mutant: the last window is not cut off at the end of the interval.
WindowEndUnclamped == cur + Hour

WindowEnd == Earlier(cur + Hour, EndTime)

\* The orders it is asked for; the CPS interfaces take no window.
InWindow == {o \in Order : kind \in CpsKind \/ Within(o, cur, WindowEnd)}

\* The k-th of a set of positions.
Nth(S, k) == CHOOSE n \in S : Cardinality({m \in S : m <= n}) = k

\* The elements of W in a sequence, in its order.
Filter(s, W) == LET hits == {n \in DOMAIN s : s[n] \in W}
                IN  [k \in 1..Cardinality(hits) |-> s[Nth(hits, k)]]

\* What the platform lists of them.
Matching == Filter(listing, InWindow)

PositionOf(o) == CHOOSE n \in DOMAIN Matching : Matching[n] = o

\* Where the page begins: by page number, or behind the cursor.
Before == IF kind # "jdBonus" THEN (page - 1) * PageSize
          ELSE IF cursor = None THEN 0 ELSE PositionOf(cursor)

Page == SubSeq(Matching, Before + 1, Earlier(Before + PageSize, Len(Matching)))

HasMore == Before + PageSize < Len(Matching)

FirstPage == SubSeq(Matching, 1, Earlier(PageSize, Len(Matching)))

\* An order is placed or settled while the pages are being fetched.
List ==
    /\ phase = "page"
    /\ \E o \in Late :
         /\ \A n \in DOMAIN listing : listing[n] # o
         /\ \/ listing' = Append(listing, o) /\ UNCHANGED shifted
            \/ listing' = <<o>> \o listing /\ shifted' = TRUE
    /\ UNCHANGED <<phase, request, cur, page, cursor, got, outcome, calls, damage>>

-----------------------------------------------------------------------------
(***************************************************************************)
(* The loops.                                                              *)
(***************************************************************************)
Conclude(result) == phase' = "done" /\ outcome' = result

\* The rows are exported, or there are none.
Finish(rows) == Conclude(IF rows = <<>> THEN "empty" ELSE "rows")

Begin == phase' = "page" /\ UNCHANGED outcome

\* GetJdOrder and GetJdBonusOrder check the times; the interval may be empty.
ReceiveJd ==
    /\ phase = "idle"
    /\ cur' = asked.start
    /\ \/ Conclude("refused")
       \/ asked.start >= EndTime /\ Conclude("empty")
       \/ asked.start < EndTime /\ Begin
    /\ UNCHANGED <<request, listing, shifted, page, cursor, got, calls, damage>>

GetJdOrder == kind = "jdOrder" /\ ReceiveJd
GetJdBonusOrder == kind = "jdBonus" /\ ReceiveJd

\* QueryAllPagedIncomes panics when an optional parameter is missing, which
\* gin's Recovery turns into a 500.
ReceiveCps ==
    /\ phase = "idle"
    /\ \/ kind = "income" /\ Conclude("error")
       \/ Begin
    /\ UNCHANGED <<request, listing, shifted, cur, page, cursor, got, calls,
                   damage>>

GetCpsOrder == kind = "order" /\ ReceiveCps
GetCpsIncome == kind = "income" /\ ReceiveCps
GetCpsUser == kind = "user" /\ ReceiveCps

Receive == GetJdOrder \/ GetJdBonusOrder \/ GetCpsOrder \/ GetCpsIncome \/ GetCpsUser

\* Mutant: the next window begins a second later.
NextStartGap == WindowEnd + 1

\* The next window begins where this one ends.
NextStart == WindowEnd

\* Mutant: one page too many.
PastLimitLate(n) == n > MaxPages + 1

PastLimit(n) == n > MaxPages

\* Mutant: the page limit is left out.
JdOrdersEndUnlimited(more) == ~more

\* The loops of fetchJdOrders and fetchJdBonusOrdersWithPagination and of the
\* three QueryAllPaged functions: whether this page is the last one.  An answer
\* says that more may follow with has_more, next_page or a sortValue.
JdOrdersEnd(more) == ~more \/ PastLimit(page + 1)
JdBonusEnd(items, more) == ~more \/ items = <<>> \/ PastLimit(page + 1)
CpsEnd(more) == ~more

LastPage(items, more) ==
    CASE kind = "jdOrder" -> JdOrdersEnd(more)
      [] kind = "jdBonus" -> JdBonusEnd(items, more)
      [] kind \in CpsKind -> CpsEnd(more)

\* Mutant: the cursor is the first sortValue of the page.
NextCursorFirst(items, n) ==
    IF kind # "jdBonus" \/ n = 0 THEN cursor ELSE items[1]

\* The n-th is the last item with a sortValue; the others are passed over.
NextCursor(items, n) ==
    IF kind # "jdBonus" \/ n = 0 THEN cursor ELSE items[n]

\* Pages past the listing are all alike: the counter goes on between the
\* last two numbers, so that an endless loop is a loop of the model.
NextPage == IF page < PageBound THEN page + 1 ELSE PageBound - 1

\* A page, whose n-th item is the last with a sortValue, is appended; then the
\* next page, the next window or the end.
TakePage(items, more, n) ==
    /\ got' = got \o items
    /\ IF ~LastPage(items, more)
       THEN /\ page' = NextPage
            /\ cursor' = NextCursor(items, n)
            /\ calls' = Earlier(calls + 1, PageBound)
            /\ UNCHANGED <<phase, cur, outcome>>
       ELSE /\ page' = 1 /\ cursor' = None /\ calls' = 0
            /\ cur' = IF kind \in CpsKind THEN cur ELSE NextStart
            /\ IF kind \in CpsKind \/ cur' >= EndTime
               THEN Finish(got')
               ELSE UNCHANGED <<phase, outcome>>

FetchPage ==
    /\ phase = "page"
    /\ TakePage(Page, kind = "jdBonus" \/ HasMore, Len(Page))
    /\ UNCHANGED <<request, listing, shifted, damage>>

Fail(what) ==
    /\ phase = "page"
    /\ damage' = damage \cup {what}
    /\ Conclude("error")
    /\ UNCHANGED <<request, listing, shifted, cur, page, cursor, got, calls>>

\* No answer within the timeout, or one cut short: jdHttpGet and Client.do
\* return the error, and with it the whole export.
AnswerLost == Fail("failed")

\* An error code or error_response; no queryResult in an answer of JD.
AnswerRejected == Fail("rejected")

\* No list where it should be: the end of the pages for the CPS loops.  For
\* the JD loops, if the codes are good, it is a page without orders: the last
\* one of a bonus query, while an order query goes by what it says of more.
AnswerWithoutList ==
    /\ phase = "page"
    /\ damage' = damage \cup {"noList"}
    /\ \/ /\ kind \in CpsKind
          /\ Finish(got)
          /\ UNCHANGED <<cur, page, cursor, got, calls>>
       \/ /\ kind \in JdKind
          /\ \E more \in BOOLEAN : TakePage(<<>>, more, 0)
    /\ UNCHANGED <<request, listing, shifted>>

\* An item with a field of another type: the JD loops fail, the CPS loops
\* leave the item out.
AnswerWithBadItem ==
    IF kind \in JdKind THEN Fail("badItem")
    ELSE /\ phase = "page"
         /\ Page # <<>>
         /\ damage' = damage \cup {"badItem"}
         /\ TakePage(Tail(Page), HasMore, 0)
         /\ UNCHANGED <<request, listing, shifted>>

\* More follows, but next_page or hasMore is missing, or next_page is no
\* boolean, whose error is dropped: this passes for the last page.
AnswerWithoutMore ==
    /\ phase = "page"
    /\ kind # "jdBonus" /\ HasMore
    /\ damage' = damage \cup {"noMore"}
    /\ TakePage(Page, FALSE, 0)
    /\ UNCHANGED <<request, listing, shifted>>

\* The last bonus orders of a page, or all of them, come without a sortValue.
\* Without any this passes for the last page; otherwise the next page begins
\* behind the last order that has one.
AnswerWithoutSort ==
    /\ phase = "page"
    /\ kind = "jdBonus"
    /\ \E n \in 0..(Len(Page) - 1) :
         /\ damage' = damage \cup {IF n = 0 THEN "noSort" ELSE "noLastSort"}
         /\ TakePage(Page, n # 0, n)
    /\ UNCHANGED <<request, listing, shifted>>

\* The last page claims that more follow; to a bonus query, whose pages go on
\* until one is empty, the platform gives the first page again.
AnswerEndless ==
    /\ phase = "page"
    /\ damage' = damage \cup {"endless"}
    /\ \/ kind # "jdBonus" /\ ~HasMore /\ TakePage(Page, TRUE, 0)
       \/ /\ kind = "jdBonus" /\ Matching # <<>>
          /\ TakePage(FirstPage, TRUE, Len(FirstPage))
    /\ UNCHANGED <<request, listing, shifted>>

\* The 60 seconds of the context of the CPS handlers are over.
DeadlineExceeded == kind \in CpsKind /\ Fail("failed")

Ask == \/ AnswerLost \/ AnswerRejected \/ FetchPage \/ AnswerWithoutList
       \/ AnswerWithBadItem \/ AnswerWithoutMore \/ AnswerWithoutSort
       \/ AnswerEndless

\* The five loops around it.
QueryAllPagedOrders == kind = "order" /\ Ask
QueryAllPagedIncomes == kind = "income" /\ Ask
QueryAllPagedUsers == kind = "user" /\ Ask
FetchJdOrdersPage == kind = "jdOrder" /\ Ask
FetchJdBonusOrdersPage == kind = "jdBonus" /\ Ask

Collect == \/ QueryAllPagedOrders \/ QueryAllPagedIncomes \/ QueryAllPagedUsers
           \/ FetchJdOrdersPage \/ FetchJdBonusOrdersPage

Done == phase = "done" /\ UNCHANGED vars

Next == Receive \/ List \/ Collect \/ DeadlineExceeded \/ Done

Spec == Init /\ [][Next]_vars

\* The request goes on, each answer comes or times out, and the 60 seconds of
\* a CPS export pass.
FairSpec ==
    Spec /\ WF_vars(Receive) /\ WF_vars(Collect) /\ WF_vars(DeadlineExceeded)

-----------------------------------------------------------------------------
(***************************************************************************)
(* Properties.                                                             *)
(***************************************************************************)
Succeeded == outcome \in {"rows", "empty"}

Initially == {Listed[n] : n \in DOMAIN Listed}

\* The orders a client means: those of the interval as it was written.
Wanted == IF kind \in CpsKind THEN Initially
          ELSE {o \in Initially : asked.start <= Time[o] /\ Time[o] < asked.end}

Collected(o) == \E n \in DOMAIN got : got[n] = o

\* No window holds more orders than the page limit lets through.
WithinLimit ==
    \A a \in asked.start..asked.end :
        Cardinality({n \in DOMAIN listing : Within(listing[n], a, a + Hour)})
            <= MaxPages * PageSize

\* The pages of a bonus query did not go on behind the last order: the
\* platform ignored the cursor, or that order had no sortValue.
Repeated == kind = "jdBonus" /\ damage \cap {"endless", "noLastSort"} # {}

\* A successful export has every order the client asked for, although orders
\* appear meanwhile, if no window exceeds the page limit, the pages go on where
\* the last one ended and no damaged answer passed for a good one (no list, an
\* item that does not decode, no word that more follows, no sortValue).  Where
\* the end of an interval is exclusive, 24:00:00 loses a second, and everything
\* if it is the only one.
CompleteExport ==
    (/\ Succeeded
     /\ damage \cap {"noList", "badItem", "noMore", "noSort"} = {}
     /\ ~Repeated
     /\ kind \in CpsKind \/ WithinLimit
     /\ kind = "jdOrder" /\ asked.midnight =>
            inclusive /\ asked.start < EndTime)
        => \A o \in Wanted : Collected(o)

OnlyOnce == \A m, n \in DOMAIN got : got[m] = got[n] => m = n

\* No order is exported twice, where the end of an interval is exclusive (the
\* windows share their ends), either no order was listed before others or the
\* pages go by cursor, and these go on where the last one ended.
NoOrderTwice ==
    (/\ ~inclusive \/ kind \in CpsKind
     /\ ~shifted \/ kind = "jdBonus"
     /\ ~Repeated)
        => OnlyOnce

\* The JD loops make at most MaxPages requests for a window, whatever the
\* platform claims ("at most 100 pages").
PagesBounded == kind \in JdKind /\ phase = "page" => calls < MaxPages

\* Each export ends: the page limit and the finite number of windows end the
\* JD loops, the deadline those of CPS, even if the platform always has more.
FetchEnds == <>(phase = "done")
=============================================================================
