---------------------------- MODULE HelperProofs ----------------------------
(***************************************************************************)
(* The two helpers that MCHelpers runs side by side, for any number of     *)
(* connections, senders and messages and for tables of any length.         *)
(*                                                                         *)
(* The bisection of ip_search finds a range that contains the address, if  *)
(* the table is well-formed and has one, and nothing but such a range in   *)
(* any table.                                                              *)
(*                                                                         *)
(* The pool of RabbitMQ connections never has more than MinOpen of them:   *)
(* nothing is ever taken off the front of the list, and every sender in    *)
(* Get is given that front (Given).  The broker gets no message twice:     *)
(* those that are not published yet have numbers of their own (Messages).  *)
(***************************************************************************)
EXTENDS RabbitPool, IpSearch, FiniteSetTheorems, TLAPS

\* The bounds stay around the part of the table that can still be read.
SearchTypeOK ==
    /\ rest \in Seq(FileLine)
    /\ ips \in Seq(FileLine)
    /\ sip \in Address
    /\ low \in 1..(Len(ips) + 1)
    /\ height \in 0..Len(ips)
    /\ region \in 0..Len(ips)
    /\ asked \in BOOLEAN
    /\ asked => rest = <<>>
    /\ ~asked => region = 0 /\ low = 1 /\ height = 0

\* Until something is found, a range that contains the address is between
\* the bounds.
Narrowed ==
    asked /\ WellFormed /\ region = 0 =>
        \A k \in DOMAIN ips : Covers(ips[k], sip) => low <= k /\ k <= height

Found == region # 0 => Covers(ips[region], sip)

SearchInv == SearchTypeOK /\ Narrowed /\ Found

\* A range of a table has numbers for its ends.
LEMMA RangeNumbers ==
    ASSUME SearchTypeOK, NEW k \in 1..Len(ips)
    PROVE  ips[k].s \in Int /\ ips[k].e \in Int
<1>1. ips[k] \in FileLine
  BY DEF SearchTypeOK
<1>2. ips[k].s \in Address \cup {-1} /\ ips[k].e \in Address \cup {-1}
  BY <1>1 DEF FileLine, Nil
<1>3. \A a \in Address \cup {-1} : a \in Int
  BY AddressAssumption
<1>4. QED
  BY <1>2, <1>3

\* The middle of what is left is in it.
LEMMA MiddleBetween ==
    ASSUME NEW a \in Int, NEW b \in Int, a <= b
    PROVE  /\ a + (b - a) \div 2 \in Int
           /\ a <= a + (b - a) \div 2
           /\ a + (b - a) \div 2 <= b
<1>1. (b - a) \div 2 \in Int /\ 0 <= (b - a) \div 2 /\ (b - a) \div 2 <= b - a
  OBVIOUS
<1>2. QED
  BY <1>1

LEMMA InitHolds == SearchInit => SearchInv
<1> SUFFICES ASSUME SearchInit PROVE SearchInv
  OBVIOUS
<1>1. rest \in Seq(FileLine)
  BY FilesAssumption DEF SearchInit
<1>2. ips \in Seq(FileLine) /\ Len(ips) = 0
  BY DEF SearchInit
<1>3. low \in 1..(Len(ips) + 1) /\ height \in 0..Len(ips) /\ region \in 0..Len(ips)
  BY <1>2 DEF SearchInit
<1>4. SearchTypeOK
  BY <1>1, <1>2, <1>3 DEF SearchInit, SearchTypeOK
<1>5. QED
  BY <1>4 DEF SearchInv, Narrowed, Found, SearchInit

\* Loading appends a line or leaves it out; nothing has been searched.
LEMMA LoadKeeps ==
    ASSUME SearchInv, LoadLine
    PROVE  SearchInv'
<1>1. rest \in Seq(FileLine) /\ rest # <<>> /\ ips \in Seq(FileLine)
  BY DEF LoadLine, SearchInv, SearchTypeOK
<1>2. Head(rest) \in FileLine /\ Tail(rest) \in Seq(FileLine)
  BY <1>1
<1>3. ips' \in Seq(FileLine) /\ Len(ips') \in Nat
  BY <1>1, <1>2 DEF LoadLine
<1>4. ~asked /\ ~asked'
  BY <1>1 DEF LoadLine, SearchInv, SearchTypeOK
<1>5. region' = 0 /\ low' = 1 /\ height' = 0
  BY <1>4 DEF LoadLine, SearchInv, SearchTypeOK
<1>6. SearchTypeOK'
  BY <1>2, <1>3, <1>4, <1>5 DEF LoadLine, SearchInv, SearchTypeOK
<1>7. QED
  BY <1>4, <1>5, <1>6 DEF SearchInv, Narrowed, Found

\* The search begins with the whole table.
LEMMA BeginKeeps ==
    ASSUME SearchInv, GetRegionId
    PROVE  SearchInv'
<1>1. /\ ips \in Seq(FileLine) /\ Len(ips) \in Nat /\ DOMAIN ips = 1..Len(ips)
      /\ ips' = ips /\ region = 0 /\ region' = 0 /\ low' = 1 /\ height' = Len(ips)
  BY DEF GetRegionId, SearchInv, SearchTypeOK
<1>2. SearchTypeOK'
  BY <1>1 DEF GetRegionId, SearchInv, SearchTypeOK
<1>3. Narrowed'
  BY <1>1 DEF Narrowed
<1>4. QED
  BY <1>1, <1>2, <1>3 DEF SearchInv, Found

\* One round of the loop: each branch throws away only ranges that cannot
\* contain the address.
LEMMA RoundKeeps ==
    ASSUME SearchInv, IpSearch
    PROVE  SearchInv'
<1> DEFINE mid == low + (height - low) \div 2
<1>1. /\ ips' = ips /\ sip' = sip /\ rest' = rest /\ asked /\ asked'
      /\ region = 0 /\ low <= height
      /\ Len(ips) \in Nat /\ low \in Int /\ height \in Int
  BY DEF IpSearch, Searching, SearchInv, SearchTypeOK
<1>2. mid \in Int /\ low <= mid /\ mid <= height
  BY <1>1, MiddleBetween
<1>3. mid \in 1..Len(ips)
  BY <1>1, <1>2 DEF SearchInv, SearchTypeOK
<1>4. ips[mid].s \in Int /\ ips[mid].e \in Int /\ sip \in Int
  BY <1>3, RangeNumbers, AddressAssumption DEF SearchInv, SearchTypeOK
<1>5. Step(mid)
  BY DEF IpSearch
<1>6. SearchTypeOK'
  <2> HIDE DEF mid
  <2>1. QED
    BY <1>1, <1>2, <1>3, <1>5 DEF Step, SearchInv, SearchTypeOK
<1>7. Narrowed'
  <2> HIDE DEF mid
  <2>1. SUFFICES ASSUME WellFormed, region' = 0, NEW k \in DOMAIN ips,
                        Covers(ips[k], sip)
                 PROVE  low' <= k /\ k <= height'
    BY <1>1 DEF Narrowed, WellFormed
  <2>2. k \in 1..Len(ips) /\ low <= k /\ k <= height
    BY <1>1, <2>1 DEF SearchInv, SearchTypeOK, Narrowed
  <2>3. ips[k].s \in Int /\ ips[k].e \in Int /\ ips[k].s <= sip /\ ips[k].e >= sip
    BY <2>1, <2>2, RangeNumbers DEF SearchInv, Covers
  <2>4. ips[mid].s <= ips[mid].e
    BY <1>1, <1>3, <2>1 DEF WellFormed, SearchInv, SearchTypeOK
  <2>5. ASSUME mid < k PROVE ips[mid].e < ips[k].s
    BY <1>1, <1>3, <2>1, <2>2, <2>5 DEF WellFormed, SearchInv, SearchTypeOK
  <2>6. ASSUME k < mid PROVE ips[k].e < ips[mid].s
    BY <1>1, <1>3, <2>1, <2>2, <2>6 DEF WellFormed, SearchInv, SearchTypeOK
  <2>7. CASE region' = mid
    BY <1>3, <2>1, <2>7
  <2>8. CASE ips[mid].s > sip /\ height' = mid - 1 /\ low' = low
    <3>1. k < mid
      BY <1>2, <1>4, <2>2, <2>3, <2>4, <2>5, <2>8
    <3>2. QED
      BY <1>2, <2>2, <2>8, <3>1
  <2>9. CASE ips[mid].s < sip /\ ~Covers(ips[mid], sip) /\ low' = mid + 1
                /\ height' = height
    <3>1. k # mid
      BY <2>1, <2>9
    <3>2. ~(k < mid)
      BY <1>4, <2>3, <2>6, <2>9
    <3>3. QED
      BY <1>2, <2>2, <2>9, <3>1, <3>2
  <2>10. QED
    BY <1>5, <2>7, <2>8, <2>9 DEF Step
<1>8. Found'
  <2> HIDE DEF mid
  <2>1. QED
    BY <1>1, <1>5 DEF Step, Found, Covers
<1>9. QED
  BY <1>6, <1>7, <1>8 DEF SearchInv

\* A search finds a range that contains the address, in any table, and misses
\* none if the table is well-formed: the loop of ip_search, whatever the
\* length of the table.
THEOREM SearchIsCorrect == SearchSpec => []SearchCorrect
<1>1. SearchInit => SearchInv
  BY InitHolds
<1>2. SearchInv /\ [SearchNext]_searchVars => SearchInv'
  <2>1. ASSUME SearchInv, UNCHANGED searchVars PROVE SearchInv'
    BY <2>1 DEF SearchInv, SearchTypeOK, Narrowed, Found, WellFormed, Covers, searchVars
  <2>2. QED
    BY <2>1, LoadKeeps, BeginKeeps, RoundKeeps DEF SearchNext
<1>3. SearchInv => SearchCorrect
  <2> SUFFICES ASSUME SearchInv PROVE SearchCorrect
    OBVIOUS
  <2>1. Len(ips) \in Nat /\ DOMAIN ips = 1..Len(ips) /\ low \in Int /\ height \in Int
    BY DEF SearchInv, SearchTypeOK
  <2>2. region # 0 => region \in DOMAIN ips /\ Covers(ips[region], sip)
    BY <2>1 DEF SearchInv, SearchTypeOK, Found
  <2>3. ASSUME WellFormed, Over, region = 0, NEW k \in DOMAIN ips
        PROVE  ~Covers(ips[k], sip)
    <3>1. height < low
      BY <2>1, <2>3 DEF Over, Searching
    <3>2. Covers(ips[k], sip) => low <= k /\ k <= height
      BY <2>3 DEF SearchInv, Narrowed, Over
    <3>3. k \in Int
      BY <2>1
    <3>4. QED
      BY <2>1, <3>1, <3>2, <3>3
  <2>4. QED
    BY <2>2, <2>3 DEF SearchCorrect
<1>4. QED
  BY <1>1, <1>2, <1>3, PTL DEF SearchSpec

-----------------------------------------------------------------------------
(***************************************************************************)
(* The pool.                                                               *)
(***************************************************************************)

\* Connections that are in the list, or dialled and about to be.
Known == ToSet(lq) \cup ({dialled} \ {NoConn})

\* The loop of NewPool has appended at most one connection in each round, and
\* nobody has sent yet; a connection is dialled only when the list was short, and then pushed.
Room ==
    /\ linker = "new" => Len(lq) <= i /\ \A s \in Sender : sender[s] = "idle"
    /\ dialled # NoConn <=> linker = "push"
    /\ linker = "push" => i < MinOpen

\* Whoever is past Get has the front of the list.
Given ==
    \A s \in Sender :
        /\ sender[s] \in {"append", "publish", "close"} =>
              lq # <<>> /\ conn[s] = Head(lq)
        /\ sender[s] # "idle" => msg[s] # 0

PoolInv == PoolTypeOK /\ Room /\ Given

Unpublished == {"get", "append", "publish"}

\* The messages under way are different ones, and the broker has none of those
\* that are not published yet.
Messages ==
    /\ \A k \in DOMAIN sent : sent[k] <= sends
    /\ \A s \in Sender : msg[s] <= sends
    /\ \A s, z \in Sender :
          s # z /\ sender[s] \in Unpublished /\ sender[z] \in Unpublished =>
              msg[s] # msg[z]
    /\ \A s \in Sender : sender[s] \in Unpublished =>
          \A k \in DOMAIN sent : sent[k] # msg[s]

MessageInv == PoolInv /\ Messages /\ AtMostOnce

\* A sequence has at most as many members as elements.
LEMMA MembersOf ==
    ASSUME NEW s \in Seq(Conn)
    PROVE  IsFiniteSet(ToSet(s)) /\ Cardinality(ToSet(s)) <= Len(s)
<1>1. /\ Len(s) \in Nat /\ DOMAIN s = 1..Len(s)
  OBVIOUS
<1>2. IsFiniteSet(DOMAIN s) /\ Cardinality(DOMAIN s) = Len(s)
  BY <1>1, FS_Interval
<1>3. s \in Surjection(DOMAIN s, ToSet(s))
  BY DEF Surjection, ToSet
<1>4. QED
  BY <1>2, <1>3, FS_Surjection

\* What Append adds to the members, and that it leaves the front alone.
LEMMA AppendMembers ==
    ASSUME NEW s \in Seq(Conn), NEW c \in Conn
    PROVE  /\ Append(s, c) \in Seq(Conn)
           /\ Append(s, c) # <<>>
           /\ Len(Append(s, c)) = Len(s) + 1
           /\ ToSet(Append(s, c)) = ToSet(s) \cup {c}
           /\ s # <<>> => Head(Append(s, c)) = Head(s)
<1>1. /\ Append(s, c) \in Seq(Conn) /\ Len(s) \in Nat
      /\ DOMAIN s = 1..Len(s)
      /\ DOMAIN Append(s, c) = 1..(Len(s) + 1)
      /\ Len(Append(s, c)) = Len(s) + 1
  OBVIOUS
<1>2. /\ Append(s, c)[Len(s) + 1] = c
      /\ \A k \in 1..Len(s) : Append(s, c)[k] = s[k]
  OBVIOUS
<1>3. ToSet(Append(s, c)) = ToSet(s) \cup {c}
  BY <1>1, <1>2 DEF ToSet
<1>4. QED
  BY <1>1, <1>2, <1>3

\* Only the front and what the senders have matter to Given.
LEMMA GivenStays ==
    ASSUME PoolInv, UNCHANGED <<lq, sender, conn, msg>>
    PROVE  Given'
BY DEF PoolInv, Given

LEMMA PoolInitHolds == PoolInit => PoolInv
<1> SUFFICES ASSUME PoolInit PROVE PoolInv
  OBVIOUS
<1>1. /\ lq = <<>> /\ lq \in Seq(Conn) /\ sent \in Seq(1..MaxSends) /\ Len(lq) = 0
      /\ DOMAIN sent = {} /\ dialled = NoConn /\ i = 0 /\ linker = "new"
  BY DEF PoolInit
<1>2. Known = {}
  BY <1>1 DEF Known, ToSet
<1>3. Cardinality(ToSet(lq) \cup ({dialled} \ {NoConn})) <= MinOpen
  BY <1>2, FS_EmptySet, MinOpenAssumption DEF Known
<1>4. PoolTypeOK
  <2>1. sender \in [Sender -> {"idle", "get", "append", "publish", "close"}]
    BY DEF PoolInit
  <2>2. conn \in [Sender -> Conn \cup {NoConn}] /\ msg \in [Sender -> 0..MaxSends]
    BY MaxSendsAssumption DEF PoolInit
  <2>3. alive \subseteq Conn /\ i \in 0..MinOpen /\ numOpen \in Int /\ sends \in 0..MaxSends
    BY MinOpenAssumption, MaxSendsAssumption DEF PoolInit
  <2>4. lq \in Seq(Conn) /\ sent \in Seq(1..MaxSends) /\ dialled \in Conn \cup {NoConn}
        /\ linker \in {"new", "sleep", "loop", "push"}
    BY <1>1
  <2>5. dead \in BOOLEAN
    BY DEF PoolInit
  <2>6. QED
    BY <1>3, <2>1, <2>2, <2>3, <2>4, <2>5 DEF PoolTypeOK
<1>5. Room /\ Given
  BY <1>1 DEF PoolInit, Room, Given
<1>6. QED
  BY <1>4, <1>5 DEF PoolInv

LEMMA NewPoolDialKeeps ==
    ASSUME PoolInv, NewPoolDial
    PROVE  PoolInv'
<1>1. /\ lq \in Seq(Conn) /\ Len(lq) \in Nat /\ i \in Nat /\ i < MinOpen /\ MinOpen \in Nat
      /\ linker = "new" /\ linker' = "new" /\ dialled = NoConn /\ dialled' = NoConn
      /\ i' = i + 1 /\ Len(lq) <= i
      /\ UNCHANGED <<numOpen, sender, conn, msg, sends, sent>>
  BY MinOpenAssumption DEF NewPoolDial, Sending, PoolInv, PoolTypeOK, Room
<1>2. /\ lq' \in Seq(Conn) /\ Len(lq') \in Nat /\ Len(lq') <= i'
      /\ lq # <<>> => lq' # <<>> /\ Head(lq') = Head(lq)
      /\ alive' \subseteq Conn /\ dead' \in BOOLEAN
  <2>1. ASSUME lq' = lq
        PROVE  /\ lq' \in Seq(Conn) /\ Len(lq') \in Nat /\ Len(lq') <= i'
               /\ lq # <<>> => lq' # <<>> /\ Head(lq') = Head(lq)
    BY <1>1, <2>1
  <2>2. ASSUME NEW c \in Fresh, lq' = Append(lq, c)
        PROVE  /\ lq' \in Seq(Conn) /\ Len(lq') \in Nat /\ Len(lq') <= i'
               /\ lq # <<>> => lq' # <<>> /\ Head(lq') = Head(lq)
    <3>1. c \in Conn
      BY DEF Fresh
    <3>2. QED
      BY <1>1, <2>2, <3>1, AppendMembers
  <2>3. alive' \subseteq Conn /\ dead' \in BOOLEAN
    BY DEF NewPoolDial, Fresh, PoolInv, PoolTypeOK
  <2>4. QED
    BY <2>1, <2>2, <2>3 DEF NewPoolDial
<1>3. Cardinality(ToSet(lq') \cup ({dialled'} \ {NoConn})) <= MinOpen
  <2>1. ToSet(lq') \cup ({dialled'} \ {NoConn}) = ToSet(lq')
    BY <1>1
  <2>2. IsFiniteSet(ToSet(lq')) /\ Cardinality(ToSet(lq')) <= Len(lq')
    BY <1>2, MembersOf
  <2>3. Cardinality(ToSet(lq')) \in Nat
    BY <2>2, FS_CardinalityType
  <2>4. Len(lq') <= MinOpen
    BY <1>1, <1>2
  <2>5. Cardinality(ToSet(lq')) <= MinOpen
    BY <1>1, <1>2, <2>2, <2>3, <2>4
  <2>6. QED
    BY <2>1, <2>5
<1>4. PoolTypeOK'
  BY <1>1, <1>2, <1>3 DEF PoolInv, PoolTypeOK
<1>5. Room' /\ Given'
  BY <1>1, <1>2 DEF PoolInv, Room, Given
<1>6. QED
  BY <1>4, <1>5 DEF PoolInv

\* NewPool returns, or AutoLink sleeps or wakes.
LEMMA LinkerKeeps ==
    ASSUME PoolInv, NewPoolReturn \/ AutoLinkSleep \/ AutoLinkWake
    PROVE  PoolInv'
<1>1. /\ UNCHANGED <<lq, alive, dialled, numOpen, sender, conn, msg, sends, sent, dead>>
      /\ linker # "push" /\ linker' \in {"loop", "sleep"}
      /\ i' \in {0, i}
  BY DEF NewPoolReturn, AutoLinkSleep, AutoLinkWake, Sending
<1>2. PoolTypeOK'
  BY <1>1, MinOpenAssumption DEF PoolInv, PoolTypeOK
<1>3. Room'
  BY <1>1 DEF PoolInv, Room
<1>4. QED
  BY <1>1, <1>2, <1>3, GivenStays DEF PoolInv

\* AutoLink dials only while the list is short, so that there is room.
LEMMA AutoLinkDialKeeps ==
    ASSUME PoolInv, AutoLinkDial
    PROVE  PoolInv'
<1>1. /\ lq \in Seq(Conn) /\ Len(lq) \in Nat /\ i \in Nat /\ MinOpen \in Nat
      /\ i < MinOpen - Len(lq)
      /\ linker = "loop" /\ dialled = NoConn
      /\ UNCHANGED <<lq, numOpen, sender, conn, msg, sends, sent>>
  BY MinOpenAssumption DEF AutoLinkDial, More, Sending, PoolInv, PoolTypeOK, Room
<1>2. IsFiniteSet(ToSet(lq)) /\ Cardinality(ToSet(lq)) <= Len(lq)
      /\ Cardinality(ToSet(lq)) \in Nat
  BY <1>1, MembersOf, FS_CardinalityType
<1>3. ASSUME NEW c \in Fresh, dialled' = c, alive' = alive \cup {c}, linker' = "push",
             UNCHANGED <<i, dead>>
      PROVE  PoolInv'
  <2>1. c \in Conn /\ c # NoConn
    BY NoConnAssumption DEF Fresh
  <2>2. ToSet(lq') \cup ({dialled'} \ {NoConn}) = ToSet(lq) \cup {c}
    BY <1>1, <1>3, <2>1
  <2>3. c \notin ToSet(lq)
    BY DEF Fresh
  <2>4. Cardinality(ToSet(lq) \cup {c}) = Cardinality(ToSet(lq)) + 1
    BY <1>2, <2>3, FS_AddElement
  <2>5. Cardinality(ToSet(lq') \cup ({dialled'} \ {NoConn})) <= MinOpen
    <3>1. Cardinality(ToSet(lq)) + 1 <= MinOpen
      BY <1>1, <1>2
    <3>2. QED
      BY <2>2, <2>4, <3>1
  <2>6. PoolTypeOK'
    BY <1>1, <1>3, <2>1, <2>5 DEF PoolInv, PoolTypeOK
  <2>7. Room'
    BY <1>1, <1>3, <2>1 DEF Room
  <2>8. QED
    BY <1>1, <2>6, <2>7, GivenStays DEF PoolInv
<1>4. ASSUME i' = i + 1, linker' = "loop", UNCHANGED <<dialled, alive, dead>>
      PROVE  PoolInv'
  <2>1. PoolTypeOK'
    BY <1>1, <1>4 DEF PoolInv, PoolTypeOK
  <2>2. Room'
    BY <1>1, <1>4 DEF Room
  <2>3. QED
    BY <1>1, <2>1, <2>2, GivenStays DEF PoolInv
<1>5. ASSUME dead' = TRUE, UNCHANGED <<i, linker, dialled, alive>>
      PROVE  PoolInv'
  <2>1. PoolTypeOK'
    BY <1>1, <1>5 DEF PoolInv, PoolTypeOK
  <2>2. Room'
    BY <1>1, <1>5 DEF Room
  <2>3. QED
    BY <1>1, <2>1, <2>2, GivenStays DEF PoolInv
<1>6. QED
  BY <1>3, <1>4, <1>5 DEF AutoLinkDial, Dial

\* The connection that is pushed was known already.
LEMMA AutoLinkPushKeeps ==
    ASSUME PoolInv, AutoLinkPush
    PROVE  PoolInv'
<1>1. /\ lq \in Seq(Conn) /\ Len(lq) \in Nat /\ i \in Nat /\ i < MinOpen /\ MinOpen \in Nat
      /\ linker = "push" /\ dialled # NoConn /\ dialled \in Conn
      /\ lq' = Append(lq, dialled) /\ dialled' = NoConn /\ i' = i + 1 /\ linker' = "loop"
      /\ UNCHANGED <<alive, dead, numOpen, sender, conn, msg, sends, sent>>
  BY MinOpenAssumption DEF AutoLinkPush, Sending, PoolInv, PoolTypeOK, Room
<1>2. /\ lq' \in Seq(Conn) /\ lq' # <<>> /\ ToSet(lq') = ToSet(lq) \cup {dialled}
      /\ lq # <<>> => Head(lq') = Head(lq)
  BY <1>1, AppendMembers
<1>3. ToSet(lq') \cup ({dialled'} \ {NoConn}) = ToSet(lq) \cup ({dialled} \ {NoConn})
  BY <1>1, <1>2
<1>4. PoolTypeOK'
  <2>1. i' \in 0..MinOpen
    BY <1>1
  <2>2. QED
    BY <1>1, <1>2, <1>3, <2>1 DEF PoolInv, PoolTypeOK
<1>5. Room' /\ Given'
  BY <1>1, <1>2 DEF PoolInv, Room, Given
<1>6. QED
  BY <1>4, <1>5 DEF PoolInv

\* A step of a sender that leaves the list alone changes its own place only.
LEMMA SenderFrame ==
    ASSUME PoolInv, NEW s \in Sender, UNCHANGED <<lq, i, linker, dialled>>,
           NEW label \in {"idle", "get", "append", "publish", "close"}, Enter(s, label),
           conn' \in [Sender -> Conn \cup {NoConn}],
           \A z \in Sender \ {s} : conn'[z] = conn[z],
           alive' \subseteq Conn, numOpen' \in Int, sends' \in 0..MaxSends, dead' \in BOOLEAN,
           sent' \in Seq(1..MaxSends), msg' \in [Sender -> 0..MaxSends],
           \A z \in Sender \ {s} : msg'[z] = msg[z], label # "idle" => msg'[s] # 0,
           label \in {"append", "publish", "close"} => lq # <<>> /\ conn'[s] = Head(lq),
           linker = "new" => label = "idle"
    PROVE  PoolInv'
<1>1. /\ sender \in [Sender -> {"idle", "get", "append", "publish", "close"}]
      /\ sender' \in [Sender -> {"idle", "get", "append", "publish", "close"}]
      /\ sender'[s] = label
      /\ \A z \in Sender \ {s} : sender'[z] = sender[z]
  BY DEF PoolInv, PoolTypeOK, Enter
<1>2. PoolTypeOK'
  BY <1>1 DEF PoolInv, PoolTypeOK
<1>3. Room'
  BY <1>1 DEF PoolInv, Room
<1>4. Given'
  <2>1. ASSUME NEW z \in Sender
        PROVE  /\ sender'[z] \in {"append", "publish", "close"} =>
                      lq' # <<>> /\ conn'[z] = Head(lq')
               /\ sender'[z] # "idle" => msg'[z] # 0
    <3>1. CASE z = s
      BY <1>1, <2>1, <3>1
    <3>2. CASE z # s
      BY <1>1, <2>1, <3>2 DEF PoolInv, Given
    <3>3. QED
      BY <3>1, <3>2
  <2>2. QED
    BY <2>1 DEF Given
<1>5. QED
  BY <1>2, <1>3, <1>4 DEF PoolInv

\* The types of what a sender's step reads.
LEMMA SenderTypes ==
    ASSUME PoolInv
    PROVE  /\ lq \in Seq(Conn) /\ sent \in Seq(1..MaxSends) /\ alive \subseteq Conn
           /\ msg \in [Sender -> 0..MaxSends]
           /\ numOpen \in Int /\ sends \in 0..MaxSends /\ dead \in BOOLEAN
           /\ conn \in [Sender -> Conn \cup {NoConn}]
           /\ \A s \in Sender : sender[s] # "idle" => msg[s] # 0
BY DEF PoolInv, PoolTypeOK, Given

LEMMA SendDataMapKeeps ==
    ASSUME PoolInv, NEW s \in Sender, SendDataMap(s)
    PROVE  PoolInv'
<1>1. /\ UNCHANGED <<lq, i, linker, dialled, alive, numOpen, conn, sent, dead>>
      /\ Enter(s, "get") /\ linker # "new"
      /\ sends < MaxSends /\ sends' = sends + 1 /\ msg' = [msg EXCEPT ![s] = sends + 1]
  BY DEF SendDataMap, Linking
<1>2. /\ sends' \in 0..MaxSends /\ msg' \in [Sender -> 0..MaxSends] /\ msg'[s] # 0
      /\ \A z \in Sender \ {s} : msg'[z] = msg[z]
  <2>1. sends + 1 \in 0..MaxSends /\ sends + 1 # 0
    BY <1>1, SenderTypes, MaxSendsAssumption
  <2>2. QED
    BY <1>1, <2>1, SenderTypes
<1>3. /\ sent' \in Seq(1..MaxSends) /\ alive' \subseteq Conn /\ numOpen' \in Int
      /\ dead' \in BOOLEAN
      /\ conn' \in [Sender -> Conn \cup {NoConn}]
      /\ \A z \in Sender \ {s} : conn'[z] = conn[z]
  BY <1>1, SenderTypes
<1>4. QED
  BY <1>1, <1>2, <1>3, SenderFrame

LEMMA GetKeeps ==
    ASSUME PoolInv, NEW s \in Sender, Get(s)
    PROVE  PoolInv'
<1>1. /\ UNCHANGED <<lq, i, linker, dialled, alive, numOpen, msg, sends, sent>>
      /\ linker # "new" /\ sender[s] = "get"
  BY DEF Get, Linking, PoolInv, Room
<1>2. /\ sent' \in Seq(1..MaxSends) /\ alive' \subseteq Conn /\ numOpen' \in Int
      /\ sends' \in 0..MaxSends
      /\ msg' \in [Sender -> 0..MaxSends] /\ msg'[s] # 0
      /\ \A z \in Sender \ {s} : msg'[z] = msg[z]
  BY <1>1, SenderTypes
<1>3. ASSUME lq = <<>>, Enter(s, "idle"), dead' \in BOOLEAN, UNCHANGED conn
      PROVE  PoolInv'
  <2>1. conn' \in [Sender -> Conn \cup {NoConn}] /\ \A z \in Sender \ {s} : conn'[z] = conn[z]
    BY <1>3, SenderTypes
  <2>2. QED
    BY <1>1, <1>2, <1>3, <2>1, SenderFrame
<1>4. ASSUME dead' = TRUE, UNCHANGED <<sender, conn>>
      PROVE  PoolInv'
  <2>1. PoolTypeOK'
    BY <1>1, <1>4 DEF PoolInv, PoolTypeOK
  <2>2. Room'
    BY <1>1 DEF PoolInv, Room
  <2>3. QED
    BY <1>1, <1>4, <2>1, <2>2, GivenStays DEF PoolInv
<1>5. ASSUME lq # <<>>, conn' = [conn EXCEPT ![s] = Head(lq)], Enter(s, "append"),
             UNCHANGED dead
      PROVE  PoolInv'
  <2>1. Head(lq) \in Conn
    BY <1>5, SenderTypes
  <2>2. /\ conn' \in [Sender -> Conn \cup {NoConn}] /\ conn'[s] = Head(lq)
        /\ \A z \in Sender \ {s} : conn'[z] = conn[z]
    BY <1>5, <2>1, SenderTypes
  <2>3. dead' \in BOOLEAN
    BY <1>5, SenderTypes
  <2>4. QED
    BY <1>1, <1>2, <1>5, <2>2, <2>3, SenderFrame
<1>6. QED
  BY <1>3, <1>4, <1>5 DEF Get

\* What is appended is the front again.
LEMMA GetAppendKeeps ==
    ASSUME PoolInv, NEW s \in Sender, GetAppend(s)
    PROVE  PoolInv'
<1>1. /\ lq \in Seq(Conn) /\ Len(lq) \in Nat /\ lq # <<>> /\ conn[s] = Head(lq)
      /\ lq' = Append(lq, conn[s])
      /\ sender[s] = "append" /\ sender \in [Sender -> {"idle", "get", "append", "publish", "close"}]
      /\ sender' = [sender EXCEPT ![s] = "publish"]
      /\ UNCHANGED <<i, linker, dialled, alive, numOpen, conn, msg, sends, sent, dead>>
  BY DEF GetAppend, Enter, Linking, PoolInv, PoolTypeOK, Given
<1>2. Head(lq) \in Conn
  BY <1>1
<1>3. /\ lq' \in Seq(Conn) /\ lq' # <<>> /\ ToSet(lq') = ToSet(lq) \cup {Head(lq)}
      /\ Head(lq') = Head(lq)
  BY <1>1, <1>2, AppendMembers
<1>4. Head(lq) \in ToSet(lq)
  BY <1>1 DEF ToSet
<1>5. ToSet(lq') = ToSet(lq)
  BY <1>3, <1>4
<1>6. PoolTypeOK'
  BY <1>1, <1>3, <1>5 DEF PoolInv, PoolTypeOK
<1>7. Room'
  <2>1. linker # "new"
    BY <1>1 DEF PoolInv, Room
  <2>2. QED
    BY <1>1, <2>1 DEF PoolInv, Room
<1>8. Given'
  <2>1. ASSUME NEW z \in Sender
        PROVE  /\ sender'[z] \in {"append", "publish", "close"} =>
                      lq' # <<>> /\ conn'[z] = Head(lq')
               /\ sender'[z] # "idle" => msg'[z] # 0
    <3>1. /\ sender'[z] \in {"append", "publish", "close"} =>
                 sender[z] \in {"append", "publish", "close"}
          /\ sender'[z] # "idle" => sender[z] # "idle"
      BY <1>1, <2>1
    <3>2. QED
      BY <1>1, <1>3, <3>1 DEF PoolInv, Given
  <2>2. QED
    BY <2>1 DEF Given
<1>9. QED
  BY <1>6, <1>7, <1>8 DEF PoolInv

LEMMA PublishKeeps ==
    ASSUME PoolInv, NEW s \in Sender, Publish(s)
    PROVE  PoolInv'
<1>1. /\ UNCHANGED <<lq, i, linker, dialled, alive, numOpen, msg, sends, dead>>
      /\ sender[s] = "publish" /\ lq # <<>> /\ conn[s] = Head(lq)
      /\ linker # "new"
  BY SenderTypes DEF Publish, Linking, PoolInv, Room, Given
<1>2. /\ alive' \subseteq Conn /\ numOpen' \in Int /\ sends' \in 0..MaxSends
      /\ dead' \in BOOLEAN /\ msg' \in [Sender -> 0..MaxSends] /\ msg'[s] # 0
      /\ \A z \in Sender \ {s} : msg'[z] = msg[z]
  BY <1>1, SenderTypes
<1>3. sent' \in Seq(1..MaxSends)
  <2>1. msg[s] \in 1..MaxSends
    BY <1>1, SenderTypes, MaxSendsAssumption
  <2>2. sent \in Seq(1..MaxSends)
    BY SenderTypes
  <2>3. Append(sent, msg[s]) \in Seq(1..MaxSends)
    BY <2>1, <2>2
  <2>4. sent' = sent \/ sent' = Append(sent, msg[s])
    BY DEF Publish
  <2>5. QED
    BY <2>2, <2>3, <2>4
<1>4. ASSUME Enter(s, "close"), UNCHANGED conn
      PROVE  PoolInv'
  <2>1. conn' \in [Sender -> Conn \cup {NoConn}] /\ \A z \in Sender \ {s} : conn'[z] = conn[z]
    BY <1>4, SenderTypes
  <2>2. conn'[s] = Head(lq)
    BY <1>1, <1>4
  <2>3. QED
    BY <1>1, <1>2, <1>3, <1>4, <2>1, <2>2, SenderFrame
<1>5. ASSUME Enter(s, "idle"), conn' = [conn EXCEPT ![s] = NoConn]
      PROVE  PoolInv'
  <2>1. conn' \in [Sender -> Conn \cup {NoConn}] /\ \A z \in Sender \ {s} : conn'[z] = conn[z]
    BY <1>5, SenderTypes
  <2>2. QED
    BY <1>1, <1>2, <1>3, <1>5, <2>1, SenderFrame
<1>6. QED
  BY <1>4, <1>5 DEF Publish

LEMMA CloseKeeps ==
    ASSUME PoolInv, NEW s \in Sender, Close(s)
    PROVE  PoolInv'
<1>1. /\ UNCHANGED <<lq, i, linker, dialled, msg, sends, sent, dead>> /\ Enter(s, "idle")
      /\ alive' = alive \ {conn[s]} /\ numOpen' = numOpen - 1
      /\ conn' = [conn EXCEPT ![s] = NoConn]
  BY DEF Close, Linking
<1>2. conn' \in [Sender -> Conn \cup {NoConn}] /\ \A z \in Sender \ {s} : conn'[z] = conn[z]
  BY <1>1, SenderTypes
<1>3. /\ alive' \subseteq Conn /\ numOpen' \in Int /\ sends' \in 0..MaxSends /\ dead' \in BOOLEAN
      /\ sent' \in Seq(1..MaxSends) /\ msg' \in [Sender -> 0..MaxSends]
      /\ \A z \in Sender \ {s} : msg'[z] = msg[z]
  BY <1>1, SenderTypes
<1>4. QED
  BY <1>1, <1>2, <1>3, SenderFrame

LEMMA DisconnectKeeps ==
    ASSUME PoolInv, NEW c \in Conn, Disconnect(c)
    PROVE  PoolInv'
<1>1. /\ UNCHANGED <<lq, i, linker, dialled, numOpen, sender, conn, msg, sends, sent, dead>>
      /\ alive' \subseteq alive
  BY DEF Disconnect, Linking, Sending
<1>2. PoolTypeOK'
  BY <1>1 DEF PoolInv, PoolTypeOK
<1>3. Room'
  BY <1>1 DEF PoolInv, Room
<1>4. QED
  BY <1>1, <1>2, <1>3, GivenStays DEF PoolInv

LEMMA PoolStutter ==
    ASSUME PoolInv, UNCHANGED poolVars
    PROVE  PoolInv'
<1>1. UNCHANGED <<lq, alive, i, linker, dialled, numOpen, sender, conn, msg, sends, sent, dead>>
  BY DEF poolVars
<1>2. PoolTypeOK'
  BY <1>1 DEF PoolInv, PoolTypeOK
<1>3. Room'
  BY <1>1 DEF PoolInv, Room
<1>4. QED
  BY <1>1, <1>2, <1>3, GivenStays DEF PoolInv

LEMMA PoolStepKeeps == PoolInv /\ [PoolNext]_poolVars => PoolInv'
<1> SUFFICES ASSUME PoolInv, [PoolNext]_poolVars PROVE PoolInv'
  OBVIOUS
<1>1. CASE NewPoolDial
  BY <1>1, NewPoolDialKeeps
<1>2. CASE NewPoolReturn \/ AutoLinkSleep \/ AutoLinkWake
  BY <1>2, LinkerKeeps
<1>3. CASE AutoLinkDial
  BY <1>3, AutoLinkDialKeeps
<1>4. CASE AutoLinkPush
  BY <1>4, AutoLinkPushKeeps
<1>5. ASSUME NEW s \in Sender,
             SendDataMap(s) \/ Get(s) \/ GetAppend(s) \/ Publish(s) \/ Close(s)
      PROVE  PoolInv'
  BY <1>5, SendDataMapKeeps, GetKeeps, GetAppendKeeps, PublishKeeps, CloseKeeps
<1>6. ASSUME NEW c \in Conn, Disconnect(c) PROVE PoolInv'
  BY <1>6, DisconnectKeeps
<1>7. CASE UNCHANGED poolVars
  BY <1>7, PoolStutter
<1>8. QED
  BY <1>1, <1>2, <1>3, <1>4, <1>5, <1>6, <1>7 DEF PoolNext, AutoLink

\* NewPool and AutoLink together, while senders lengthen the list: never more
\* than MinOpen different connections, whatever MinOpen and the number of senders.
THEOREM PoolTypeCorrect == PoolSpec => []PoolTypeOK
<1>1. PoolInv => PoolTypeOK
  BY DEF PoolInv
<1> QED BY PoolInitHolds, PoolStepKeeps, <1>1, PTL DEF PoolSpec

-----------------------------------------------------------------------------
(***************************************************************************)
(* No message is delivered twice.                                          *)
(***************************************************************************)

\* Only the senders, their messages and what was sent matter.
LEMMA MessagesStay ==
    ASSUME Messages, AtMostOnce, UNCHANGED <<sender, msg, sends, sent>>
    PROVE  Messages' /\ AtMostOnce'
BY DEF Messages, AtMostOnce

LEMMA SendMessages ==
    ASSUME PoolInv, Messages, AtMostOnce, NEW s \in Sender, SendDataMap(s)
    PROVE  Messages' /\ AtMostOnce'
<1>1. /\ sent' = sent /\ sends' = sends + 1 /\ sends \in Nat
      /\ msg \in [Sender -> 0..MaxSends] /\ msg'[s] = sends + 1
      /\ \A z \in Sender \ {s} : msg'[z] = msg[z] /\ sender'[z] = sender[z]
      /\ sent \in Seq(1..MaxSends)
  BY MaxSendsAssumption DEF SendDataMap, Enter, PoolInv, PoolTypeOK
<1>2. /\ \A k \in DOMAIN sent : sent[k] \in Nat /\ sent[k] <= sends
      /\ \A z \in Sender : msg[z] \in Nat /\ msg[z] <= sends
  BY <1>1, MaxSendsAssumption DEF Messages
<1>3. /\ \A k \in DOMAIN sent' : sent'[k] <= sends'
      /\ \A z \in Sender : msg'[z] <= sends'
  BY <1>1, <1>2
<1>4. \A y, z \in Sender :
          y # z /\ sender'[y] \in Unpublished /\ sender'[z] \in Unpublished =>
              msg'[y] # msg'[z]
  BY <1>1, <1>2 DEF Messages
<1>5. \A z \in Sender : sender'[z] \in Unpublished =>
          \A k \in DOMAIN sent' : sent'[k] # msg'[z]
  BY <1>1, <1>2 DEF Messages
<1>6. QED
  BY <1>1, <1>3, <1>4, <1>5 DEF Messages, AtMostOnce

\* A sender that goes on without publishing.
LEMMA StepMessages ==
    ASSUME PoolInv, Messages, AtMostOnce, NEW s \in Sender, NEW label,
           sender' = [sender EXCEPT ![s] = label], UNCHANGED <<msg, sends, sent>>,
           label \in Unpublished => sender[s] \in Unpublished
    PROVE  Messages' /\ AtMostOnce'
<1>1. \A z \in Sender : sender'[z] \in Unpublished => sender[z] \in Unpublished
  BY DEF PoolInv, PoolTypeOK
<1>2. QED
  BY <1>1 DEF Messages, AtMostOnce

LEMMA PublishMessages ==
    ASSUME PoolInv, Messages, AtMostOnce, NEW s \in Sender, Publish(s)
    PROVE  Messages' /\ AtMostOnce'
<1>1. /\ UNCHANGED <<msg, sends>> /\ sender[s] = "publish"
      /\ \E label \in {"idle", "close"} : sender' = [sender EXCEPT ![s] = label]
  BY DEF Publish, Enter
<1>2. CASE sent' = sent
  BY <1>1, <1>2, StepMessages DEF Unpublished
<1>3. CASE sent' = Append(sent, msg[s])
  <2>1. /\ sent \in Seq(1..MaxSends) /\ Len(sent) \in Nat /\ DOMAIN sent = 1..Len(sent)
        /\ msg[s] \in 1..MaxSends /\ msg[s] <= sends
    BY <1>1, SenderTypes, MaxSendsAssumption DEF Messages
  <2>2. /\ DOMAIN sent' = 1..(Len(sent) + 1) /\ sent'[Len(sent) + 1] = msg[s]
        /\ \A k \in 1..Len(sent) : sent'[k] = sent[k]
    BY <1>3, <2>1
  <2>3. \A k \in DOMAIN sent : sent[k] # msg[s] /\ sent[k] <= sends
    BY <1>1 DEF Messages, Unpublished
  <2>4. \A z \in Sender : sender'[z] \in Unpublished => z # s /\ sender[z] \in Unpublished
    BY <1>1 DEF PoolInv, PoolTypeOK, Unpublished
  <2>5. \A k \in DOMAIN sent' : k \in DOMAIN sent \/ k = Len(sent) + 1
    BY <2>1, <2>2
  <2>6. AtMostOnce'
    BY <2>1, <2>2, <2>3, <2>5 DEF AtMostOnce
  <2>7. \A z \in Sender : sender'[z] \in Unpublished =>
            \A k \in DOMAIN sent' : sent'[k] # msg[z]
    <3>1. \A z \in Sender : sender'[z] \in Unpublished => msg[z] # msg[s]
      BY <1>1, <2>4 DEF Messages, Unpublished
    <3>2. \A z \in Sender : sender'[z] \in Unpublished =>
              \A k \in DOMAIN sent : sent[k] # msg[z]
      BY <2>4 DEF Messages
    <3>3. QED
      BY <2>1, <2>2, <2>5, <3>1, <3>2
  <2>8. \A k \in DOMAIN sent' : sent'[k] <= sends
    BY <2>1, <2>2, <2>3, <2>5
  <2>9. Messages'
    BY <1>1, <2>4, <2>7, <2>8 DEF Messages
  <2>10. QED
    BY <2>6, <2>9
<1>4. QED
  BY <1>2, <1>3 DEF Publish

LEMMA GetMessages ==
    ASSUME PoolInv, Messages, AtMostOnce, NEW s \in Sender,
           Get(s) \/ GetAppend(s) \/ Close(s)
    PROVE  Messages' /\ AtMostOnce'
<1>1. /\ UNCHANGED <<msg, sends, sent>>
      /\ \/ UNCHANGED sender
         \/ \E label \in {"idle", "append", "publish"} :
               /\ sender' = [sender EXCEPT ![s] = label]
               /\ label \in Unpublished => sender[s] \in Unpublished
  BY DEF Get, GetAppend, Close, Enter, Unpublished
<1>2. QED
  BY <1>1, MessagesStay, StepMessages

LEMMA MessagesKeep == MessageInv /\ [PoolNext]_poolVars => MessageInv'
<1> SUFFICES ASSUME MessageInv, [PoolNext]_poolVars PROVE MessageInv'
  OBVIOUS
<1>1. PoolInv /\ Messages /\ AtMostOnce /\ PoolInv'
  BY PoolStepKeeps DEF MessageInv
<1>2. CASE \/ NewPoolDial \/ NewPoolReturn \/ AutoLink
           \/ (\E c \in Conn : Disconnect(c)) \/ UNCHANGED poolVars
  <2>1. UNCHANGED <<sender, msg, sends, sent>>
    BY <1>2 DEF NewPoolDial, NewPoolReturn, AutoLink, AutoLinkDial, AutoLinkPush,
                AutoLinkSleep, AutoLinkWake, Disconnect, Sending, poolVars
  <2>2. QED
    BY <1>1, <2>1, MessagesStay DEF MessageInv
<1>3. ASSUME NEW s \in Sender,
             SendDataMap(s) \/ Get(s) \/ GetAppend(s) \/ Publish(s) \/ Close(s)
      PROVE  MessageInv'
  BY <1>1, <1>3, SendMessages, GetMessages, PublishMessages DEF MessageInv
<1>4. QED
  BY <1>2, <1>3 DEF PoolNext

\* However many senders share a connection, close it under each other and see
\* errors that do not tell whether the broker has the message: it gets none of
\* them twice.
THEOREM DeliveredOnce == PoolSpec => []AtMostOnce
<1>1. PoolInit => MessageInv
  <2>1. ASSUME PoolInit PROVE Messages /\ AtMostOnce
    <3>1. /\ DOMAIN sent = {} /\ sends = 0 /\ msg = [s \in Sender |-> 0]
          /\ sender = [s \in Sender |-> "idle"]
      BY <2>1 DEF PoolInit
    <3>2. QED
      BY <3>1 DEF Messages, AtMostOnce, Unpublished
  <2>2. QED
    BY <2>1, PoolInitHolds DEF MessageInv
<1>2. MessageInv => AtMostOnce
  BY DEF MessageInv
<1> QED BY <1>1, <1>2, MessagesKeep, PTL DEF PoolSpec
=============================================================================
