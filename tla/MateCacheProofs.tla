--------------------------- MODULE MateCacheProofs ---------------------------
(***************************************************************************)
(* What Get returns is never older than what Redis had when the flight     *)
(* began, unless pushes overlapped: for any keys, callers and pushers.     *)
(* The argument: a push that is alone has a snapshot at least as new as    *)
(* all of Redis, so that its SETs never take Redis back.                   *)
(***************************************************************************)
EXTENDS MateCache, TLAPS

TypeInv == TypeOK /\ \A p \in Pusher : step[p] = "expire" => at[p] \in Key

\* Neither Redis nor a snapshot is ahead of MySQL.
Behind ==
    /\ \A k \in Key : redis[k].value <= db[k].version
    /\ \A p \in Pusher, k \in Key : snap[p][k] <= db[k].version

Alone == \A p, q \in Pusher : step[p] # "idle" /\ step[q] # "idle" => p = q

\* A push in progress will not take Redis back.
Ahead ==
    \A p \in Pusher : step[p] # "idle" =>
        \A k \in Key : redis[k].value <= snap[p][k]

\* What a flight has read, or will read, is not older than what Redis had.
FlightFresh(k) ==
    flight[k] # None =>
        IF flight[k].read THEN flight[k].atLeast <= flight[k].value
        ELSE flight[k].atLeast <= redis[k].value

FreshInv ==
    /\ TypeInv
    /\ Behind
    /\ ~overlapped => /\ Alone /\ Ahead
                      /\ \A k \in Key : FlightFresh(k)
                      /\ result.atLeast <= result.value

LEMMA VersionIsNat ==
    Version \subseteq Nat /\ 0 \in Version /\ 1 \in Version /\ MaxVersion \in Nat
BY BoundAssumption DEF Version

LEMMA AbsentType == Absent \in Entry /\ Absent.value = 0
BY VersionIsNat DEF Absent, Entry

LEMMA InitFresh == Init => FreshInv
<1> SUFFICES ASSUME Init PROVE FreshInv
  OBVIOUS
<1>1. [version |-> 1, live |-> TRUE] \in Row /\ [value |-> 0, atLeast |-> 0] \in Result
  BY VersionIsNat DEF Row, Result
<1>2. TypeOK
  <2>1. /\ variant \in {"cluster", "pool"}
        /\ db \in [Key -> Row] /\ redis \in [Key -> Entry] /\ lru \in [Key -> Version]
        /\ flight \in [Key -> Flight \cup {None}] /\ result \in Result
    BY <1>1, VersionIsNat, AbsentType DEF Init
  <2>2. /\ asks \in [Caller -> Key \cup {None}]
        /\ step \in [Pusher -> {"idle", "push", "expire"}]
        /\ todo \in [Pusher -> SUBSET (Key \cup {NullRow})]
        /\ at \in [Pusher -> Key \cup {None}]
    BY DEF Init
  <2>3. snap \in [Pusher -> [Key -> Version]]
    <3>1. [k \in Key |-> 0] \in [Key -> Version]
      BY VersionIsNat
    <3> QED BY <3>1 DEF Init
  <2>4. /\ pushes \in 0..MaxPushes /\ gets \in 0..MaxCalls /\ crashes \in 0..MaxCrashes
        /\ overlapped \in BOOLEAN /\ unexpiring \in BOOLEAN
    <3>1. pushes = 0 /\ gets = 0 /\ crashes = 0 /\ overlapped = FALSE /\ unexpiring = FALSE
      BY DEF Init
    <3>2. 0 \in 0..MaxPushes /\ 0 \in 0..MaxCalls /\ 0 \in 0..MaxCrashes
      BY BoundAssumption
    <3> QED BY <3>1, <3>2
  <2>5. \A k \in Key, c \in Caller :
           asks[c] = k <=> (flight[k] # None /\ c \in flight[k].members)
    <3>1. ASSUME NEW k \in Key, NEW c \in Caller PROVE asks[c] # k /\ flight[k] = None
      BY NoneAssumption DEF Init
    <3> QED BY <3>1
  <2> QED BY <2>1, <2>2, <2>3, <2>4, <2>5 DEF TypeOK
<1> QED BY <1>2, AbsentType DEF Init, FreshInv, TypeInv, Behind, Alone, Ahead, FlightFresh

\* What the values that are compared are.
LEMMA Numbers ==
    ASSUME TypeOK
    PROVE  /\ \A k \in Key : /\ redis[k].value \in Nat /\ redis[k].value \in Version
                             /\ db[k].version \in Nat /\ db[k].version \in Version
                             /\ flight[k] # None => /\ flight[k] \in Flight
                                                    /\ flight[k].read \in BOOLEAN
                                                    /\ flight[k].value \in Nat
                                                    /\ flight[k].atLeast \in Nat
           /\ \A p \in Pusher, k \in Key : snap[p][k] \in Nat /\ snap[p][k] \in Version
           /\ result.value \in Nat /\ result.atLeast \in Nat
<1>1. \A k \in Key : /\ redis[k] \in Entry /\ db[k] \in Row
                     /\ flight[k] # None => flight[k] \in Flight
  BY DEF TypeOK
<1>2. \A k \in Key : /\ redis[k].value \in Version /\ db[k].version \in Version
                     /\ flight[k] # None => /\ flight[k].read \in BOOLEAN
                                            /\ flight[k].value \in Version
                                            /\ flight[k].atLeast \in Version
  BY <1>1 DEF Entry, Row, Flight
<1>3. \A p \in Pusher, k \in Key : snap[p][k] \in Version
  BY DEF TypeOK
<1>4. result.value \in Version /\ result.atLeast \in Version
  BY DEF TypeOK, Result
<1> QED BY <1>1, <1>2, <1>3, <1>4, VersionIsNat

LEMMA OneEntry ==
    ASSUME TypeOK, NEW k \in Key, NEW e \in Entry, redis' = [redis EXCEPT ![k] = e]
    PROVE  /\ redis' \in [Key -> Entry] /\ redis'[k] = e
           /\ \A j \in Key \ {k} : redis'[j] = redis[j]
BY DEF TypeOK

\* A caller that waits for a key waits in its flight.
LEMMA Waiting ==
    ASSUME TypeOK, NEW c \in Caller, NEW k \in Key
    PROVE  asks[c] = k <=> flight[k] # None /\ c \in flight[k].members
BY DEF TypeOK

\* A caller begins a flight, or joins it.
LEMMA GetFresh ==
    ASSUME FreshInv, NEW c \in Caller, NEW k \in Key, Get(c, k)
    PROVE  FreshInv'
<1> DEFINE new == [members |-> {c}, read |-> FALSE, value |-> 0, atLeast |-> redis[k].value]
           joined == [flight[k] EXCEPT !.members = @ \cup {c}]
           f == IF flight[k] = None THEN new ELSE joined
<1>0. TypeOK /\ TypeInv
  BY DEF FreshInv, TypeInv
<1>1. /\ asks[c] = None /\ gets < MaxCalls /\ gets' = gets + 1
      /\ asks' = [asks EXCEPT ![c] = k]
      /\ UNCHANGED <<variant, db, redis, lru, result, step, todo, snap, at, pushes,
                     overlapped, unexpiring, crashes>>
  BY DEF Get, mysql, pushing
<1>2. flight' = [flight EXCEPT ![k] = f]
  BY DEF Get
<1>3. new \in Flight /\ new.atLeast = redis[k].value /\ ~new.read /\ new.members = {c}
  BY <1>0, Numbers, VersionIsNat DEF Flight
<1>4. ASSUME flight[k] # None
      PROVE  /\ joined \in Flight /\ joined.members = flight[k].members \cup {c}
             /\ joined.read = flight[k].read /\ joined.value = flight[k].value
             /\ joined.atLeast = flight[k].atLeast
  BY <1>0, <1>4, Numbers DEF Flight
<1> HIDE DEF new, joined
<1>5. /\ f \in Flight /\ f # None
      /\ f.members = (IF flight[k] = None THEN {} ELSE flight[k].members) \cup {c}
  BY <1>3, <1>4, NoneAssumption
<1>6. /\ flight' \in [Key -> Flight \cup {None}] /\ flight'[k] = f
      /\ \A j \in Key \ {k} : flight'[j] = flight[j]
  BY <1>0, <1>2, <1>5 DEF TypeOK
<1> HIDE DEF f
<1>7. \A j \in Key, d \in Caller :
         asks'[d] = j <=> (flight'[j] # None /\ d \in flight'[j].members)
  <2>1. asks'[c] = k /\ \A d \in Caller \ {c} : asks'[d] = asks[d]
    BY <1>0, <1>1 DEF TypeOK
  <2>2. \A j \in Key : flight[j] # None => c \notin flight[j].members
    BY <1>0, <1>1, Waiting, NoneAssumption
  <2>3. \A j \in Key, d \in Caller :
           asks[d] = j <=> (flight[j] # None /\ d \in flight[j].members)
    BY <1>0, Waiting
  <2>4. \A d \in Caller \ {c} : asks'[d] = k <=> (flight'[k] # None /\ d \in flight'[k].members)
    BY <1>5, <1>6, <2>1, <2>3
  <2>5. \A d \in Caller : \A j \in Key \ {k} :
           asks'[d] = j <=> (flight'[j] # None /\ d \in flight'[j].members)
    BY <1>6, <2>1, <2>2, <2>3
  <2> QED BY <1>5, <1>6, <2>1, <2>4, <2>5
<1>8. gets' \in 0..MaxCalls /\ asks' \in [Caller -> Key \cup {None}]
  BY <1>0, <1>1, BoundAssumption DEF TypeOK
<1>9. TypeInv'
  BY <1>0, <1>1, <1>6, <1>7, <1>8 DEF TypeOK, TypeInv
<1>10. \A j \in Key : FlightFresh(j) => FlightFresh(j)'
  <2>1. FlightFresh(k) => FlightFresh(k)'
    BY <1>0, <1>1, <1>3, <1>4, <1>6, Numbers DEF FlightFresh, f
  <2>2. \A j \in Key \ {k} : FlightFresh(j) => FlightFresh(j)'
    BY <1>1, <1>6 DEF FlightFresh
  <2> QED BY <2>1, <2>2
<1> QED BY <1>1, <1>9, <1>10 DEF FreshInv, Behind, Alone, Ahead

\* The read of a flight.
LEMMA RedisGetFresh ==
    ASSUME FreshInv, NEW k \in Key, RedisGet(k)
    PROVE  FreshInv'
<1> DEFINE got == [flight[k] EXCEPT !.read = TRUE, !.value = redis[k].value]
           lost == [flight[k] EXCEPT !.read = TRUE, !.atLeast = 0]
<1>0. TypeOK /\ TypeInv
  BY DEF FreshInv, TypeInv
<1>1. /\ flight[k] # None /\ ~flight[k].read
      /\ UNCHANGED <<variant, db, redis, asks, result, gets, step, todo, snap, at,
                     pushes, overlapped, unexpiring, crashes>>
  BY DEF RedisGet, mysql, pushing
<1>2. PICK f \in {got, lost} : flight' = [flight EXCEPT ![k] = f]
  BY DEF RedisGet
<1>3. /\ f \in Flight /\ f.members = flight[k].members /\ f.read
      /\ \/ f.value = redis[k].value /\ f.atLeast = flight[k].atLeast
         \/ f.value = flight[k].value /\ f.atLeast = 0
  <2>1. flight[k] \in Flight /\ redis[k].value \in Version /\ 0 \in Version
    BY <1>0, <1>1, Numbers, VersionIsNat
  <2>2. /\ got \in Flight /\ got.members = flight[k].members /\ got.read
        /\ got.value = redis[k].value /\ got.atLeast = flight[k].atLeast
    BY <2>1 DEF Flight
  <2>3. /\ lost \in Flight /\ lost.members = flight[k].members /\ lost.read
        /\ lost.value = flight[k].value /\ lost.atLeast = 0
    BY <2>1 DEF Flight
  <2> QED BY <2>2, <2>3
<1>4. /\ flight' \in [Key -> Flight \cup {None}] /\ flight'[k] = f
      /\ \A j \in Key \ {k} : flight'[j] = flight[j]
  BY <1>0, <1>2, <1>3 DEF TypeOK
<1>5. lru' \in [Key -> Version]
  <2>1. redis[k].value \in Version /\ lru \in [Key -> Version]
    BY <1>0, Numbers DEF TypeOK
  <2>2. [lru EXCEPT ![k] = redis[k].value] \in [Key -> Version]
    BY <2>1
  <2>3. lru' = lru \/ lru' = [lru EXCEPT ![k] = redis[k].value]
    BY DEF RedisGet
  <2> QED BY <2>1, <2>2, <2>3
<1>6. \A j \in Key, d \in Caller :
         asks'[d] = j <=> (flight'[j] # None /\ d \in flight'[j].members)
  <2>1. f # None
    BY <1>3, NoneAssumption
  <2>2. \A j \in Key, d \in Caller :
           asks[d] = j <=> (flight[j] # None /\ d \in flight[j].members)
    BY <1>0, Waiting
  <2> QED BY <1>1, <1>3, <1>4, <2>1, <2>2
<1>7. TypeInv'
  BY <1>0, <1>1, <1>4, <1>5, <1>6 DEF TypeOK, TypeInv
<1>8. \A j \in Key : FlightFresh(j) => FlightFresh(j)'
  <2>1. FlightFresh(k) => FlightFresh(k)'
    BY <1>0, <1>1, <1>3, <1>4, Numbers DEF FlightFresh
  <2>2. \A j \in Key \ {k} : FlightFresh(j) => FlightFresh(j)'
    BY <1>1, <1>4 DEF FlightFresh
  <2> QED BY <2>1, <2>2
<1> QED BY <1>1, <1>7, <1>8 DEF FreshInv, Behind, Alone, Ahead

LEMMA EndFlightFresh ==
    ASSUME FreshInv, NEW k \in Key, EndFlight(k)
    PROVE  FreshInv'
<1>0. TypeOK /\ TypeInv
  BY DEF FreshInv, TypeInv
<1>1. /\ flight[k] # None /\ flight[k].read
      /\ flight' = [flight EXCEPT ![k] = None]
      /\ asks' = [c \in Caller |-> IF c \in flight[k].members THEN None ELSE asks[c]]
      /\ result' = [value |-> flight[k].value, atLeast |-> flight[k].atLeast]
      /\ UNCHANGED <<variant, db, redis, lru, gets, step, todo, snap, at,
                     pushes, overlapped, unexpiring, crashes>>
  BY DEF EndFlight, mysql, pushing
<1>2. /\ flight' \in [Key -> Flight \cup {None}] /\ flight'[k] = None
      /\ \A j \in Key \ {k} : flight'[j] = flight[j]
  BY <1>0, <1>1 DEF TypeOK
<1>3. asks' \in [Caller -> Key \cup {None}]
  BY <1>0, <1>1 DEF TypeOK
<1>4. result' \in Result /\ result'.value = flight[k].value /\ result'.atLeast = flight[k].atLeast
  <2>1. flight[k] \in Flight
    BY <1>0, <1>1, Numbers
  <2> QED BY <1>1, <2>1 DEF Flight, Result
<1>5. \A j \in Key, d \in Caller :
         asks'[d] = j <=> (flight'[j] # None /\ d \in flight'[j].members)
  <2>1. \A j \in Key, d \in Caller :
           asks[d] = j <=> (flight[j] # None /\ d \in flight[j].members)
    BY <1>0, Waiting
  <2> QED BY <1>1, <1>2, <2>1, NoneAssumption
<1>6. TypeInv'
  BY <1>0, <1>1, <1>2, <1>3, <1>4, <1>5 DEF TypeOK, TypeInv
<1>7. \A j \in Key : FlightFresh(j) => FlightFresh(j)'
  BY <1>1, <1>2 DEF FlightFresh
<1>8. FlightFresh(k) => result'.atLeast <= result'.value
  BY <1>1, <1>4 DEF FlightFresh
<1> QED BY <1>1, <1>6, <1>7, <1>8 DEF FreshInv, Behind, Alone, Ahead

-----------------------------------------------------------------------------
\* A push begins with a snapshot of MySQL, which is ahead of Redis.
LEMMA BeginPushFresh ==
    ASSUME FreshInv, NEW p \in Pusher, BeginPush(p)
    PROVE  FreshInv'
<1>0. TypeOK /\ TypeInv
  BY DEF FreshInv, TypeInv
<1>1. /\ step[p] = "idle" /\ pushes < MaxPushes /\ pushes' = pushes + 1
      /\ step' = [step EXCEPT ![p] = "push"]
      /\ snap' = [snap EXCEPT ![p] = [k \in Key |-> db[k].version]]
      /\ overlapped' = (overlapped \/ \E q \in Pusher \ {p} : step[q] # "idle")
      /\ UNCHANGED <<variant, db, redis, lru, flight, asks, result, gets, at,
                     unexpiring, crashes>>
  BY DEF BeginPush, mysql, getting
<1>2. PICK rows \in SUBSET (Key \cup {NullRow}) : todo' = [todo EXCEPT ![p] = rows]
  BY DEF BeginPush
<1>3. todo' \in [Pusher -> SUBSET (Key \cup {NullRow})]
  BY <1>0, <1>2 DEF TypeOK
<1>4. /\ snap' \in [Pusher -> [Key -> Version]]
      /\ \A k \in Key : snap'[p][k] = db[k].version
      /\ \A q \in Pusher \ {p} : snap'[q] = snap[q]
  <2>1. [k \in Key |-> db[k].version] \in [Key -> Version]
    BY <1>0, Numbers
  <2> QED BY <1>0, <1>1, <2>1 DEF TypeOK
<1>5. /\ step' \in [Pusher -> {"idle", "push", "expire"}] /\ step'[p] = "push"
      /\ \A q \in Pusher \ {p} : step'[q] = step[q]
  BY <1>0, <1>1 DEF TypeOK
<1>6. pushes' \in 0..MaxPushes /\ overlapped' \in BOOLEAN
  BY <1>0, <1>1, BoundAssumption DEF TypeOK
<1>7. TypeInv'
  BY <1>0, <1>1, <1>3, <1>4, <1>5, <1>6 DEF TypeOK, TypeInv
<1>8. Behind'
  BY <1>0, <1>1, <1>4, Numbers DEF FreshInv, Behind
<1>9. ASSUME ~overlapped'
      PROVE  /\ Alone' /\ Ahead' /\ \A k \in Key : FlightFresh(k)'
             /\ result'.atLeast <= result'.value
  <2>1. ~overlapped /\ \A q \in Pusher \ {p} : step[q] = "idle"
    BY <1>1, <1>9
  <2>2. \A k \in Key : FlightFresh(k)'
    BY <1>1, <2>1 DEF FreshInv, FlightFresh
  <2>3. Alone'
    BY <1>5, <2>1 DEF Alone
  <2>4. Ahead'
    BY <1>1, <1>4, <1>5, <2>1 DEF FreshInv, Behind, Ahead
  <2> QED BY <1>1, <2>1, <2>2, <2>3, <2>4 DEF FreshInv
<1> QED BY <1>7, <1>8, <1>9 DEF FreshInv

\* The steps of a push that leave Redis alone or set one key from the snapshot.
LEMMA PushFresh ==
    ASSUME FreshInv, NEW p \in Pusher,
           UNCHANGED <<variant, db, flight, asks, result, gets, overlapped, crashes>>,
           step[p] # "idle",
           lru' = lru, pushes' = pushes, TypeInv',
           \A q \in Pusher \ {p} : step'[q] = step[q],
           \A q \in Pusher, k \in Key : snap'[q][k] = snap[q][k] \/ snap'[q][k] = 0,
           step'[p] # "idle" => snap'[p] = snap[p],
           \A q \in Pusher \ {p} : snap'[q] = snap[q],
           \A k \in Key : redis'[k].value \in {redis[k].value, snap[p][k]}
    PROVE  FreshInv'
<1>1. TypeOK /\ TypeInv
  BY DEF FreshInv, TypeInv
<1>2. Behind'
  BY <1>1, Numbers DEF FreshInv, Behind
<1>3. ASSUME ~overlapped
      PROVE  /\ Alone' /\ Ahead' /\ \A k \in Key : FlightFresh(k)'
             /\ result'.atLeast <= result'.value
  <2>1. /\ Alone /\ Ahead /\ \A k \in Key : FlightFresh(k)
        /\ result.atLeast <= result.value
    BY <1>3 DEF FreshInv
  <2>2. \A q \in Pusher \ {p} : step'[q] = "idle"
    BY <2>1 DEF Alone
  <2>3. Alone'
    BY <2>2 DEF Alone
  <2>4. \A k \in Key : redis[k].value <= snap[p][k]
    BY <2>1 DEF Ahead
  <2>5. Ahead'
    BY <1>1, <2>2, <2>4, Numbers DEF Ahead
  <2>6. \A k \in Key : redis[k].value <= redis'[k].value /\ redis'[k].value \in Nat
    BY <1>1, <2>4, Numbers
  <2>7. \A k \in Key : FlightFresh(k)'
    BY <1>1, <2>1, <2>6, Numbers DEF FlightFresh
  <2> QED BY <2>1, <2>3, <2>5, <2>7
<1> QED BY <1>2, <1>3 DEF FreshInv

LEMMA PushStepFresh ==
    ASSUME FreshInv, NEW p \in Pusher,
           PushNullRow(p) \/ ExpireKey(p) \/ EndPush(p) \/ \E k \in Key : PushKey(p, k)
    PROVE  FreshInv'
<1>0. TypeOK /\ TypeInv
  BY DEF FreshInv, TypeInv
<1>1. /\ UNCHANGED <<variant, db, flight, asks, result, gets, overlapped, crashes, lru, pushes>>
      /\ step[p] # "idle"
  BY DEF PushNullRow, ExpireKey, EndPush, PushKey, mysql, getting
<1>2. CASE PushNullRow(p)
  <2>1. /\ step' \in [Pusher -> {"idle", "push", "expire"}]
        /\ step'[p] # "expire" /\ \A q \in Pusher \ {p} : step'[q] = step[q]
    BY <1>0, <1>2 DEF PushNullRow, TypeOK
  <2>2. todo' \in [Pusher -> SUBSET (Key \cup {NullRow})]
    BY <1>0, <1>2 DEF PushNullRow, TypeOK
  <2>3. UNCHANGED <<redis, snap, at, unexpiring>>
    BY <1>2 DEF PushNullRow
  <2>4. TypeInv'
    BY <1>0, <1>1, <2>1, <2>2, <2>3 DEF TypeOK, TypeInv
  <2> QED BY <1>1, <2>1, <2>3, <2>4, PushFresh
<1>3. CASE ExpireKey(p)
  <2>1. /\ step' \in [Pusher -> {"idle", "push", "expire"}]
        /\ step'[p] = "push" /\ \A q \in Pusher \ {p} : step'[q] = step[q]
        /\ at' \in [Pusher -> Key \cup {None}]
        /\ \A q \in Pusher \ {p} : at'[q] = at[q]
        /\ UNCHANGED <<todo, snap>>
    BY <1>0, <1>3 DEF ExpireKey, TypeOK
  <2>2. unexpiring' \in BOOLEAN
    BY <1>0, <1>3 DEF ExpireKey, TypeOK
  <2>3. redis' \in [Key -> Entry] /\ \A k \in Key : redis'[k].value = redis[k].value
    <3> DEFINE k == at[p]
               e == [redis[k] EXCEPT !.ttl = redis[k].value # 0]
    <3>1. redis' = [redis EXCEPT ![k] = e] \/ redis' = redis
      BY <1>3 DEF ExpireKey
    <3>2. k \in Key
      BY <1>0, <1>3 DEF ExpireKey, TypeInv
    <3>3. redis[k] \in Entry
      BY <1>0, <3>2 DEF TypeOK
    <3>4. e \in Entry /\ e.value = redis[k].value
      <4>1. CASE redis[k].value # 0
        <5>1. e = [redis[k] EXCEPT !.ttl = TRUE]
          BY <4>1
        <5> QED BY <3>3, <5>1 DEF Entry
      <4>2. CASE redis[k].value = 0
        <5>1. e = [redis[k] EXCEPT !.ttl = FALSE]
          BY <4>2
        <5> QED BY <3>3, <5>1 DEF Entry
      <4> QED BY <4>1, <4>2
    <3> HIDE DEF e, k
    <3>5. CASE redis' = redis
      BY <1>0, <3>5 DEF TypeOK
    <3>6. CASE redis' = [redis EXCEPT ![k] = e]
      <4>1. /\ redis' \in [Key -> Entry] /\ redis'[k] = e
            /\ \A j \in Key \ {k} : redis'[j] = redis[j]
        BY <1>0, <3>2, <3>4, <3>6, OneEntry
      <4> QED BY <3>4, <4>1
    <3> QED BY <3>1, <3>5, <3>6
  <2>4. TypeInv'
    BY <1>0, <1>1, <2>1, <2>2, <2>3 DEF TypeOK, TypeInv
  <2> QED BY <1>1, <2>1, <2>3, <2>4, PushFresh
<1>4. CASE EndPush(p)
  <2>1. /\ step' \in [Pusher -> {"idle", "push", "expire"}]
        /\ step'[p] = "idle" /\ \A q \in Pusher \ {p} : step'[q] = step[q]
        /\ UNCHANGED <<redis, todo, at, unexpiring>>
    BY <1>0, <1>4 DEF EndPush, TypeOK
  <2>2. /\ snap' \in [Pusher -> [Key -> Version]] /\ \A k \in Key : snap'[p][k] = 0
        /\ \A q \in Pusher \ {p} : snap'[q] = snap[q]
    <3>1. [k \in Key |-> 0] \in [Key -> Version]
      BY VersionIsNat
    <3> QED BY <1>0, <1>4, <3>1 DEF EndPush, TypeOK
  <2>3. TypeInv'
    BY <1>0, <1>1, <2>1, <2>2 DEF TypeOK, TypeInv
  <2> QED BY <1>1, <2>1, <2>2, <2>3, PushFresh
<1>5. ASSUME NEW k \in Key, PushKey(p, k) PROVE FreshInv'
  <2>1. UNCHANGED <<snap, unexpiring>>
    BY <1>5 DEF PushKey
  <2>2. todo' \in [Pusher -> SUBSET (Key \cup {NullRow})]
    BY <1>0, <1>5 DEF PushKey, TypeOK
  <2>3. \/ UNCHANGED <<step, at>>
        \/ step' = [step EXCEPT ![p] = "expire"] /\ at' = [at EXCEPT ![p] = k]
    BY <1>5 DEF PushKey
  <2>4. /\ step' \in [Pusher -> {"idle", "push", "expire"}]
        /\ \A q \in Pusher \ {p} : step'[q] = step[q]
        /\ at' \in [Pusher -> Key \cup {None}]
        /\ \A q \in Pusher : step'[q] = "expire" => at'[q] \in Key
    <3>1. CASE UNCHANGED <<step, at>>
      BY <1>0, <3>1 DEF TypeOK, TypeInv
    <3>2. CASE step' = [step EXCEPT ![p] = "expire"] /\ at' = [at EXCEPT ![p] = k]
      <4>1. at'[p] = k /\ \A q \in Pusher \ {p} : at'[q] = at[q] /\ step'[q] = step[q]
        BY <1>0, <3>2 DEF TypeOK
      <4>2. /\ step' \in [Pusher -> {"idle", "push", "expire"}]
            /\ at' \in [Pusher -> Key \cup {None}]
        BY <1>0, <3>2 DEF TypeOK
      <4> QED BY <1>0, <4>1, <4>2 DEF TypeInv
    <3> QED BY <2>3, <3>1, <3>2
  <2>5. /\ redis' \in [Key -> Entry]
        /\ \A j \in Key : redis'[j].value \in {redis[j].value, snap[p][j]}
    <3>1. redis' = redis \/ \E b \in BOOLEAN :
             redis' = [redis EXCEPT ![k] = [value |-> snap[p][k], ttl |-> b]]
      BY <1>5 DEF PushKey, SetEntry
    <3>2. CASE redis' = redis
      BY <1>0, <3>2 DEF TypeOK
    <3>3. ASSUME NEW b \in BOOLEAN,
                 redis' = [redis EXCEPT ![k] = [value |-> snap[p][k], ttl |-> b]]
          PROVE  /\ redis' \in [Key -> Entry]
                 /\ \A j \in Key : redis'[j].value \in {redis[j].value, snap[p][j]}
      <4>1. [value |-> snap[p][k], ttl |-> b] \in Entry
        BY <1>0, Numbers DEF Entry
      <4>2. /\ redis' \in [Key -> Entry]
            /\ redis'[k] = [value |-> snap[p][k], ttl |-> b]
            /\ \A j \in Key \ {k} : redis'[j] = redis[j]
        BY <1>0, <3>3, <4>1, OneEntry
      <4>3. redis'[k].value = snap[p][k]
        BY <4>2
      <4> QED BY <4>2, <4>3
    <3> QED BY <3>1, <3>2, <3>3
  <2>6. TypeInv'
    BY <1>0, <1>1, <2>1, <2>2, <2>4, <2>5 DEF TypeOK, TypeInv
  <2> QED BY <1>1, <2>1, <2>4, <2>5, <2>6, PushFresh
<1> QED BY <1>2, <1>3, <1>4, <1>5

-----------------------------------------------------------------------------
LEMMA UpdateFresh ==
    ASSUME FreshInv, NEW k \in Key, UpdateRow(k)
    PROVE  FreshInv'
<1>0. TypeOK /\ TypeInv
  BY DEF FreshInv, TypeInv
<1>1. UNCHANGED <<variant, redis, lru, flight, asks, result, gets, step, todo, snap, at,
                  pushes, overlapped, unexpiring, crashes>>
  BY DEF UpdateRow, getting, pushing
<1>2. /\ db' \in [Key -> Row]
      /\ \A j \in Key : db[j].version <= db'[j].version
  <2> DEFINE newer == [db[k] EXCEPT !.version = db[k].version + 1]
             gone == [db[k] EXCEPT !.live = FALSE]
  <2>1. (db' = [db EXCEPT ![k] = newer] /\ db[k].version < MaxVersion)
        \/ db' = [db EXCEPT ![k] = gone]
    BY DEF UpdateRow
  <2>2. db[k] \in Row /\ db[k].version \in Nat
    BY <1>0, Numbers DEF TypeOK
  <2>3. ASSUME db[k].version < MaxVersion
        PROVE  newer \in Row /\ newer.version = db[k].version + 1
    <3>1. db[k].version + 1 \in Version
      BY <2>2, <2>3, VersionIsNat DEF Version
    <3> QED BY <2>2, <3>1 DEF Row
  <2>4. gone \in Row /\ gone.version = db[k].version
    BY <2>2 DEF Row
  <2> HIDE DEF newer, gone
  <2>5. PICK row \in Row : db' = [db EXCEPT ![k] = row] /\ db[k].version <= row.version
    BY <2>1, <2>2, <2>3, <2>4
  <2>6. db'[k] = row /\ \A j \in Key \ {k} : db'[j] = db[j]
    BY <1>0, <2>5 DEF TypeOK
  <2> QED BY <1>0, <2>5, <2>6, Numbers DEF TypeOK
<1>3. TypeInv'
  BY <1>0, <1>1, <1>2 DEF TypeOK, TypeInv
<1>4. Behind'
  <2>1. \A j \in Key : db'[j].version \in Nat
    <3>1. \A j \in Key : db'[j] \in Row
      BY <1>2
    <3> QED BY <3>1, VersionIsNat DEF Row
  <2> QED BY <1>0, <1>1, <1>2, <2>1, Numbers DEF FreshInv, Behind
<1> QED BY <1>1, <1>3, <1>4 DEF FreshInv, Alone, Ahead, FlightFresh

\* A key that expires takes away what its flight may count on.
LEMMA ExpireFresh ==
    ASSUME FreshInv, NEW k \in Key, Expire(k)
    PROVE  FreshInv'
<1>0. TypeOK /\ TypeInv
  BY DEF FreshInv, TypeInv
<1>1. /\ redis' = [redis EXCEPT ![k] = Absent]
      /\ UNCHANGED <<variant, db, lru, asks, result, gets, step, todo, snap, at,
                     pushes, overlapped, unexpiring, crashes>>
  BY DEF Expire, mysql, pushing
<1>2. /\ redis' \in [Key -> Entry] /\ redis'[k].value = 0
      /\ \A j \in Key \ {k} : redis'[j] = redis[j]
  BY <1>0, <1>1, AbsentType DEF TypeOK
<1>3. /\ flight' \in [Key -> Flight \cup {None}]
      /\ \A j \in Key \ {k} : flight'[j] = flight[j]
      /\ flight[k] = None => flight'[k] = None
      /\ flight[k] # None => /\ flight'[k] # None
                             /\ flight'[k].members = flight[k].members
                             /\ flight'[k].read = flight[k].read
                             /\ flight'[k].value = flight[k].value
                             /\ flight'[k].atLeast = 0
  <2> DEFINE f == [flight[k] EXCEPT !.atLeast = 0]
  <2>1. CASE flight[k] = None
    <3>1. flight' = flight
      BY <2>1 DEF Expire
    <3> QED BY <1>0, <2>1, <3>1 DEF TypeOK
  <2>2. CASE flight[k] # None
    <3>1. flight' = [flight EXCEPT ![k] = f]
      BY <2>2 DEF Expire
    <3>2. /\ f \in Flight /\ f.members = flight[k].members /\ f.read = flight[k].read
          /\ f.value = flight[k].value /\ f.atLeast = 0
      BY <1>0, <2>2, Numbers, VersionIsNat DEF Flight
    <3> HIDE DEF f
    <3>3. f # None
      BY <3>2, NoneAssumption
    <3>4. flight'[k] = f
      BY <1>0, <3>1 DEF TypeOK
    <3>5. flight' \in [Key -> Flight \cup {None}] /\ \A j \in Key \ {k} : flight'[j] = flight[j]
      BY <1>0, <3>1, <3>2 DEF TypeOK
    <3> QED BY <2>2, <3>2, <3>3, <3>4, <3>5
  <2> QED BY <2>1, <2>2
<1>4. \A j \in Key, d \in Caller :
         asks'[d] = j <=> (flight'[j] # None /\ d \in flight'[j].members)
  <2>1. \A j \in Key, d \in Caller :
           asks[d] = j <=> (flight[j] # None /\ d \in flight[j].members)
    BY <1>0, Waiting
  <2> QED BY <1>1, <1>3, <2>1
<1>5. TypeInv'
  BY <1>0, <1>1, <1>2, <1>3, <1>4 DEF TypeOK, TypeInv
<1>6. Behind'
  BY <1>0, <1>1, <1>2, Numbers DEF FreshInv, Behind
<1>7. Ahead => Ahead'
  BY <1>0, <1>1, <1>2, Numbers DEF Ahead
<1>8. \A j \in Key : FlightFresh(j) => FlightFresh(j)'
  <2>1. FlightFresh(k)'
    BY <1>0, <1>2, <1>3, Numbers DEF FlightFresh
  <2> QED BY <1>2, <1>3, <2>1 DEF FlightFresh
<1> QED BY <1>1, <1>5, <1>6, <1>7, <1>8 DEF FreshInv, Alone

LEMMA CrashFresh ==
    ASSUME FreshInv, Crash
    PROVE  FreshInv'
<1>0. TypeOK /\ TypeInv
  BY DEF FreshInv, TypeInv
<1>1. /\ crashes < MaxCrashes /\ crashes' = crashes + 1
      /\ lru' = [k \in Key |-> 0] /\ flight' = [k \in Key |-> None]
      /\ asks' = [c \in Caller |-> None] /\ step' = [p \in Pusher |-> "idle"]
      /\ todo' = [p \in Pusher |-> {}] /\ snap' = [p \in Pusher |-> [k \in Key |-> 0]]
      /\ at' = [p \in Pusher |-> None]
      /\ unexpiring' = (unexpiring \/ \E p \in Pusher : step[p] = "expire")
      /\ UNCHANGED <<variant, db, redis, result, gets, pushes, overlapped>>
  BY DEF Crash, mysql
<1>2. /\ lru' \in [Key -> Version] /\ flight' \in [Key -> Flight \cup {None}]
      /\ asks' \in [Caller -> Key \cup {None}]
      /\ step' \in [Pusher -> {"idle", "push", "expire"}]
      /\ todo' \in [Pusher -> SUBSET (Key \cup {NullRow})]
      /\ at' \in [Pusher -> Key \cup {None}]
  BY <1>1, VersionIsNat
<1>3. snap' \in [Pusher -> [Key -> Version]]
  <2>1. [k \in Key |-> 0] \in [Key -> Version]
    BY VersionIsNat
  <2> QED BY <1>1, <2>1
<1>4. \A j \in Key, d \in Caller :
         asks'[d] = j <=> (flight'[j] # None /\ d \in flight'[j].members)
  <2>1. ASSUME NEW j \in Key, NEW d \in Caller PROVE asks'[d] # j /\ flight'[j] = None
    BY <1>1, NoneAssumption
  <2> QED BY <2>1
<1>5. crashes' \in 0..MaxCrashes
  BY <1>0, <1>1, BoundAssumption DEF TypeOK
<1>6. unexpiring' \in BOOLEAN
  BY <1>1
<1>7. TypeInv'
  BY <1>0, <1>1, <1>2, <1>3, <1>4, <1>5, <1>6 DEF TypeOK, TypeInv
<1>8. Behind'
  BY <1>0, <1>1, Numbers DEF FreshInv, Behind
<1> QED BY <1>1, <1>7, <1>8 DEF FreshInv, Alone, Ahead, FlightFresh

LEMMA NextFresh == FreshInv /\ [Next]_vars => FreshInv'
<1> SUFFICES ASSUME FreshInv, [Next]_vars PROVE FreshInv'
  OBVIOUS
<1>1. ASSUME UNCHANGED vars PROVE FreshInv'
  BY <1>1 DEF vars, mysql, getting, pushing, FreshInv, TypeInv, TypeOK, Behind,
     Alone, Ahead, FlightFresh
<1> QED BY <1>1, GetFresh, RedisGetFresh, EndFlightFresh, BeginPushFresh, PushStepFresh,
           UpdateFresh, ExpireFresh, CrashFresh DEF Next, Quiet, PushRedisAll

\* Flights, snapshots and counters have their types, and a caller waits exactly
\* while a flight has it, whatever the keys, callers, pushers and crashes.
THEOREM CacheTypeCorrect == Spec => []TypeOK
<1>1. FreshInv => TypeOK
  BY DEF FreshInv, TypeInv
<1> QED BY InitFresh, NextFresh, <1>1, PTL DEF Spec

\* As long as pushes do not overlap, no Get goes back behind what Redis had when
\* its flight began: for any number of callers that join it.
THEOREM ReadsAreFresh == Spec => []FreshReads
<1>1. FreshInv => FreshReads
  <2>1. FreshInv => (result.value \in Nat /\ result.atLeast \in Nat)
    BY Numbers DEF FreshInv, TypeInv
  <2> QED BY <2>1 DEF FreshInv, FreshReads
<1> QED BY InitFresh, NextFresh, <1>1, PTL DEF Spec
=============================================================================
