----------------------------- MODULE MateCache -----------------------------
(***************************************************************************)
(* The monitor cache: core/cache/DataCache.go, over a Redis cluster, and   *)
(* its twin core/DataCache.go, over a redigo pool.  Get reads a key from   *)
(* Redis, once for all the goroutines that ask at the same time;           *)
(* PushRedisAll copies the rows of MySQL to Redis with a time to live.     *)
(***************************************************************************)
EXTENDS Integers, FiniteSets

CONSTANTS
    Key,         \* the unikeys
    Caller,      \* the goroutines that call Get
    Pusher,      \* the goroutines that call PushRedisAll
    MaxVersion,  \* bound on the versions of a row, which begin at 1
    MaxPushes,   \* bound on the pushes
    MaxCalls,    \* bound on the calls of Get
    MaxCrashes,  \* bound on the crashes of the process
    NullRow,     \* the row whose unikey is not a string
    None         \* no flight, no key

ASSUME BoundAssumption ==
    /\ MaxVersion \in Nat \ {0}
    /\ MaxPushes \in Nat /\ MaxCalls \in Nat /\ MaxCrashes \in Nat
Version == 0..MaxVersion

\* A value is the version of the row it was made from; 0 is none.
Row == [version: Version, live: BOOLEAN]
Entry == [value: Version, ttl: BOOLEAN]
Absent == [value |-> 0, ttl |-> FALSE]

\* A call of singleflight's Do: the callers that share it, and the value once
\* it has been read.  atLeast is history: the version that Redis had when the
\* flight began, unless the key expired or the read failed since.
Flight == [members: SUBSET Caller, read: BOOLEAN, value: Version, atLeast: Version]
Result == [value: Version, atLeast: Version]

ASSUME NoneAssumption == None \notin Key \cup Flight /\ NullRow \notin Key

VARIABLES
    variant,     \* which of the two files
    db,          \* db[k]: the row of k in MySQL
    redis,       \* redis[k]: what Redis has under ocpx-unikey:k
    lru,         \* lruData, which is written only
    flight,      \* flight[k]: the call of sg.Do for k in progress
    asks,        \* asks[c]: the key c waits for
    result,      \* what the calls of Get that were the last to return did return
    step,        \* step[p]: where pusher p is
    todo,        \* todo[p]: the rows p has yet to push
    snap,        \* snap[p]: the versions p read from MySQL
    at,          \* at[p]: the key whose EXPIRE is next
    pushes, gets, crashes,  \* history: how many there were
    overlapped,  \* history: two pushes were in progress at once
    unexpiring   \* history: an EXPIRE did not follow its SET

mysql == <<db>>
getting == <<lru, flight, asks, result, gets>>
pushing == <<step, todo, snap, at, pushes, overlapped, unexpiring>>
vars == <<variant, mysql, redis, getting, pushing, crashes>>

\* Besides the types: a caller waits exactly while a flight has it.
TypeOK ==
    /\ variant \in {"cluster", "pool"}
    /\ db \in [Key -> Row]
    /\ redis \in [Key -> Entry]
    /\ lru \in [Key -> Version]
    /\ flight \in [Key -> Flight \cup {None}]
    /\ asks \in [Caller -> Key \cup {None}]
    /\ result \in Result
    /\ step \in [Pusher -> {"idle", "push", "expire"}]
    /\ todo \in [Pusher -> SUBSET (Key \cup {NullRow})]
    /\ snap \in [Pusher -> [Key -> Version]]
    /\ at \in [Pusher -> Key \cup {None}]
    /\ pushes \in 0..MaxPushes /\ gets \in 0..MaxCalls /\ crashes \in 0..MaxCrashes
    /\ overlapped \in BOOLEAN /\ unexpiring \in BOOLEAN
    /\ \A k \in Key, c \in Caller :
          asks[c] = k <=> (flight[k] # None /\ c \in flight[k].members)

Init ==
    /\ variant \in {"cluster", "pool"}
    /\ db = [k \in Key |-> [version |-> 1, live |-> TRUE]]
    /\ redis = [k \in Key |-> Absent]
    /\ lru = [k \in Key |-> 0]
    /\ flight = [k \in Key |-> None]
    /\ asks = [c \in Caller |-> None]
    /\ result = [value |-> 0, atLeast |-> 0]
    /\ step = [p \in Pusher |-> "idle"]
    /\ todo = [p \in Pusher |-> {}]
    /\ snap = [p \in Pusher |-> [k \in Key |-> 0]]
    /\ at = [p \in Pusher |-> None]
    /\ pushes = 0 /\ gets = 0 /\ crashes = 0
    /\ overlapped = FALSE
    /\ unexpiring = FALSE

-----------------------------------------------------------------------------
(***************************************************************************)
(* Get.                                                                    *)
(***************************************************************************)
\* Mutant: the LRU first, as in the lines that are commented out.
GetLru(c, k) ==
    /\ asks[c] = None
    /\ gets < MaxCalls
    /\ gets' = gets + 1
    /\ IF lru[k] # 0 /\ flight[k] = None
       THEN /\ result' = [value |-> lru[k], atLeast |-> redis[k].value]
            /\ UNCHANGED <<flight, asks>>
       ELSE /\ asks' = [asks EXCEPT ![c] = k]
            /\ flight' = [flight EXCEPT ![k] =
                 IF flight[k] = None
                 THEN [members |-> {c}, read |-> FALSE, value |-> 0,
                       atLeast |-> redis[k].value]
                 ELSE [flight[k] EXCEPT !.members = @ \cup {c}]]
            /\ UNCHANGED result
    /\ UNCHANGED <<variant, mysql, redis, lru, pushing, crashes>>

\* sg.Do: the first caller of a key begins a flight, others join it.
Get(c, k) ==
    /\ asks[c] = None
    /\ gets < MaxCalls
    /\ gets' = gets + 1
    /\ asks' = [asks EXCEPT ![c] = k]
    /\ flight' = [flight EXCEPT ![k] =
         IF flight[k] = None
         THEN [members |-> {c}, read |-> FALSE, value |-> 0, atLeast |-> redis[k].value]
         ELSE [flight[k] EXCEPT !.members = @ \cup {c}]]
    /\ UNCHANGED <<variant, mysql, redis, lru, result, pushing, crashes>>

\* The GET of Redis.  A key that is not there and an error both end as nil
\* bytes, which decode to an empty map: nil comes back from neither.
RedisGet(k) ==
    /\ flight[k] # None
    /\ ~flight[k].read
    /\ \/ /\ flight' = [flight EXCEPT ![k].read = TRUE, ![k].value = redis[k].value]
          /\ lru' = IF redis[k].value = 0 THEN lru ELSE [lru EXCEPT ![k] = redis[k].value]
       \/ /\ flight' = [flight EXCEPT ![k].read = TRUE, ![k].atLeast = 0]
          /\ UNCHANGED lru
    /\ UNCHANGED <<variant, mysql, redis, asks, result, gets, pushing, crashes>>

\* Mutant: only the caller that began the flight is given the value.
EndFlightLeader(k) ==
    LET leader == CHOOSE c \in flight[k].members : TRUE
    IN  /\ flight[k] # None
        /\ flight[k].read
        /\ flight' = [flight EXCEPT ![k] = None]
        /\ asks' = [asks EXCEPT ![leader] = None]
        /\ result' = [value |-> flight[k].value, atLeast |-> flight[k].atLeast]
        /\ UNCHANGED <<variant, mysql, redis, lru, gets, pushing, crashes>>

\* The flight ends and the key is forgotten, in one critical section; all who
\* joined return its value.
EndFlight(k) ==
    /\ flight[k] # None
    /\ flight[k].read
    /\ flight' = [flight EXCEPT ![k] = None]
    /\ asks' = [c \in Caller |-> IF c \in flight[k].members THEN None ELSE asks[c]]
    /\ result' = [value |-> flight[k].value, atLeast |-> flight[k].atLeast]
    /\ UNCHANGED <<variant, mysql, redis, lru, gets, pushing, crashes>>

-----------------------------------------------------------------------------
(***************************************************************************)
(* PushRedisAll.                                                           *)
(***************************************************************************)
\* getAll.  Rows that do not scan are left out, and so is the rest when the
\* connection breaks, for rows.Err is not asked: any part of the table is
\* taken for all of it.  (A query that fails pushes nothing.)
BeginPush(p) ==
    /\ step[p] = "idle"
    /\ pushes < MaxPushes
    /\ pushes' = pushes + 1
    /\ step' = [step EXCEPT ![p] = "push"]
    /\ \E rows \in SUBSET ({k \in Key : db[k].live} \cup {NullRow}) :
          todo' = [todo EXCEPT ![p] = rows]
    /\ snap' = [snap EXCEPT ![p] = [k \in Key |-> db[k].version]]
    /\ overlapped' = (overlapped \/ \E q \in Pusher \ {p} : step[q] # "idle")
    /\ UNCHANGED <<variant, mysql, redis, getting, at, unexpiring, crashes>>

\* A row without a unikey is passed over by one file; in the other one the
\* type assertion panics and the rest is not pushed.
PushNullRow(p) ==
    /\ step[p] = "push"
    /\ NullRow \in todo[p]
    /\ IF variant = "cluster"
       THEN todo' = [todo EXCEPT ![p] = @ \ {NullRow}] /\ UNCHANGED step
       ELSE todo' = [todo EXCEPT ![p] = {}] /\ step' = [step EXCEPT ![p] = "idle"]
    /\ UNCHANGED <<variant, mysql, redis, getting, snap, at, pushes, overlapped,
                   unexpiring, crashes>>

SetEntry(k, value, ttl) ==
    redis' = [redis EXCEPT ![k] = [value |-> value, ttl |-> ttl]]

\* Mutant: SET without a time to live.
PushKeyPlain(p, k) ==
    /\ step[p] = "push"
    /\ k \in todo[p]
    /\ todo' = [todo EXCEPT ![p] = @ \ {k}]
    /\ SetEntry(k, snap[p][k], FALSE)
    /\ UNCHANGED <<variant, mysql, getting, step, snap, at, pushes, overlapped,
                   unexpiring, crashes>>

\* SET, which may fail, in which case Redis may have it or not; the loop goes
\* on.  The cluster's SET carries the time to live, the pool's is followed by
\* an EXPIRE.
PushKey(p, k) ==
    /\ step[p] = "push"
    /\ k \in todo[p]
    /\ todo' = [todo EXCEPT ![p] = @ \ {k}]
    /\ \/ SetEntry(k, snap[p][k], variant = "cluster")
       \/ UNCHANGED redis
    /\ IF variant = "pool"
       THEN step' = [step EXCEPT ![p] = "expire"] /\ at' = [at EXCEPT ![p] = k]
       ELSE UNCHANGED <<step, at>>
    /\ UNCHANGED <<variant, mysql, getting, snap, pushes, overlapped, unexpiring, crashes>>

\* EXPIRE of whatever is under the key by now; its error is dropped.
ExpireKey(p) ==
    LET k == at[p]
    IN  /\ step[p] = "expire"
        /\ step' = [step EXCEPT ![p] = "push"]
        /\ at' = [at EXCEPT ![p] = None]
        /\ \/ redis' = [redis EXCEPT ![k].ttl = redis[k].value # 0] /\ UNCHANGED unexpiring
           \/ unexpiring' = TRUE /\ UNCHANGED redis
        /\ UNCHANGED <<variant, mysql, getting, todo, snap, pushes, overlapped, crashes>>

EndPush(p) ==
    /\ step[p] = "push"
    /\ todo[p] = {}
    /\ step' = [step EXCEPT ![p] = "idle"]
    /\ snap' = [snap EXCEPT ![p] = [k \in Key |-> 0]]
    /\ UNCHANGED <<variant, mysql, redis, getting, todo, at, pushes, overlapped,
                   unexpiring, crashes>>

PushRedisAll(p) == \/ BeginPush(p) \/ PushNullRow(p) \/ ExpireKey(p) \/ EndPush(p)
                   \/ \E k \in Key : PushKey(p, k)

-----------------------------------------------------------------------------
(***************************************************************************)
(* Everything else: MySQL, Redis' clock and the process.                   *)
(***************************************************************************)
UpdateRow(k) ==
    /\ db[k].live
    /\ \/ db[k].version < MaxVersion
          /\ db' = [db EXCEPT ![k].version = @ + 1]
       \/ db' = [db EXCEPT ![k].live = FALSE]
    /\ UNCHANGED <<variant, redis, getting, pushing, crashes>>

\* The day is over.
Expire(k) ==
    /\ redis[k].ttl
    /\ redis' = [redis EXCEPT ![k] = Absent]
    /\ flight' = IF flight[k] = None THEN flight ELSE [flight EXCEPT ![k].atLeast = 0]
    /\ UNCHANGED <<variant, mysql, lru, asks, result, gets, pushing, crashes>>

\* What the process had in memory is gone; MySQL and Redis stay.
Crash ==
    /\ crashes < MaxCrashes
    /\ crashes' = crashes + 1
    /\ lru' = [k \in Key |-> 0]
    /\ flight' = [k \in Key |-> None]
    /\ asks' = [c \in Caller |-> None]
    /\ step' = [p \in Pusher |-> "idle"]
    /\ todo' = [p \in Pusher |-> {}]
    /\ snap' = [p \in Pusher |-> [k \in Key |-> 0]]
    /\ at' = [p \in Pusher |-> None]
    /\ unexpiring' = (unexpiring \/ \E p \in Pusher : step[p] = "expire")
    /\ UNCHANGED <<variant, mysql, redis, result, gets, pushes, overlapped>>

\* The bounds are reached and nothing is in progress.
Quiet ==
    /\ gets = MaxCalls /\ \A c \in Caller : asks[c] = None
    /\ pushes = MaxPushes /\ \A p \in Pusher : step[p] = "idle"
    /\ UNCHANGED vars

Next == \/ \E c \in Caller, k \in Key : Get(c, k)
        \/ \E k \in Key : RedisGet(k) \/ EndFlight(k) \/ UpdateRow(k) \/ Expire(k)
        \/ \E p \in Pusher : PushRedisAll(p)
        \/ Crash \/ Quiet

Spec == Init /\ [][Next]_vars

\* The cluster client has a read timeout and a deadline per SET, so each of its
\* commands ends; of the pool's, which its caller makes, nothing is known.  A
\* time to live passes.
FairSpec ==
    /\ Spec
    /\ \A k \in Key : /\ WF_vars(variant = "cluster" /\ RedisGet(k))
                      /\ WF_vars(EndFlight(k))
                      /\ WF_vars(Expire(k))
    /\ \A p \in Pusher : WF_vars(variant = "cluster" /\ step[p] # "idle" /\ PushRedisAll(p))

-----------------------------------------------------------------------------
(***************************************************************************)
(* Properties.                                                             *)
(***************************************************************************)

\* Get never goes back behind what Redis had when its flight began, whoever
\* joined it, unless the key expired or could not be read since; and Redis
\* never goes back unless pushes overlap, when the older snapshot of one may
\* overwrite the newer one of the other.
FreshReads ==
    ~overlapped => result.value >= result.atLeast

\* A row that is gone from MySQL for good is gone from Redis in the end, also
\* if pushes failed, were cut off or overlapped; the twin over the pool may
\* keep it for ever, but only if an EXPIRE was lost after its SET.
DeletedRowsExpire ==
    \A k \in Key :
        <>[](~db[k].live) => \/ <>[](redis[k].value = 0)
                             \/ <>[](variant = "pool" /\ (unexpiring \/ \E p \in Pusher : at[p] = k))

\* Every Get returns, unless the process dies or the pool's Redis never
\* answers.
EveryGetReturns ==
    \A k \in Key, c \in Caller :
        (asks[c] = k) ~> \/ asks[c] # k
                         \/ variant = "pool" /\ [](flight[k] # None /\ ~flight[k].read)
=============================================================================
