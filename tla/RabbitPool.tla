----------------------------- MODULE RabbitPool -----------------------------
(***************************************************************************)
(* The connection pool of common/pool/pool.go, as common/rabbitmq/         *)
(* producer.go uses it: NewPool dials MinOpen connections, AutoLink dials  *)
(* again when the list is short, SendDataMap takes a connection with Get,  *)
(* publishes on it and closes it after an error.  Get gives out the front  *)
(* of the list and appends it again; nothing is ever taken off the list.   *)
(***************************************************************************)
EXTENDS Integers, Sequences, FiniteSets, SequencesExt

CONSTANTS
    Conn,     \* the connections that can be dialled
    Sender,   \* the goroutines that send
    MinOpen,  \* the size below which AutoLink dials
    MaxSends, \* bound on the messages
    NoConn    \* no connection

ASSUME MinOpenAssumption == MinOpen \in Nat
ASSUME MaxSendsAssumption == MaxSends \in Nat
ASSUME NoConnAssumption == NoConn \notin Conn

VARIABLES
    lq,       \* the list of connections
    alive,    \* the connections that are open
    i,        \* the loop variable of NewPool or AutoLink
    linker,   \* where that loop is; "new" until NewPool returns
    dialled,  \* the connection it has dialled and not yet appended
    numOpen,  \* poolConfig.NumOpen, which starts at 0
    sender,   \* sender[s]: where s is in SendDataMap
    conn,     \* conn[s]: the connection s was given
    msg,      \* msg[s]: the number of the message s was called with last
    sends,    \* history: how many messages there were
    sent,     \* history: the messages the broker got
    dead      \* the process has died

poolVars == <<lq, alive, i, linker, dialled, numOpen, sender, conn, msg,
              sends, sent, dead>>

\* Besides the types: however often the list repeats a connection, and however
\* the senders lengthen it while AutoLink counts, there are never more than
\* MinOpen different ones.
PoolTypeOK ==
    /\ lq \in Seq(Conn)
    /\ alive \subseteq Conn
    /\ i \in 0..MinOpen
    /\ linker \in {"new", "sleep", "loop", "push"}
    /\ dialled \in Conn \cup {NoConn}
    /\ numOpen \in Int
    /\ sender \in [Sender -> {"idle", "get", "append", "publish", "close"}]
    /\ conn \in [Sender -> Conn \cup {NoConn}]
    /\ msg \in [Sender -> 0..MaxSends]
    /\ sends \in 0..MaxSends
    /\ sent \in Seq(1..MaxSends)
    /\ dead \in BOOLEAN
    /\ Cardinality(ToSet(lq) \cup ({dialled} \ {NoConn})) <= MinOpen

PoolInit ==
    /\ lq = <<>>
    /\ alive = {}
    /\ i = 0
    /\ linker = "new"
    /\ dialled = NoConn
    /\ numOpen = 0
    /\ sender = [s \in Sender |-> "idle"]
    /\ conn = [s \in Sender |-> NoConn]
    /\ msg = [s \in Sender |-> 0]
    /\ sends = 0
    /\ sent = <<>>
    /\ dead = FALSE

-----------------------------------------------------------------------------
(***************************************************************************)
(* NewPool and AutoLink.                                                   *)
(***************************************************************************)
Sending == <<numOpen, sender, conn, msg, sends, sent>>

Fresh == Conn \ (ToSet(lq) \cup {dialled})

\* A channel that cannot be opened is a nil pointer, whose use panics in a
\* goroutine that nobody recovers.
Dial(next) ==
    \/ \E c \in Fresh : /\ dialled' = c
                        /\ alive' = alive \cup {c}
                        /\ linker' = "push"
                        /\ UNCHANGED <<i, dead>>
    \/ i' = i + 1 /\ linker' = next /\ UNCHANGED <<dialled, alive, dead>>
    \/ dead' = TRUE /\ UNCHANGED <<i, linker, dialled, alive>>

NewPoolDial ==
    /\ linker = "new"
    /\ i < MinOpen
    /\ dialled = NoConn
    /\ \/ \E c \in Fresh : /\ lq' = Append(lq, c)
                           /\ alive' = alive \cup {c}
                           /\ UNCHANGED dead
       \/ UNCHANGED <<lq, alive, dead>>
       \/ dead' = TRUE /\ UNCHANGED <<lq, alive>>
    /\ i' = i + 1
    /\ UNCHANGED <<linker, dialled, Sending>>

NewPoolReturn ==
    /\ linker = "new"
    /\ i = MinOpen
    /\ linker' = "loop"
    /\ i' = 0
    /\ UNCHANGED <<lq, alive, dialled, dead, Sending>>

\* Mutant: the test after the dial.
MoreLate == i <= MinOpen - Len(lq)

\* Evaluated anew in each round, when i and the list may both have grown.
More == i < MinOpen - Len(lq)

AutoLinkDial ==
    /\ linker = "loop"
    /\ More
    /\ Dial("loop")
    /\ UNCHANGED <<lq, Sending>>

AutoLinkPush ==
    /\ linker = "push"
    /\ lq' = Append(lq, dialled)
    /\ dialled' = NoConn
    /\ i' = i + 1
    /\ linker' = "loop"
    /\ UNCHANGED <<alive, dead, Sending>>

AutoLinkSleep ==
    /\ linker = "loop" /\ ~More
    /\ linker' = "sleep"
    /\ UNCHANGED <<lq, alive, i, dialled, dead, Sending>>

AutoLinkWake ==
    /\ linker = "sleep"
    /\ linker' = "loop"
    /\ i' = 0
    /\ UNCHANGED <<lq, alive, dialled, dead, Sending>>

AutoLink == AutoLinkDial \/ AutoLinkPush \/ AutoLinkSleep \/ AutoLinkWake

-----------------------------------------------------------------------------
(***************************************************************************)
(* SendDataMap.                                                            *)
(***************************************************************************)
Linking == <<i, linker, dialled>>

Enter(s, label) == sender' = [sender EXCEPT ![s] = label]

SendDataMap(s) ==
    /\ linker # "new"
    /\ sender[s] = "idle"
    /\ sends < MaxSends
    /\ sends' = sends + 1
    /\ msg' = [msg EXCEPT ![s] = sends + 1]
    /\ Enter(s, "get")
    /\ UNCHANGED <<lq, alive, numOpen, conn, sent, dead, Linking>>

\* Get looks at the front only.  An empty list is an error, which SendDataMap
\* logs before it uses the nil connection: a panic, which kills the goroutine
\* or the process.  For a closed connection Get calls itself, and as nothing
\* takes it off the list, until the stack is used up, which kills the process.
Get(s) ==
    /\ sender[s] = "get"
    /\ \/ /\ lq = <<>>
          /\ Enter(s, "idle")
          /\ dead' \in BOOLEAN
          /\ UNCHANGED conn
       \/ /\ lq # <<>> /\ Head(lq) \notin alive
          /\ dead' = TRUE
          /\ UNCHANGED <<sender, conn>>
       \/ /\ lq # <<>> /\ Head(lq) \in alive
          /\ conn' = [conn EXCEPT ![s] = Head(lq)]
          /\ Enter(s, "append")
          /\ UNCHANGED dead
    /\ UNCHANGED <<lq, alive, numOpen, msg, sends, sent, Linking>>

GetAppend(s) ==
    /\ sender[s] = "append"
    /\ lq' = Append(lq, conn[s])
    /\ Enter(s, "publish")
    /\ UNCHANGED <<alive, numOpen, conn, msg, sends, sent, dead, Linking>>

\* Mutant: after an error that leaves the connection open the message is sent
\* again, as a line that is commented out would.
PublishAgain(s) ==
    /\ sender[s] = "publish"
    /\ \/ UNCHANGED sent
       \/ conn[s] \in alive /\ sent' = Append(sent, msg[s])
    /\ \/ /\ Enter(s, "idle") \/ Enter(s, "get")
          /\ conn' = [conn EXCEPT ![s] = NoConn]
       \/ Enter(s, "close") /\ UNCHANGED conn
    /\ UNCHANGED <<lq, alive, numOpen, msg, sends, dead, Linking>>

\* The broker may get the message if the connection is open.  Whether it did,
\* Publish does not tell: it writes without a confirmation, and an error may
\* come after the write.  Most errors close the connection, whose other users
\* are not asked.
Publish(s) ==
    /\ sender[s] = "publish"
    /\ \/ UNCHANGED sent
       \/ conn[s] \in alive /\ sent' = Append(sent, msg[s])
    /\ \/ Enter(s, "idle") /\ conn' = [conn EXCEPT ![s] = NoConn]
       \/ Enter(s, "close") /\ UNCHANGED conn
    /\ UNCHANGED <<lq, alive, numOpen, msg, sends, dead, Linking>>

\* NumOpen is decremented for each of the users that saw an error.
Close(s) ==
    /\ sender[s] = "close"
    /\ alive' = alive \ {conn[s]}
    /\ numOpen' = numOpen - 1
    /\ Enter(s, "idle")
    /\ conn' = [conn EXCEPT ![s] = NoConn]
    /\ UNCHANGED <<lq, msg, sends, sent, dead, Linking>>

\* The broker or the network ends a connection.
Disconnect(c) ==
    /\ c \in alive
    /\ alive' = alive \ {c}
    /\ UNCHANGED <<lq, dead, Linking, Sending>>

-----------------------------------------------------------------------------
PoolNext ==
    /\ ~dead
    /\ \/ NewPoolDial \/ NewPoolReturn \/ AutoLink
       \/ \E s \in Sender : SendDataMap(s) \/ Get(s) \/ GetAppend(s) \/ Publish(s) \/ Close(s)
       \/ \E c \in Conn : Disconnect(c)

PoolSpec == PoolInit /\ [][PoolNext]_poolVars

\* The two loops go on, and the broker answers a dial again and again.
AutoLinkDials == ~dead /\ AutoLinkDial /\ dialled' # NoConn

PoolFairSpec ==
    /\ PoolSpec
    /\ WF_poolVars(~dead /\ (NewPoolDial \/ NewPoolReturn \/ AutoLink))
    /\ SF_poolVars(AutoLinkDials)

-----------------------------------------------------------------------------
(***************************************************************************)
(* Properties.                                                             *)
(***************************************************************************)

\* The broker gets no message twice, although an error of Publish does not
\* tell whether it has it, connections break, and senders close them under
\* each other.
AtMostOnce == \A j, k \in DOMAIN sent : sent[j] = sent[k] => j = k

\* What the comments say of MinOpen (the fewest resources of the pool) and of
\* AutoLink (which looks for connections that are offline): while the broker
\* can be dialled, there are MinOpen open connections again and again.
MinOpenKept == []<>(dead \/ Cardinality(alive) >= MinOpen)
=============================================================================
