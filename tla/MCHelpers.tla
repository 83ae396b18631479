----------------------------- MODULE MCHelpers -----------------------------
(***************************************************************************)
(* Two parts that share nothing: each behaviour is one of the connection   *)
(* pool, with two connections of three and two senders, or one of a search *)
(* in a table of up to three lines, sorted or not, with ranges that are    *)
(* disjoint, overlap, are reversed or do not parse, and lines that are     *)
(* left out.                                                               *)
(***************************************************************************)
EXTENDS RabbitPool, IpSearch

VARIABLE part

vars == <<part, poolVars, searchVars>>

MCConn == {"a", "b", "c"}
MCSender == {"s1", "s2"}

MCAddress == 0..3

MCFiles == UNION {[1..n -> [fields: {3}, s: 0..3, e: -1..3]] : n \in 0..2}
           \cup [1..3 -> [fields: {3}, s: {0, 1, 2}, e: {1, 2}] \cup
                         [fields: {2, 4}, s: {-1}, e: {3}]]
           \cup {[k \in 1..3 |-> [fields |-> 3, s |-> start[k], e |-> end[k]]] :
                   start \in {<<0, 1, 3>>, <<0, 2, 3>>}, end \in {<<0, 1, 3>>, <<0, 2, 3>>}}

Init ==
    /\ part \in {"pool", "search"}
    /\ PoolInit /\ SearchInit
    /\ part = "pool" => rest = <<>> /\ sip = 0

PoolStep == part = "pool" /\ PoolNext /\ UNCHANGED <<part, searchVars>>
SearchStep == part = "search" /\ SearchNext /\ UNCHANGED <<part, poolVars>>

\* The process has died, or the search has ended or goes round for ever.
Quiet ==
    /\ \/ part = "pool" /\ dead
       \/ part = "search" /\ (Over \/ Trap)
    /\ UNCHANGED vars

Next == PoolStep \/ SearchStep \/ Quiet

Spec == Init /\ [][Next]_vars /\ WF_vars(SearchStep)
=============================================================================
