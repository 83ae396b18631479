--------------------------- MODULE CallbackPromise ---------------------------
(***************************************************************************)
(* What a callback upload promises its client, without files, readers or   *)
(* loops: the client's own two workbooks determine a set of calls, each is *)
(* made once, and a 200 is given when all are made, with totals that       *)
(* describe them.  An error is given before any call.  A request that the  *)
(* process dies under gets neither.  Which calls are made is promised to a *)
(* request only while it is alone: no other one in flight uses the name of *)
(* one of its files.                                                       *)
(***************************************************************************)
EXTENDS CallbackSheets

CONSTANTS Request, Submissions, None

VARIABLES phase, upload, sent, reply, alone
vars == <<phase, upload, sent, reply, alone>>

Init ==
    /\ phase = [r \in Request |-> "new"]
    /\ upload = [r \in Request |-> None]
    /\ sent = [r \in Request |-> <<>>]
    /\ reply = [r \in Request |-> None]
    /\ alone = [r \in Request |-> TRUE]

\* The calls a pair of workbooks asks for: a click row asks for the first
\* count rows of the slice filed under its advertisement.
Calls(u) ==
    LET p == u.platform
        keys == ReadDataSource(p, u.files[1].book).keys
        list == ReadClickData(p, u.files[2].book)
        rank(i) == Cardinality({k \in DOMAIN keys : keys[k] = keys[i] /\ k <= i})
    IN  {c \in (DOMAIN keys) \X (DOMAIN list) :
            keys[c[1]] = list[c[2]].ad /\ rank(c[1]) <= list[c[2]].count}

Made(r) == {<<sent[r][n].row, sent[r][n].click>> : n \in DOMAIN sent[r]}

Submit(r) ==
    /\ phase[r] = "new"
    /\ phase' = [phase EXCEPT ![r] = "working"]
    /\ \E u \in Submissions[r] : upload' = [upload EXCEPT ![r] = u]
    /\ \A q \in Request : alone'[q] \in {alone[q], FALSE}
    /\ UNCHANGED <<sent, reply>>

\* The next call is c, the last one of sent'.
Call(r) ==
    LET c == sent'[r][Len(sent'[r])]
    IN  /\ phase[r] = "working"
        /\ Len(sent'[r]) = Len(sent[r]) + 1
        /\ sent' = [sent EXCEPT ![r] = Append(@, c)]
        /\ c.ok => c.accepted
        /\ alone[r] => /\ Len(upload[r].files) = 2
                       /\ <<c.row, c.click>> \in Calls(upload[r]) \ Made(r)
        /\ UNCHANGED <<phase, upload, reply, alone>>

Answer(r, status) ==
    LET ok == {n \in DOMAIN sent[r] : sent[r][n].ok}
    IN  /\ phase' = [phase EXCEPT ![r] = "answered"]
        /\ reply' = [reply EXCEPT ![r] =
                        [status |-> status, total |-> Len(sent[r]),
                         success |-> Cardinality(ok),
                         failed |-> Len(sent[r]) - Cardinality(ok)]]
        /\ UNCHANGED <<upload, sent, alone>>

Succeed(r) ==
    /\ phase[r] = "working"
    /\ alone[r] => /\ Len(upload[r].files) = 2
                   /\ Made(r) = Calls(upload[r])
    /\ Answer(r, 200)

Refuse(r) ==
    /\ phase[r] = "working"
    /\ sent[r] = <<>>
    /\ \E status \in {400, 500} : Answer(r, status)

Lose ==
    /\ phase' = [r \in Request |-> IF phase[r] = "working" THEN "lost"
                                                           ELSE phase[r]]
    /\ UNCHANGED <<upload, sent, reply, alone>>

Next ==
    \/ \E r \in Request : Submit(r) \/ Call(r) \/ Succeed(r) \/ Refuse(r)
    \/ Lose

Spec == Init /\ [][Next]_vars
=============================================================================
