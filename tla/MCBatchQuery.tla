---------------------------- MODULE MCBatchQuery ----------------------------
(***************************************************************************)
(* Two batches of one kind or of both, with equal or different file names, *)
(* one or two seconds and a crash.  The sheets have rows that are asked    *)
(* about and rows that are passed over.                                    *)
(***************************************************************************)
EXTENDS BatchQuery, TLC

MCAtoi == "7" :> 7

T(text) == [text |-> text, padded |-> FALSE]
Space == [text |-> "", padded |-> TRUE]

Excel(header, rows) == [kind |-> "workbook", header |-> header, rows |-> rows]

\* The first client's JD sheet has two usable rows around a blank one; the
\* other sheets have one, after a row that is blank or too short.
JdSheet == Excel(<<"account", "url">>,
    << <<T("1"), T("m1")>>, <<Space, T("m2")>>, <<T("1"), T("m3")>> >>)
ShortJdSheet == Excel(<<"account", "url">>, << <<T("2")>>, <<T("2"), T("m")>> >>)
PidSheet == Excel(<<"name", "pid">>, << <<T("n")>>, <<T("n"), T("1")>> >>)
ShortPidSheet == Excel(<<"pid">>, << <<Space>>, <<T("2")>> >>)
NoPid == Excel(<<"name">>, << <<T("n")>> >>)

MCRequest == {"r1", "r2"}
MCFileName == {"a", "b"}
MCSecond == 1..2

F(kind, valid, task, name, book) ==
    [kind |-> kind, valid |-> valid, task |-> task, name |-> name, book |-> book]

MCSubmissions == [r \in MCRequest |->
    IF r = "r1"
    THEN {F("jd", TRUE, "7", "a", JdSheet), F("taobao", TRUE, "", "a", PidSheet),
          F("jd", TRUE, "x", "a", JdSheet), F("jd", TRUE, "", "a", JdSheet),
          F("taobao", TRUE, "", "a", NoPid)}
    ELSE {F("jd", TRUE, "7", "a", ShortJdSheet), F("taobao", TRUE, "", "a", ShortPidSheet),
          F("jd", TRUE, "x", "b", ShortJdSheet), F("jd", FALSE, "7", "a", ShortJdSheet)}]
=============================================================================
