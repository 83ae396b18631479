--------------------------- MODULE MCCallbackPair ---------------------------
(***************************************************************************)
(* Two requests at once, or one after the other, with a crash.  Each       *)
(* client has its own records, so that a record of the other one shows; the*)
(* names of their files may coincide.                                      *)
(***************************************************************************)
EXTENDS CallbackUpload, TLC

MCAtoi == ("1" :> 1) @@ ("2" :> 2)

T(text) == [text |-> text, padded |-> FALSE]

Workbook(header, rows) == [kind |-> "workbook", header |-> header, rows |-> rows]

\* The records of client c: its ad and campaign ids are the client's own.
SourceOf(c) == Workbook(<<"ad_id", "callback_param", "campaign_id", "req_id">>,
    << <<T(c), T("cp"), T(c), T("q")>>, <<T(c), T("cp"), T(c), T("q")>> >>)

ClicksOf(c) == Workbook(<<"ad_id", "click_count">>, << <<T(c), T("2")>> >>)

File1(c, name) == [name |-> name, excel |-> TRUE, book |-> SourceOf(c)]
File2(c, name) == [name |-> name, excel |-> TRUE, book |-> ClicksOf(c)]

MCRequest == {"r1", "r2"}
MCFileName == {"a", "b"}

Uploads(c, name, platforms) ==
    {[platform |-> p, files |-> <<File1(c, name), File2(c, name)>>] :
        p \in platforms}

\* The second client names its files like the first one, or not.
SomeShared ==
    [r \in MCRequest |-> IF r = "r1" THEN Uploads("1", "a", {"gdt"})
                         ELSE Uploads("2", "a", {"ks"}) \cup
                              Uploads("2", "b", {"juliang"})]

\* A row of ad 2 that belongs to the campaign named 1, clicked as ad 1.
CrossedUpload ==
    [platform |-> "gdt",
     files |-> << [name |-> "a", excel |-> TRUE, book |->
                     Workbook(<<"ad_id", "callback_param", "campaign_id", "req_id">>,
                              << <<T("2"), T("cp"), T("1"), T("q")>> >>)],
                  File2("1", "b") >>]

CrossedIds == [r \in MCRequest |-> {CrossedUpload}]
=============================================================================
