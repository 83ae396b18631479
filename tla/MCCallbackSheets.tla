-------------------------- MODULE MCCallbackSheets --------------------------
(***************************************************************************)
(* One upload at a time with every kind of workbook: rows of the data      *)
(* source that are short, padded, repeated or without a campaign, click    *)
(* rows that repeat, overshoot, are negative or not a number, for all five *)
(* platforms.  Advertisement and campaign ids are drawn from one small set *)
(* so that a campaign may be named like an advertisement.                  *)
(***************************************************************************)
EXTENDS CallbackUpload, TLC

MCAtoi == ("-1" :> -1) @@ ("0" :> 0) @@ ("1" :> 1) @@ ("2" :> 2) @@ ("3" :> 3)

T(text) == [text |-> text, padded |-> FALSE]
P(text) == [text |-> text, padded |-> TRUE]

Workbook(header, rows) == [kind |-> "workbook", header |-> header, rows |-> rows]

SourceHeader == <<"ad_id", "callback_param", "campaign_id", "req_id">>

\* Complete rows: ads 1 and 2, campaigns crossed and padded.
Crossed == Workbook(SourceHeader,
    << <<T("1"), T("cp"), T("2"), T("q")>>,
       <<T("1"), T("cp"), T("1"), T("q")>>,
       <<P("2"), T("cp"), P("1"), T("q")>>,
       <<T("1"), T("cp"), T("1"), T("q")>> >>)

\* A row without a req_id, one without a campaign and one too short to keep.
Ragged == Workbook(SourceHeader,
    << <<T("1"), T("cp"), T("1")>>,
       <<T("2"), T("cp")>>,
       <<T("1")>> >>)

NoCampaign == Workbook(<<"req_id", "callback_param", "ad_id">>,
    << <<T("q"), T("cp"), T("1")>>, <<T("q"), T("cp"), T("2")>> >>)

NoParam == Workbook(<<"ad_id", "campaign_id">>, << <<T("1"), T("1")>> >>)

ClickHeader == <<"ad_id", "click_count">>

Repeated == Workbook(ClickHeader,
    << <<T("1"), T("1")>>, <<P("1"), T("2")>>, <<T("7"), T("1")>>,
       <<T("2"), T("3")>> >>)

Odd == Workbook(ClickHeader,
    << <<T("1"), T("-1")>>, <<T("2")>>, <<T("2"), P("1")>>, <<Blank, T("1")>>,
       <<T("1"), T("0")>>, <<T("1"), T("x")>>, <<T("1"), T("3")>> >>)

NoCount == Workbook(<<"ad_id">>, << <<T("1")>> >>)

OneFile(book, excel) == [name |-> "f", excel |-> excel, book |-> book]

MCRequest == {"r1"}
MCFileName == {"f"}

Pairs ==
    ({Crossed, Ragged, NoCampaign} \X {Repeated, Odd})
    \cup {<<NoParam, Odd>>, <<Ragged, NoCount>>, <<Unreadable("other"), Odd>>,
          <<Workbook(SourceHeader, <<>>), Odd>>}

MCSubmissions == [r \in MCRequest |->
    {[platform |-> p, files |-> <<OneFile(b[1], TRUE), OneFile(b[2], TRUE)>>] :
        p \in Platform, b \in Pairs}
    \cup {[platform |-> p, files |-> <<OneFile(Crossed, TRUE), OneFile(Odd, FALSE)>>] :
        p \in Platform}
    \cup {[platform |-> p, files |-> <<OneFile(Crossed, TRUE)>>] : p \in Platform}]
=============================================================================
