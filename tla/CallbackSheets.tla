--------------------------- MODULE CallbackSheets ---------------------------
(***************************************************************************)
(* The two spreadsheets of a callback upload, as the readers of            *)
(* service/{juliang,gdt,honor,uc,ks}.go see them.  The first sheet (the    *)
(* data source) lists callback records; the second (the click data) says   *)
(* how many records to send for an advertisement.  Rows are numbered from  *)
(* 1 below the header; a column index of 0 is the code's -1.               *)
(***************************************************************************)
EXTENDS Integers, Sequences, FiniteSets

CONSTANT Atoi  \* the texts strconv.Atoi accepts, each with its value

ASSUME AtoiAssumption == Atoi \in [DOMAIN Atoi -> Int]

Platform == {"juliang", "gdt", "honor", "uc", "ks"}

\* A cell keeps its text and whether white space surrounds or splits it.
Cell == [text: STRING, padded: BOOLEAN]
Blank == [text |-> "", padded |-> FALSE]

\* strings.TrimSpace followed by the removal of tabs and line breaks.
Clean(c) == [c EXCEPT !.padded = FALSE]

\* What is in a file: a workbook excelize opens, some other file, a file that
\* was truncated and not yet written, or the remains of a broken write.  The
\* rows are those of GetRows: each row without its trailing empty cells.
Book == [kind: {"workbook", "other", "empty", "torn"},
         header: Seq(STRING), rows: Seq(Seq(Cell))]

Unreadable(kind) == [kind |-> kind, header |-> <<>>, rows |-> <<>>]
EmptyFile == Unreadable("empty")
TornFile == Unreadable("torn")

Least(S) == CHOOSE i \in S : \A j \in S : i <= j

FindColumnIndex(header, names) ==
    LET hits == {i \in DOMAIN header : header[i] \in names}
    IN  IF hits = {} THEN 0 ELSE Least(hits)

\* The shape every reader insists on: the file opens, there is a row below
\* the header, and the required columns exist.
Readable(book, required) ==
    /\ book.kind = "workbook"
    /\ book.rows # <<>>
    /\ \A names \in required : FindColumnIndex(book.header, names) # 0

\* The row reaches as far as the column of that name.
Has(book, i, names) ==
    LET col == FindColumnIndex(book.header, names)
    IN  col # 0 /\ Len(book.rows[i]) >= col

Value(book, i, names) == book.rows[i][FindColumnIndex(book.header, names)]

ValueOrBlank(book, i, names) ==
    IF Has(book, i, names) THEN Value(book, i, names) ELSE Blank

-----------------------------------------------------------------------------
(***************************************************************************)
(* The data source.  A reader keeps the rows that reach both required      *)
(* columns and files each under a key: keys maps a kept row to the key of  *)
(* the slice it is appended to.  panics says that the reader indexes past  *)
(* the end of a kept row, which gin's Recovery turns into a 500.           *)
(***************************************************************************)
SourceColumns == {{"ad_id"}, {"callback_param"}}

SourceReadable(book) == Readable(book, SourceColumns)

SourceRows(book) ==
    {i \in DOMAIN book.rows : \A names \in SourceColumns : Has(book, i, names)}

\* Cleaned, as ks does before it groups by it.  The other readers keep it for
\* the query string only, juliang with its padding.
AdOf(book, i) == Clean(Value(book, i, {"ad_id"}))

ByCampaign(book) ==
    [i \in SourceRows(book) |-> ValueOrBlank(book, i, {"campaign_id"})]

LacksCell(book, names) == \E i \in SourceRows(book) : ~Has(book, i, names)

JuliangReadDataSource(book) ==
    [keys   |-> [i \in SourceRows(book) |-> Clean(ByCampaign(book)[i])],
     panics |-> LacksCell(book, {"campaign_id"})]

GdtReadDataSource(book) ==
    [keys |-> ByCampaign(book), panics |-> LacksCell(book, {"req_id"})]

HonorReadDataSource(book) ==
    [keys |-> ByCampaign(book), panics |-> LacksCell(book, {"req_id"})]

UcReadDataSource(book) ==
    [keys |-> ByCampaign(book), panics |-> FALSE]

\* Mutant: the key of the other platforms.
KsReadDataSourceByCampaign(book) ==
    [keys |-> ByCampaign(book), panics |-> FALSE]

KsReadDataSource(book) ==
    [keys   |-> [i \in SourceRows(book) |-> AdOf(book, i)],
     panics |-> FALSE]

ReadDataSource(p, book) ==
    CASE p = "juliang" -> JuliangReadDataSource(book)
      [] p = "gdt"     -> GdtReadDataSource(book)
      [] p = "honor"   -> HonorReadDataSource(book)
      [] p = "uc"      -> UcReadDataSource(book)
      [] p = "ks"      -> KsReadDataSource(book)

\* dataSourceMap[key]: the rows filed under the key, in the order of the sheet.
Records(p, book, key) ==
    LET keys == ReadDataSource(p, book).keys
    IN  {i \in DOMAIN keys : keys[i] = key}

\* Mutant: records[0] in every round.
IsNthStuck(slice, i, n) == i \in slice /\ i = Least(slice)

\* records[n - 1] of a slice: the row with n members of the slice up to it.
IsNth(slice, i, n) == i \in slice /\ Cardinality({k \in slice : k <= i}) = n

-----------------------------------------------------------------------------
(***************************************************************************)
(* The click data.  Rows that are too short or whose count is not a        *)
(* number are passed over.                                                 *)
(***************************************************************************)
AdNames == {"adId_zh_lower", "adId_zh_upper", "ad_id"}
CountNames == {"clicks_zh", "click_times_zh", "click_count"}
ClickColumns == {AdNames, CountNames}

ClicksReadable(book) == Readable(book, ClickColumns)

\* strconv.Atoi does not trim: a padded count is not a number.
IsCount(c) == ~c.padded /\ c.text \in DOMAIN Atoi

JuliangReadClickData(book) ==
    [j \in {i \in DOMAIN book.rows :
              /\ \A names \in ClickColumns : Has(book, i, names)
              /\ IsCount(Value(book, i, CountNames))} |->
        [ad    |-> Clean(Value(book, j, AdNames)),
         count |-> Atoi[Value(book, j, CountNames).text]]]

GdtReadClickData(book) == JuliangReadClickData(book)
HonorReadClickData(book) == JuliangReadClickData(book)
UcReadClickData(book) == JuliangReadClickData(book)
KsReadClickData(book) == JuliangReadClickData(book)

ReadClickData(p, book) ==
    CASE p = "juliang" -> JuliangReadClickData(book)
      [] p = "gdt"     -> GdtReadClickData(book)
      [] p = "honor"   -> HonorReadClickData(book)
      [] p = "uc"      -> UcReadClickData(book)
      [] p = "ks"      -> KsReadClickData(book)

\* Mutant: count capped at len(records) - 1.
ExecutedShort(p, book, click) ==
    LET n == Cardinality(Records(p, book, click.ad)) - 1
    IN  IF click.count > n THEN n ELSE click.count

\* The number of records the loop sends for a click row.  The code's count is
\* min(click_count, len(records)); a negative one runs the loop zero times.
Executed(p, book, click) ==
    LET n == Cardinality(Records(p, book, click.ad))
    IN  IF click.count > n THEN n ELSE click.count
=============================================================================
