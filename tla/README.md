# A formal model of report_api

`report_api` is a Go web service (gin) that people use by hand from a browser or
a script. It uploads spreadsheets of advertising callbacks and replays the
callbacks to the platforms, it exports orders of Taobao (CPS) and JD as
workbooks, and it queries promotions row by row for an uploaded sheet. Beside
the handlers the repository carries helpers that the handlers hardly use: a
RabbitMQ pool, a logger, two-level caches, a Redis sharding, goroutine pools.

The files here are TLA+ modules translated from that code, TLC configurations
for them, and theorems with proofs that TLAPS checks. `PROJECT.json` lists the
components, the runs, the mutants (small plausible bugs that the properties
notice), which source lines each definition stands for, the hazards, the
findings and the theorems.

To repeat the work, in this directory:

    tlc -workers 2 -config MCExportFile.cfg MCExportFile
    tlapm CallbackUploadProofs.tla

## 1. Inventory

Each HTTP request runs in a goroutine of its own. Handlers share no variables:
what they share is the **working directory of the process**, where uploads and
exports are written under names that do not depend on the request, and the
**remote platforms**. Nothing is persisted but those files, and nothing removes
most of them; the process has no shutdown that waits for requests.

| component | state | operations | what is hard | what makes it correct |
|---|---|---|---|---|
| Callback upload (`service/{juliang,gdt,honor,uc,ks}.go`) | saved uploads; per request two parsed sheets, three counters, details | save two files, read both back, for each click row send the first *n* records of a slice, report | concurrent uploads under one name, partial saves, late answers, crash in the middle, ragged rows, keys | the client's own sheets decide what is sent; each call once; the report is true; an error means nothing was sent |
| CPS and JD exports (`service/{cps_*,jd_order}.go`) | one file name per endpoint | fetch, `SaveAs`, `c.File`, `os.Remove` (CPS) | two requests writing, serving and removing one file | a client gets its own rows, complete; files do not pile up; no old rows |
| Page and window loops (`jd_order.go`, `topsdk-go/query*.go`) | window, page, cursor, rows so far | next page, next window, stop | boundaries, page limit, items that appear meanwhile, damaged answers, endless pages | nothing lost, nothing twice, an end |
| JD search-hot batch (`jd_sh.go`), Taobao activity batch (`taobao_activity.go`) | uploaded file, result file; per request the sheet, the row, the lines of the result | save, read, one query per row, write the result, serve | names shared by upload and within a second; rows that fail; a query without a timeout | every row has its line, which says what the platform said; one client's result is not another's |
| TOP batch results (`topsdk-go/batch.go`) | a list of requests and of parts | pair parts with requests | a missing part shifts the rest | the right part for each request |
| Server (`main.go`, `control/`, `handler/`) | listener, signal channel | route, serve, stop | the interrupt ends the process without waiting | accepted requests are answered |
| RabbitMQ pool (`common/pool/pool.go`, `common/rabbitmq/producer.go`) | list of connections, counters | `NewPool`, `AutoLink`, `Get`, `Close`, `SendDataMap` | a connection handed out twice, counters below zero, recursion, connections that break | a bound on open ones, no message twice, closed ones replaced (they are not) |
| Goroutine pool, wait group (`common/pool/antsd.go`, `core/waitgroup.go`) | running tasks, group counter | `Submit`, `Wait`, `RunRecover` | waiting on nothing, waiting for ever | `Wait` returns after all tasks |
| Logger (`common/logger/`) | queue, current file, checkpoint | `Write_Log`, `LogFile`, `inputTask` | lines lost in a crash, dropped errors, rotation between a write and its checkpoint, a clock set back, an `INSERT` under the mutex | a line accepted is in a file once, in order; a checkpoint is final and true; nobody waits for ever |
| Two-level caches (`core/DataCache.go`, `core/cache/DataCache.go`) | LRU (written only), Redis, flights | `Get`, `PushRedisAll` | a read shared with those who join later, overlapping pushes, `SET` without its `EXPIRE` | no read goes back behind what Redis had; deleted rows disappear; every read returns |
| Redis shards (`common/redis/crc_pool.go`) | clients | `getkey` and operations | key to shard | one shard per key for all operations |
| HTTP helpers (`core/httpServer.go`) | - | get, post | timeouts | - |
| IP lookup (`common/region/ipparse.go`) | sorted ranges | binary search | malformed ranges, bounds | the range that contains the address, or none |
| Configuration, hashing, AES, user agents, metrics, MySQL connection, go-simplejson, the batch page | - | conversions, library calls | - | - |

The routes that are registered lead to the first four rows; the next ones are
helpers that no registered handler drives at this commit.

Interactions: a callback upload calls a platform over HTTP once per record; an
export calls its page loop once and then owns a shared file name for a moment;
all of them are cut off by the server's stop. There are no queues, locks or
callbacks between handlers. The logger is the only part with a queue and a lock, the cache
the only one whose goroutines share an answer, the pool the only one that hands out
what others use; none of the three is called by a handler that is registered.

## 2. Plan

Modules are written in the order in which they matter to the people who use the
service; a later module reuses the vocabulary of an earlier one only where the
code does.

| order | module | models | abstract specification | state |
|---|---|---|---|---|
| 1 | `CallbackSheets` | readers of the two sheets (pure operators) | - | done |
| 2 | `CallbackUpload` (extends 1) | the five upload handlers, concurrent, with crashes | `CallbackPromise` (extends 1): calls made once, report true | done; invariants and refinement proved |
| 3 | `ExportFile` | the five export handlers around their shared files | - | done; invariants proved |
| 4 | `PagedFetch` | the five page loops; refines the step `Fetch` of 3 in words | - | done; invariants proved |
| 5 | `BatchQuery` (extends 1) | JD and Taobao batches: upload name, queries, per-second result name | - | done; invariants proved |
| 6 | `RabbitPool` | list of connections, the goroutine that refills it, the senders | - | done; invariants proved |
| 7 | `LogPipeline` | queue, writer, hourly file, checkpoint, clock, crash | - | done; invariants proved |
| 8 | `MateCache` | Redis, single flight, pushes, MySQL, expiry | - | done; invariants proved |
| 9 | `IpSearch` | loading the table and the bisection | the definition by a quantifier (`SearchCorrect`) | done; proved |

What is not modelled is in section 6. Proofs are in modules of their own, named
after what they prove about (`...Proofs`); section 5 says what they show. Every
invariant of a passing run, and every safety property of an action, is stated by a
theorem; what is left to the runs alone is liveness.

## 3. Modules and the code

### CallbackSheets

A workbook is `[kind, header, rows]`; rows are those of excelize's `GetRows`,
without trailing empty cells, so a row may be shorter than the header. A cell is
its text and whether white space pads it, since four readers trim some cells and
not others. `FindColumnIndex` gives the first column with one of the accepted
names (`adId_zh_lower` and the like stand for the Chinese headers; the code's -1
is 0). `SourceRows` are the rows a reader keeps, those that reach the two
required columns; `...ReadDataSource` maps each kept row to the key of the slice it is
appended to. The five readers differ exactly in the key (the campaign, trimmed
or not, or, for `ks`, the advertisement) and in whether a kept row without
`req_id` or `campaign_id` makes the reader index out of range (`panics`; gin's Recovery
answers 500). `...ReadClickData` maps each click row that is long enough and whose
count `strconv.Atoi` accepts to its advertisement and count; `Atoi` is a
constant function from texts to numbers. `Executed` is
`min(click_count, len(records))` and `IsNth` says which row is `records[n-1]`.

Columns that only end up in the query string of a callback are left out.

### CallbackUpload

`disk[<<slot, name>>]` is the file `uploaded_excel_<slot>_<name>`. It survives
crashes, since nothing in the code removes it. `pc[r]` is the place of a request:

| action | code |
|---|---|
| `Receive` | the client's request reaches the handler; the requests in flight that use an equal file name are noted in `met` |
| `ParseForm` | `c.MultipartForm()`, exactly two files, else 400 |
| `CreateFile` | extension check (400), `os.Create` inside `SaveUploadedFile`: the file is emptied (or 500) |
| `CopyFile` | the copy into it; a failure leaves a part (500); two writers may leave a mixture |
| `ReadSource`, `ReadClicks` | the readers; unreadable or missing columns 500 |
| `TakeRow` | the next click row, `skipped` without records |
| `SendRecord` | one callback: the counters change by the outcome |
| `CompleteRow`, `Finish` | the detail of a row, the report (200) |
| `Crash` | the process dies, or `main` returns on an interrupt: requests in flight get no answer |

The five handlers run the same steps; `GdtUpload`, `KsProcess` and so on name them by
platform. What differs is in `CallbackSheets` (readers) and is chosen by
`upload[r].platform`. A callback's outcome is two bits: `accepted` (the platform took the call) and
`ok` (a 2xx answer came within 10 seconds), with `ok => accepted`.

`CallbackPromise` states the same from the client's point of view, without
files, readers or loops: the two workbooks determine the set of calls, each made
once; 200 when all are made; an error only before any. The mapping is
`Promise` in `CallbackUpload`, and `alone` is `met[r] = {}`: what a request is
promised about *which* calls are made holds while nobody shares its file names.

### ExportFile

Files as POSIX has them. `link[e]` is the inode that the file name of endpoint `e`
refers to, `data[i]` its content (whose rows, and whether it is one complete
workbook), `fd[r]` the inode a request has open. `CreateExport` and
`WriteExport` are `SaveAs` (open with truncation; write), `OpenExport` and
`CopyExport` are `c.File` (open and `Stat`; copy as many bytes), `RemoveExport`
is the `os.Remove` that only the CPS handlers defer. `Fetch` is the outcome of
everything before the file: it touches nothing shared, and `PagedFetch` has the
detail. A reader that is overtaken by a truncation or a writer may get any mixture; that is a
nondeterministic choice. On Windows, where `os.Remove` and truncation of an
open file fail, the outcomes differ; the model is of the Linux build, which
`src/build.sh` packages.

### PagedFetch

One request, as nothing is shared. `kind` picks the loop. For JD, `cur` is the
start of the window, `WindowEnd` its end (an hour, or ten minutes for bonus
orders, cut off at the end of the interval), `page` or `cursor` where the next
page begins; CPS has pages only. `Matching`, what the platform lists for the
window, picks the listed orders by their rank (`Nth`, `Filter`) rather than with
`SelectSeq`, which is recursive and beyond the provers. `JdOrdersEnd`, `JdBonusEnd` and `CpsEnd` are the
three rules by which a loop ends.

The platform is external: `listing` is what it lists, in its order; `List` lets an order
appear at either end while pages are fetched; `inclusive` says
whether an interval contains its end, which the code cannot know and the model
leaves open; the bonus interface takes the page from the cursor
(`sortValue`), although the code sends a page number as well. `NextCursor` is the
last `sortValue` of a page that is not empty, which need not be the last order's.

| action | answer, and what the code makes of it |
|---|---|
| `FetchPage` | a good page |
| `AnswerLost`, `AnswerRejected` | none, or one with an error code (JD also: without `queryResult`): the export is a 500 |
| `AnswerWithoutList` | no list: CPS breaks off as a success; JD, whose `data` may be missing beside a code 200, takes it for a page without orders |
| `AnswerWithBadItem` | an item that does not decode: CPS leaves it out, JD fails |
| `AnswerWithoutMore` | a page that is not the last, without `next_page` or `hasMore`: it passes for the last |
| `AnswerWithoutSort` | no bonus order of the page has a `sortValue`: it passes for the last; or some have, but not the last: the next page begins behind the last of those |
| `AnswerEndless` | more pages are claimed behind the last one; a bonus query gets the first page again |
| `DeadlineExceeded` | the 60 seconds of a CPS export are over |

The comment `jd_order.go:413` says that only orders of a given `PositionId` are kept. There
is no such filter, nor a parameter that could name one: the code keeps every order, and so
does the model. `EndTime` is the code's rewriting of `24:00:00`
to `23:59:59`.

### BatchQuery

Both handlers in one module, chosen by `form[r].kind`, since they differ in the form, the
columns and the reading of an answer only. `uploads[kind, name]` and
`results[kind, second]` are the files; nothing removes them.

| action | code |
|---|---|
| `CheckForm`, `CreateUpload`, `CopyUpload` | the form (400), `SaveUploadedFile` (500) under `uploaded_<kind>_<name>` |
| `ReadUpload` | `excelize.OpenFile`, `GetRows`, the `pid` column of Taobao (500) |
| `TakeRow` | the next row that is long enough and not blank; for JD a task that is no number makes it a line with an error at once |
| `ReceiveAnswer` | the answer becomes a line, an error like any other; the loop goes on |
| `CreateResult`, `WriteResult` | `SaveAs` under the second of the clock |
| `OpenResult`, `ServeResult` | `ctx.File` |
| `Crash` | the process dies |

`JdSays` and `TaobaoSays` are what a line says of an answer. `TaobaoSays` maps a
refusal to "no data": its `error_response` decodes into an empty struct without an error.
A second is any of `Second`: the clock may be set back, so two results may share a name
although they are not saved at the same time.

### LogPipeline

`pc` is where the goroutine of `Start_Log` is; it holds `ms_lock` unless it waits for
its timer, so `LogFile` is enabled only then. `BeginLine`, `CountLines`,
`InsertCheckpoint`, `OpenFile` and `PrintLine` are `Write_Log`, split where another
party can act: the clock, MySQL, the disk, the end of the process. `harm` counts
what went wrong, and the properties name exactly what they need not to have happened. A file is its
lines; `Long` are the lines a `bufio.Scanner` refuses, after which `countLines`
returns an error and no checkpoint is made. `MaxFaults`, `MaxSetbacks` and `MaxCrashes` bound
`harm`.

### MateCache

`variant` is one of the twins: `cluster` (`core/cache`, whose `SET` carries the time to
live) and `pool` (`core`, where an `EXPIRE` follows). A value is the version of
the MySQL row it was made from. `flight[k]` is the call of `singleflight`'s `Do` in
progress: its members, and the value once Redis has answered. The code reads Redis in every flight and
never the LRU, whose look-up is commented out (the mutant `GetLru` restores it and breaks `FreshReads`).
A missing key and an error both decode to an empty map, never to `nil`: value 0.
`BeginPush` takes any part of the table for all of it, because rows that do not
scan are left out and `rows.Err` is not asked. A `SET` that timed out is applied at once or not at
all; that Redis applies it after later commands is not modelled.

### RabbitPool and IpSearch

Two small modules checked in one run (`MCHelpers`, whose `part` says which one a behaviour is
about; their definitions therefore have different names).

`lq` is the list of the pool, with its repetitions, `alive` the open connections,
`linker` and `i` the loops of `NewPool` and `AutoLink`, whose condition is evaluated anew in
each round. `Get` is the look at the front, `GetAppend` the append under the lock.
`msg[s]` is the number of the message that `s` sends, `sent` the messages the broker got, in order:
`Publish` may hand the message over if the connection is open, and may report an error whether or not it
did, since it waits for no confirmation. When the front connection is closed, `Get` calls itself and nothing takes the connection off the list, so the
stack overflows: `dead`. A channel that cannot be opened is a nil pointer (the error of
`Channel` is dropped) and kills the process in `AutoLink`'s goroutine.

`IpSearch` loads a file line by line (`LoadLine`: lines of three or four fields, in their
order, unsorted) and then searches (`Step`, its three branches). An address is a number; one that does not
parse is nil, which `bytes.Compare` puts below all.

## 4. Runs

| run | configuration | asks | result |
|---|---|---|---|
| `callback_sheets` | one upload, 12 submissions of odd sheets on each of five platforms, lost answers, one crash | is what is sent what the sheets ask for, and is the report true | pass |
| `callback_pair` | two uploads, equal or different names, a crash | is a request that shares no name served as if it were alone | pass |
| `callback_shared_names` | the same, no crash | does a request process its own files *always* | violated |
| `callback_grouping` | a campaign named like an advertisement | are records grouped by advertisement, as the comments say | violated |
| `export_file` | three requests, up to three on one file, failed writes, a crash | what a shared name can and cannot do to a download | pass |
| `export_overlap` | the same, no crash | does each client get the file its request exported | violated |
| `paged_fetch` | seven orders, one more meanwhile, twelve intervals, five kinds | complete, no order twice, an end | pass |
| `batch_query` | two batches, equal or different names, kinds and seconds, a crash | whose rows a result has, what it says, when it comes | pass |
| `log_pipeline` | three lines, three hours, one failure, one set-back, one crash | where lines end up, what a checkpoint is worth | pass |
| `mate_cache` | one row, two readers, two pushers, both twins, a crash | what a shared read may return; whether deleted rows go | pass |
| `helpers` | two senders over two connections of three; searches in all tables of up to two lines and many of three, among them those of three ranges in order and apart | how many connections there are, whether a message comes twice; whether the bisection is right and ends | pass |
| `pool_refill` | one sender over two connections of three | are `MinOpen` connections open again and again, as the comments say | violated |

What the passing runs show:

* **Callbacks.** With a 200, each source row was sent exactly as often as there
  are click rows whose advertisement is its key and whose count reaches its rank
  (`SendsMatchSheets`). The totals are the calls, a success was accepted, a failure may
  have been (`ReportMatchesCalls`). An error
  answer means nothing was sent, so uploading again is safe
  (`ErrorMeansNothingSent`) — a *lost* answer means no such thing. Each click row
  has one detail (`DetailsAccountForCalls`). For `ks` a record sent belongs to
  the advertisement clicked (`KsSendsClickedAd`). The handler refines
  `CallbackPromise` (`KeepsPromise`), and each request ends (`EveryRequestAnswered`).
* **Ownership.** What earlier requests, failed saves and crashes left in the
  directory is never read by a request that met no rival (`OwnSheets`).
* **Exports.** A request that met no rival on its file gets its own complete
  workbook whatever was left behind (`AloneGetsOwnExport`); rows leak only from
  requests that used the file at the same time (`FreshRows`); CPS files are gone when the
  requests that succeeded are over (`CpsFilesRemoved`).
* **Pages.** `CompleteExport` names what can make a 200 miss an order: a
  window past the page limit (100 pages in the code); a page without its list (for JD, code 200
  without `data`), with an item that does not decode, without its `next_page` or
  `hasMore`, or with bonus orders none of which has a `sortValue`; and `24:00:00` where
  intervals exclude their end. For bonus orders it also leaves out the exports whose pages did not go on
  behind the last order, as the pages that repeat orders count towards the limit. `NoOrderTwice` does the same for an order
  that is exported twice: intervals include their end (adjacent windows share it), an
  order was listed before others while pages go by number, or the pages of a bonus query did not go
  on behind the last order, because the platform ignored the cursor or that order had no
  `sortValue`. Both are relative to the answers of the table in section 3. All loops end (`FetchEnds`), the JD ones by the limit
  (`PagesBounded`), the CPS ones by the deadline.

* **Batches.** A request that shared neither its upload nor its result with another one in
  flight gets a complete workbook of its own sheet's rows, whatever earlier requests and
  crashes left under the same names (`AloneGetsOwnResult`). The bytes of another client can only
  come from one that used the same result at the same time (`NoForeignData`). Each row that was
  asked about has one line, in order, which says what the platform said, but for the
  refusals of Taobao (`ResultTellsAnswers`). An answer comes before the first
  query or after the last (`AskedAllOrNothing`), also a 500 of a result that could not be
  saved, whose answers are gone. Every request ends, unless Taobao
  never answers (`EveryBatchAnswered`).
* **Logger.** No line is written twice; none is lost but by a failed open or write, or a crash
  (`LinesOnce`). Order is kept (`FilesInOrder`). While the clock only goes on,
  a file gets at most one checkpoint, with all its lines
  (`CheckpointsFinal`); a file that is left has one, unless a count or an `INSERT`
  failed, the process died, or a line was too long (`LeftFilesCheckpointed`). A call returns
  and its line is dealt with, unless an unanswered `INSERT` keeps the mutex
  for ever (`EveryLineHandled`).
* **Cache.** As long as pushes do not overlap, joining a flight never shows a version
  older than Redis had when the flight began (`FreshReads`). A row deleted from MySQL
  leaves Redis, in the pool's twin unless an `EXPIRE` was lost
  (`DeletedRowsExpire`). Every `Get` returns (`EveryGetReturns`).
* **Pool.** However the list grows, it never has more than `MinOpen` different connections
  (`PoolTypeOK`; its length grows with every `Get`, and no property bounds it). The broker gets
  no message twice, although an error does not tell whether it has it (`AtMostOnce`): this is because the second attempt in `SendDataMap` is commented out,
  and its price is that messages are lost.
* **Search.** `SearchCorrect`, and it ends on every table, sorted or
  not, without a range that starts at the address and ends below it (`SearchEnds`).

What the violated runs show (see `findings`): uploads of one file name get mixed
up; four of five platforms group records by campaign while the look-up is by
advertisement; overlapping exports of one endpoint can yield a 404, the rows of
another client, or a torn body; a connection of the pool that was closed is never replaced.

Three comments on the page loops say more than the code does, and the conditions of the
properties of `PagedFetch` show it without a run of their own. `jdHttpGet` has no retry
(`jd_order.go:35` says it has): `AnswerLost` ends the export. A page is the last one when `next_page` is
missing, however full it is (`queryOrder.go:103` speaks of pages that are not full): `noMore` in
`CompleteExport`. The cursor need not be that of the last order
(`jd_order.go:818` says so): `noLastSort` in `NoOrderTwice`.

### Bounds

* `callback_sheets`: one request, because what a sheet asks for does not depend
  on others; up to four source rows and seven click rows, which include a repeated and
  a padded advertisement, counts -1, 0, larger than the slice and not a number,
  rows too short, missing columns and cells, an unreadable file, a wrong
  extension and a wrong number of files. `MaxCrashes` 1: a second crash finds the same
  states as the first, since no request goes on after one.
* `callback_pair`: two requests, since the conflict is between two writers, or a
  writer and a reader, of one path, and the theorems have any number. A third would add
  only more rivals.
* `export_file`: three requests, so that a failed or
  crashed one, a writer and a remover can meet on a file; one file per endpoint, and files do not interact.
  `MaxCrashes` 1.
* `paged_fetch`: windows of three seconds, two orders per page, two pages per window.
  Orders lie on a boundary, in the first and the last second; one window
  exceeds the limit when the late order joins it; pages of two can have a `sortValue` in
  both orders, the first, or none. `PageBound` caps the page
  counter of the loops without a limit by alternating between its last two
  values, which are past the list and therefore ask for the same (empty) page;
  an endless loop thus stays a cycle that `FetchEnds` would find.

* `batch_query`: two requests, as for `callback_pair`; sheets of two usable rows around a
  blank one and of one after a short or blank one; two seconds, so that results may or
  may not share a name; task ids that are a number, no number and missing; sheets without a `pid`.
  `MaxCrashes` 1.
* `log_pipeline`: three lines in batches of two, so that a batch fills and another one begins; three hours, so that a
  file is left, returned to after a set-back, and left again; one each of failure,
  set-back and crash (two failures of one kind do not meet: each is over with its line).
* `mate_cache`: one key, as flights and commands of different keys share nothing; versions 0 to 2
  and two pushes, so that an older and a newer snapshot may overlap; two calls, so that one joins the
  other.
* `helpers`: two connections at a time and one spare, two senders, three messages:
  enough for one to break while two use it, and for another message after that. Addresses 0 to 3
  and -1 for nil; three ranges that are apart need three of them, so the bisection has more than one
  round in a table that is in order.
* `pool_refill`: one sender and one message, as a connection that breaks is enough.

### Fairness

`FairSpec` of `CallbackUpload` and `ExportFile` is weak fairness of each
request's handler: the Go scheduler runs every goroutine, a callback returns
within its client's timeout of 10 seconds, the clients of the fetch have
timeouts too, and the client's connection is assumed to take the bytes. A crash is never
fair. In `PagedFetch` it is weak fairness of the request's own step and of
`DeadlineExceeded`, the 60 seconds of the `context.WithTimeout` in the CPS handlers; without
the latter the CPS loops need not end, because they
have no page limit. No fairness is assumed of `List`.

In `BatchQuery` each step is weakly fair but the answer of a Taobao query:
`createJdHttpClient` has a timeout of 60 seconds, `http.Get` has none. In
`LogPipeline` the writer is weakly fair but in the `INSERT`: the DSN of
`common/mysql/connect.go` has no read timeout. `LogFile` is strongly fair, because
`sync.Mutex` hands itself over to a goroutine that has waited for a millisecond. In
`MateCache` the commands of the cluster client are fair, since its read timeout is 100 ms; the
pool comes from a caller that the repository does not have, so nothing is assumed of it. `Expire` is fair: a time to
live passes. `PoolFairSpec` is for `MinOpenKept`: the loops of `NewPool` and `AutoLink` go on, and a
connection that is dialled again and again is made at last; so it is not for want of dialling that the
pool stays short. The senders and the broker's disconnections are not fair.

## 5. Proofs

| module | theorems (property) | of |
|---|---|---|
| `CallbackUploadProofs` | `TypeCorrect` (`TypeOK`), `OwnershipHolds` (`OwnSheets`) | `CallbackUpload` |
| `CallbackPromiseProofs` | `PromiseKept` (`KeepsPromise`, the refinement), `SendsAsAsked`, `DetailsComplete`, `ReportTrue`, `ErrorSendsNothing`, `KsGroupsByAd` | `CallbackUpload`, `CallbackPromise` |
| `ExportFileProofs` | `TypeCorrect`, `OwnExport` (`AloneGetsOwnExport`), `RowsAreFresh`, `CpsFilesGone` | `ExportFile` |
| `PagedFetchProofs` | `TypeCorrect`, `AtMostMaxPages` (`PagesBounded`), `NothingTwice` (`NoOrderTwice`), `SuccessIsComplete` (`CompleteExport`) | `PagedFetch` |
| `BatchQueryProofs` | `TypeCorrect`, `OwnResult` (`AloneGetsOwnResult`), `KnownData` (`NoForeignData`), `ResultIsTrue`, `NoHalfBatch` (`AskedAllOrNothing`) | `BatchQuery` |
| `LogPipelineProofs` | `LogTypeCorrect`, `LinesWrittenOnce`, `FilesKeepOrder`, `CheckpointsAreFinal`, `LeftFilesHaveRows` | `LogPipeline` |
| `MateCacheProofs` | `CacheTypeCorrect`, `ReadsAreFresh` | `MateCache` |
| `HelperProofs` | `PoolTypeCorrect`, `DeliveredOnce` (`AtMostOnce`), `SearchIsCorrect` | `RabbitPool`, `IpSearch` |

Each theorem is of the form `Spec => []P` (`PromiseKept`: `Spec =>` the
specification of `CallbackPromise` under the mapping) and holds for every value of
the constants that the assumptions of the modules allow: any set of requests, finite or not,
file names, workbooks, lists and tables of any length, any number of crashes and failures. The
assumptions only give constants their types and keep `None` apart from what it is mixed with. Two
say more. `ListAssumption`: the platform lists an order once, and finitely many
may appear meanwhile. `PageBoundAssumption`: the page counter of the model goes past the list before it
is held between its last two values, so that the bound changes no page.

Each proof has the same shape. The property is strengthened to an inductive invariant, which
TLC had checked on the instances of section 4 before; there is a lemma for each
action, a frame lemma for what an action of one request leaves to the others, and lemmas on
the operators (readers, ranks, slices, sequences).

*Types.* `TypeOK` is not inductive where a handler's step is typed only because of what
earlier steps left, e.g. that the click list read by `TakeRow` is one. `TypeInv` of
`CallbackUpload`, `BatchQuery`, `LogPipeline` and `MateCache` adds what is held at each
label (`Holds`, `Held`).

*Ownership.* `OwnSheets` speaks only of what has been read. `OwnInv` adds
that what a request without rivals has saved and not yet read is still on disk
(`Saved`), and that two requests in flight that have not met share no file
(`Apart`). Who writes to a path of mine shares a file with me (`PathShared`),
hence is my rival; so a step of another request leaves my paths alone
(`PathKept`), and nobody has my file open when I read (`Uncontended`).
`BatchQuery` has two files to share, the upload and the result, and the same argument for
each (`SharedInv`). There `Known` says in addition whose rows and bytes a request
that did meet others may find: for `NoForeignData` it is not enough to look at those who
met nobody.

*The promise.* `PromiseInv` relates the calls that were made to the sheets they were
made from, at every point of the two nested loops. `Progress`: for a click row that is
done with, as many records were sent as it wants; for the current one some, for a later one
none; and a record of the slice was sent exactly if its rank is among them. With `Once` (no
call twice), the number of calls for a source row when the loop is over is the number of click rows that
reach its rank (`SendsMatchSheets`). `Counted` and `Reported` tie the counters and the
answer to the calls, `Detailed` the details to the click rows that are done with. The refinement needs
nothing more: `SendRecord` maps to the call of the abstract upload, the answers to its
answers, and every other step to a stutter.

*Exports.* `ExportInv` follows inodes, not names: the inode behind a name, and
those that requests have open, belong to the name's endpoint (`InodeOf`); two requests
between `SaveAs` and `os.Remove` that share an endpoint have met (`Apart`). So
what a request without rivals has saved stays linked and unwritten until it is served
(`Own`), and the rows in an inode come from the request or from those it met
(`Fresh`). `Owed` is the invariant behind `CpsFilesRemoved`: while a CPS file is linked, some request is still
to remove it, or died, or failed in between.

*Pages.* The proofs speak of what the pages of the window have *passed*: the orders that are listed up
to where the next page begins, by number or by cursor. A page that is not the last adds itself to
them (`PassesPage`); an order that is listed at the end leaves them alone, one that is listed
before others pushes an order out of them if pages go by number, and never if they go by cursor (`ListPassed`). `OnceInv`: what has been collected
was passed, or belongs to an earlier window. `CompleteInv` is the converse for the orders that
were there at first, where the conditions of `CompleteExport` hold: those that were passed have been collected, and all those of earlier windows. When
a window ends because the answer says so, the list is passed; when it ends because of the
page limit, it is passed because the window holds no more orders than the limit lets
through (`WindowPassed`, `MatchingLimit`). Windows share their ends, so nothing is between them.

*Batches.* `AskInv` has the place in the sheet: the rows taken so far are those up to `row`,
lines and calls list them in order, and each line tells the answer of its call (`InBatch`, `Told`).

*The logger.* Every line in a file was accepted before every line that is still in the list
(`Ordered`), so the next one is the latest of all files. While the clock is not set back no file is later than the
current one and no checkpoint is of it or of a later one (`OnTime`), so a file that was
counted is not written again. `Kept` says what became of every line that was accepted, and
`LeftHaveRows` that only a failure leaves a file without its row.

*The cache.* Redis and snapshots are never ahead of MySQL (`Behind`). As long as pushes
do not overlap, a push in progress carries nothing older than what Redis has (`Ahead`), so
Redis only goes forward; hence what a flight has
read, or will read, is not older than what Redis had when it began
(`FlightFresh`).

*The pool.* `Room`: `NewPool` and `AutoLink` open a connection only below `MinOpen`, and the list only grows at its end, so
its front is the same for everybody (`Given`). `Messages`: a message was handed to one sender
only, and what that sender is still to publish the broker has not got.

*The search.* `SearchCorrect` says nothing of the bounds; `SearchInv` adds that they
stay in the table, and `Narrowed`: in a well-formed table every range that contains the
address is between them. Each branch of `Step` throws away only ranges that are apart
from the address, because ranges are in order (`RoundKeeps`). When the bounds have crossed, no
range is left.

Only model-checked are the liveness properties, which the prover does not reach:
`EveryRequestAnswered`, `EveryExportAnswered`, `EveryBatchAnswered`, `EveryLineHandled`,
`EveryGetReturns`, `DeletedRowsExpire`, `FetchEnds` and `SearchEnds`. `CallbackPromise` is refined in
its safety part; that a request ends is `EveryRequestAnswered`. The properties of the runs
that are violated are refuted by TLC and have no theorem. Nothing was left out because it
needs induction over data: where the model filters a list it says so by ranks or positions, of which the
provers can reason with the facts on finite sets.

## 6. Not modelled

* Goroutine pool and wait group: nothing calls them, and the calls to `Add` and `Done` are
  commented out, so that `GoroutinePool.Wait` returns at once and `WaitGroup.Wait`, which
  calls itself, never: there are no interleavings to explore.
* Redis shards: each operation is one command on the shard its key's checksum selects.
* The parts of a TOP batch answer (`batch.go`): a function without state, without a caller.
* HTTP helpers (`core/httpServer.go`): single library calls that no registered handler makes.
* The routes, and the restart of `server_unix.go`, which is a library's.
* Of the parts that are modelled: `ClosePool`, `Release` (empty) and `SendData`, `Close_Log`
  and the setters of the logger, its Kafka branch (no code sets the topic), `lruGet` and
  `getOne` of the caches, which are not called; the table of region names.
  `producer.go` imports `report_api/common/Pool`, which only a case-insensitive file system
  finds as `common/pool`.
* The errors of `Channel` and `QueueDeclare` in `producer.go:50-54`, which are dropped: the first is the nil
  pointer of `Dial`, but a queue that cannot be declared, whose name is then empty, is not modelled:
  messages go to no queue, which `Publish` allows for by not handing them over.
* Columns, query strings and the layout of exported sheets; request signatures.
* `executeCallback` (`juliang.go`) and `executeHonorCallback` (`honor.go`),
  which nothing calls.
* Configuration, hashing, AES, user agents, metrics, the MySQL connection and
  the vendored go-simplejson: sequential conversions or library calls.
* Two uploads by one client in one form are one request here; several servers in one
  directory are not modelled.
