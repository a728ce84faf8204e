# dbxlite: verification project

dbxlite is a SQL workbench that runs in the browser. It queries DuckDB compiled
to WebAssembly in a web worker, a DuckDB server over HTTP, or BigQuery, shows the
results in a virtual grid, edits statements in tabs that may be files on the
user's disk, and keeps data files, databases and imported tables in the browser's
storage. There is no server of its own: what other systems do in a backend happens
here between `await`s, in React effects, in message handlers of a worker, and in
windows that share `localStorage`.

This directory holds TLA+ models of the parts whose correctness depends on the
order of events, and of the functions on texts, bits and values that have more cases
than a test lists; the TLC configurations that check them; and TLAPS proofs of the
main results. Paths below are relative to the repository; the abbreviations are

    A = apps/web-client/src     C = packages/connectors/src
    W = packages/duckdb-wasm-adapter/src

Contents

1. The system: components, state, operations, interaction
2. The modules and how they correspond to the code
3. What the runs check and show; bounds; fairness
4. What is proved, and how
5. Where code and documentation disagree
6. What is not modelled, and why
7. Plan

---------------------------------------------------------------------------

## 1. The system

### How the parts interact

    user ── editor tabs (useTabManager, App.tsx) ── localStorage ── other windows
      │          │
      │          ├── files behind tabs (useAutoSave, useFileOperations,
      │          │                       useFileConflict) ── disk, IndexedDB handles
      │          └── Run ── query execution (useQueryExecution)
      │                        │
      │                        ├── streaming query service ── connectors
      │                        │                               ├ DuckDBConnector ── adapter ══ worker ── DuckDB
      │                        │                               ├ DuckDBHttpConnector ══ server (fetch, SSE)
      │                        │                               └ BigQueryConnector ══ Google (fetch, popup)
      │                        └── result table (useTableData): pages, caches, sort
      ├── data sources (dataSourceStore, useFileUpload, useFileReload,
      │                 useDataSourceActions) ── localStorage, IndexedDB, ATTACH/DETACH
      └── imports (import-queue, materialization-manager) ── IndexedDB, OPFS

`══` crosses a thread or the network by messages; everything else is calls within
the main thread, which interleave only at `await`s, timers, React effects and
events.

### Components

For each: state kept, operations, what is hard, what makes it correct.

**Worker streaming protocol** (`W/worker.ts`, `W/index.ts`, `C/duckdb-connector.ts`).
State: in the worker the database and its connection and a count of
unacknowledged chunks per query; in the adapter a map from message id to
callbacks; in the generator a buffer, two promises and flags. Operations: init,
run, ack, cancel; rows, schema, stats, done, error, cancelled. Hard: the worker
counts what the main thread acknowledges; callbacks run between the turns of a
generator; a fatal error resets the database under other queries; a query can be
posted while the worker still boots. Correct: rows in order and once, an end only
when all rows were handed out, flow control that neither blocks for ever nor lets
the worker run ahead, a waiting consumer that is answered.

**Import queue** (`A/services/import-queue.ts`, `persistence-metadata-store.ts`,
`W/opfs-persistence.ts`). State: a map of jobs and the import under way in memory;
jobs and table entries in IndexedDB; Parquet files in OPFS. Operations: enqueue,
pause, resume, cancel, execute, cleanup, and a restore that never gets anywhere (see
section 5). Hard: the page may close between any two steps; user actions change the job
object under a running import; cleanup deletes by path. Correct: what the catalogue names
exists; a completed job has its table; no job of the open page is forgotten; its jobs end.

**Query execution** (`A/hooks/useQueryExecution.ts`, `useBigQueryCostWarning.ts`,
`useConnector.ts`). State: one abort controller ref, one overlay flag, one dialog
resolver, the active connector of the service, the loading flags of tabs.
Operations: run, stop, confirm or decline the price, change tab, change connector.
Hard: nothing refuses a second run, and what is shared is read after awaits.
Correct: the statement goes to its engine under its own controller; Stop is
heeded; overlay and tabs do not load for ever.

**Files behind tabs** (`A/hooks/useAutoSave.ts`, `useFileOperations.ts`,
`useFileConflict.ts`, `A/App.tsx`). State: text, dirty mark, file and known stamp
of each tab; one editor; one timer; one conflict dialog. Operations: type, change
tab, timer, save, save as, overwrite, reload, and programs that change the files.
Hard: one editor shows many texts; saves hold a closure across awaits. Correct: no
tab's text gets into another tab's file; changes made outside are noticed; the
mark is not lost.

**Tabs and windows** (`A/hooks/useTabManager.ts`, `useUnsavedChangesDialog.ts`,
`A/App.tsx`). State: the tabs of each window, the active one, the next id, the
dialog; two `localStorage` keys. Operations: add, type, rename, close (button,
shortcut, dialog), open a file, load queries, storage event. Hard: every window
stores after every change and merges what others store. Correct: ids are unique,
newer copies win, windows settle on the same tabs, no window is left without one.

**Data sources** (`A/stores/dataSourceStore/*`, `A/hooks/useFileUpload.ts`,
`useFileReload.ts`, `useDataSourceActions.ts`). State: the list, the additions
under way, introspections; the attached databases; the stored file handles; the
saved list with its 500 ms timer. Operations: upload, replace, reload of handles,
reattach, restore, toggle write mode, refresh, delete, clear, restart. Hard: four
stores of the same truth that are changed by steps, each of which may fail.
Correct: a file is listed once; no handle, no attached database without a source;
what an upload announces is so; all work ends and is saved.

**Streaming query service** (`A/services/streaming-query-service.ts`,
`A/utils/connectionHealthCheck.ts`). State: connectors, the active one, running queries, a
cache of row counts, the health status with its timer. Operations: executeQuery,
executeStreamingQuery, getPage, getRowCount, cancelAllQueries, setActiveConnector,
getSchema, the health check. Hard: counts cached per hash of a text and not per
engine; a check whose second half outlives its timeout; answers of an engine that
is no longer active. Correct: pages that partition a result; a count that belongs to
its text; a status that follows the engine's health.

**Result table** (`A/components/table/hooks/*`, `PaginatedTable.tsx`,
`CellModal.tsx`). State: pages, cached rows, sort order; outlined cell, range, cell
in line, modal, keyboard. Operations: show a statement, load a page, cache in the
background, sort; keys and clicks, copying. Hard: `loadPage` has no guard for the
query it was called for, the caching loop and the sort run beside it; one key is
handled by cell, container and document. Correct: what is sorted is whole, what is
shown are the rows of the page that is named, the selection is on the page.

**Export** (`A/components/table/hooks/useTableExport.ts`, `exportUtils.ts`). State:
step, engine chosen for the export, overlay, temporary file. Hard: Escape, the file
picker, another engine chosen meanwhile. Correct: engine and overlay as before.

**Materialized tables and the storage panel** (`A/services/materialization-manager.ts`,
`W/opfs-persistence.ts`). State: the records in IndexedDB, their files, the views
registered with DuckDB. Operations: restore, register, refresh, delete, write. Hard:
steps that fail one by one, query generators that are made and not iterated, a
connector changed for a refresh and not put back. Correct: record, file and view
exist together, or the record says so.

**BigQuery connector** (`C/bigquery-connector.ts`, `A/components/OAuthCallback.tsx`,
`BigQuerySetupDialog.tsx`). State: token with expiry and refresh token, active
jobs, cached metadata. Operations: connect (popup, message, poll, timeout), refresh,
request with retry on 401, query with polling and pages, disconnect, restore. Hard:
three ways for a popup to end, two popups, refreshes that overlap each other and a
disconnect. Correct: one answer per connect, the code of the own attempt, no token
after a disconnect, results complete.

**DuckDB HTTP connector and server databases** (`C/duckdb-http-connector.ts`,
`C/duckdb-http/*`, `A/hooks/useServerDatabases.ts`, `useLocalDatabase.ts`,
`useServerInfo.ts`). State: connection flag, event source,
databases of the server. Operations: connect, query, cancel, refresh, events, binary
decoding, server actions. Hard: events that are lost or arrive during a refresh;
offsets, validity masks and nested vectors. Correct: what is shown is what the
server has; decoded values equal encoded ones.

**File registration in the worker** (`W/index.ts`, `W/worker.ts`): registerFile,
registerFileHandle, copyFileToBuffer. Hard: message ids from the clock
(`register_${Date.now()}`) collide; a worker that starts or was never loaded.
Correct: every promise is answered, with its own answer.

**Explorer** (`A/hooks/useDataSourceState.tsx`, `useDataSourceActions.ts`,
`UnifiedTreeView.tsx`). State: expansion, search, focus, sheets and projects that are
loading, the dialog of a removal. Hard: trees of five kinds of source merged into
sections; a search that expands and must leave no trace; late columns. Correct: each
source is shown once; what a search shows is what matches, with the way to it.

**Query text** (`A/utils/queryExtractor.ts`, `queryEngineDetector.ts`,
`engineDetectors/*`, `A/lib/sqlCompletions.ts`, `A/services/schema-service.ts`).
Which statement a cursor means, which engine it is for, what it changed, and what the
editor suggests. Hard: comments and semicolons, engines that register in any order,
scopes of aliases. Correct: the statement under the cursor, on the engine it is for.

**Values** (`W/worker.ts`, `A/utils/formatters.ts`, `dataTypes.ts`, `typeFormatter.ts`,
the connectors' conversions). From the engine's bits to a cell's text, over JSON,
Arrow or BigQuery's REST. Hard: scales, signs, zones, counts, nesting, types written in
five notations. Correct: what the database has is what a cell says.

**Connections and credentials** (`A/services/connection-store.tsx`,
`credential-store.ts`): a list in memory over IndexedDB with tests that take a second, and
credentials in a Map that a reload of the page empties. Correct: what is listed is what is
stored, before and after a reload; what is removed stays removed unless a test was under way.

**The rest**: settings and onboarding (flags stored at once), sharing by URL, dialogs
and layout, the schema cache (a map), the command line (starts DuckDB and a file
server), and engines the web client does not start (`optimized-worker`,
`streaming-duckdb-connector`, the plugin host). They are sequential, or display.

---------------------------------------------------------------------------

## 2. The modules

One module per component, parameterised by CONSTANTS with named assumptions; an
`MC` module with the values TLC uses; a `_proofs` module with the theorems.
Definitions carry the names of the functions they model, and every module's head
says what an action is: for the main thread **the code between two awaits, with
the renders and effects React runs after it**; for the worker the code between two
awaits of a handler.

Operators whose name has an underscore (`Yield_KeepBuffer`) stand before the one
they vary and are **bugs that must be noticed**: with such a variant in place of
the real definition a property has to fail. Nothing in the specification uses
them; each property of a run has at least one.

### WorkerProtocol, QueryStream

Rows are numbered, so a message carries the rows `lo..hi` and loss, duplication
and order can be seen. Per query there is one FIFO channel in each direction, as
messages with different ids are handled by independent callbacks.

| state | code |
|---|---|
| `adapter`, `boot`, `conn` | the adapter's `initPromise`, the init handler, `db`/`conn` of worker.ts |
| `wpc`, `outstanding`, `size`, `sent` | where the run handler is; `outstanding.get(id)`; the result and how much of it was posted |
| `toWorker`, `inbox` | messages under way |
| `gen`, `buffer`, `schema`, `done`, `complete`, `delivered` | the generator `DuckDBConnector.query` with its flags and its promise `queryComplete` |

Actions: `StartQuery`, `HandleInited`, `HandleInitError`, `HandleWorkerError`, `Pull`,
`Abandon`, `Cancel` (main thread, consumer; the two errors share `RejectInit`, and after
`worker.onerror` the worker is `"dead"` while the adapter goes on posting to it); `HandleSchema`, `HandleRows`, `HandleStats`,
`HandleDone`, `HandleError` (one per message; the continuation of the generator is
a microtask, so it runs in the same step); `OpenConnection`, `FailInit`,
`PostInited`, `HandleRun`, `QueryReturns`, `QueryThrows`, `QueryFatal`,
`ResetDone`, `SendChunk`, `Unblock`, `SendLast`, `SendFails`, `HandleAck`,
`HandleCancel` (worker; `WorkerFree` says that a run that is posting is not
interrupted).

QueryStream is what a consumer is promised whatever carries the rows: the rows in
order, all of them if the stream completes, a prefix if it fails or is left.
WorkerProtocol implements it (`ImplementsStream`) under a mapping that forgets
the worker, the channels and the buffer.

### ImportQueue

`disk`, `tables` and `file` survive a crash, everything else does not. `open` says
whether the page has opened the database (`OpenStore`). The constructor of the queue calls
`restoreJobs` when the module is loaded, which is always before that: the call fails at
once, is logged and not repeated, so it has no step, and what an earlier page left queued
or running stays so. `Here(j)` says that this page knows the job. `exec` is the import under
way and which of its awaits is pending. A crash may come at every step.

### QueryExecution

A run is one call of `handleRunQuery`; `at` says which answer it awaits (price,
dialog, row count, the query, remote URLs, the refresh after it). `ref`,
`executing`, `dialog` and `service` are the variables all runs share. `undisturbed`
and `stopped` are history: the runs during which nothing else was started and the
connector was not changed, and those that were under way when Stop was pressed.

A statement that is read page by page ends its run at once (`outcome = "paged"`); what
clears its tab's spinner is the first page, which the one `PaginatedTable` fetches, and only
for the tab that is shown. `paged` has the run each tab has its pages from, `fetch` the one
whose first page is being fetched. `FirstPage` and `PageFails` end a fetch; `SwitchTab`,
`SwitchConnector` and `ChangePageSize` begin one, and overtake the one under way, which then
returns without clearing anything.

### FileSave

A text is known by the file it descends from and the time it was made. A save is a
record of what its closure holds. `Rearm` is the effect of useAutoSave: it clears
and sets the timer when one of its dependencies changed, and only then; the text
is not one of them. `EditorChange` is `handleEditorChange`, which Monaco calls for
every change of the model, also those that `setValue` makes. `crossed` is history:
a dialog was answered while another tab than its own was shown. So is `due`: the active
tab, from the moment its unsaved mark appears until an automatic save of it starts
(`Noted`).

### TabSync

`Render` is a render with the effects that follow: it counts ids, stores the
active tab, stores the tabs and shows a new active tab. `Store` gives the events
other windows receive: one per changed value. `Merged` and `Capped` are
`handleStorageChange`. `lastModified = 0` means the field is missing, which the
code treats as "take the incoming one".

### DataSources

`list`, `handles`, `db` and `stored` are the four stores; `op` the asynchronous
operations under way, each with the await it is in; `intro` the introspections
`addDataSource` starts without awaiting them; `pending` is `pendingOperations`.
Statements to the worker and requests to IndexedDB take effect in the order they
are sent, so an effect belongs to the step that sends and its answer to the next.
Each may fail where the code has a `catch` that only logs; `faulty` remembers it.

### Modules that are checked beside others

A run costs a start of TLC, and many parts share nothing. An `MC` module therefore
may hold several **parts**: it extends one module, instantiates the others, and its
variable `part` says which one moves; the others keep a fixed initial state. A part
without actions is a function on bounded inputs: `cell`, `text` or `given` holds an
input, and the property compares the function's value with a definition of another
kind.

| MC module | extends | parts |
|---|---|---|
| `MCWorkerProtocol` | WorkerProtocol | two queries; WorkerFiles; HttpDecoding; WorkerValues, CellText, TypeText, NestedValues |
| `MCImportQueue` | ImportQueue | ServerCatalog, ServerInfo |
| `MCQueryExecution` | QueryExecution | StatementText, Completion, QueryService, StorageTools |
| `FileSave` itself | | |
| `MCTabSync` | TabSync | SourceSync, FileBatches |
| `MCDataSources` | DataSources | SourceTree, Explorer |
| `MCResultTable` | ResultTable | ResultGrid, Export |
| `MCBigQuery` | BigQuery, as two parts: connection, cache | OAuth, BigQueryQuery, Materialization, ConnectionStore |

### WorkerFiles

The adapter's map from message id to callbacks with the three calls that use the
clock for an id, and the worker's handlers; a worker that boots, was not loaded, or
has lost its database. A call's answer carries the call it was made for, so that an
answer to another's promise can be seen.

### ResultTable, ResultGrid, Export

*ResultTable.* Tabs set the props of one table, which shows one statement after
another. `at` and `loads` are the calls of `executeQuery` and `loadPage`, with what each
awaits and remembers of the statement it began with; the last entry of `at` is the one
that `currentQueryIdRef` names. `hurried` is history: somebody acted while something
was under way.

*ResultGrid.* A cell is a pair of numbers; `focus` is where the keyboard is, since one
key is handled by the cell that has it, by the container and by the document, after a
render each. `Span`, `IsCellInSelection` and `Copied` are the two ways the code reads a
range: to paint it and to copy it.

*Export.* One export with its picker, its engine, COPY or pages, the temporary file,
Escape and every failure; the user may choose another engine meanwhile (`chosen`).

### BigQuery, OAuth, BigQueryQuery

*BigQuery* is the connector with what is stored of a connection: tokens are numbered,
`inst` holds one connector for each page and attempt, and a call under way remembers
the token it was sent with. Google answers with what it has at some moment after the
request (`since`), so that an answer may be older than the Clear Cache that came before it
reached the page (`late`).
*OAuth* is the two ends of a popup: windows, their storage item, messages with an
origin and state, polling, timeout. *BigQueryQuery* is a query with its job and pages.

### ServerCatalog, ServerInfo, HttpDecoding

*ServerCatalog* has the server with its attached databases and events (external), the
connector's event source with its retries, and the two hooks that turn refreshes into
what the explorer lists. *ServerInfo* is the settings page over the same server.
*HttpDecoding* reads what the server's serializer writes (external): field ids,
variable-length integers, validity masks, vectors of vectors, chunks and errors; the
property asks that reading a written value gives that value.

### SourceTree, Explorer

*SourceTree* converts each kind of source to nodes and filters a tree by a search.
*Explorer* is what the user does with it: expansion, search, focus, menus, the dialog
that confirms a removal, sheets and projects that load.

### SourceSync, FileBatches

*SourceSync* is the list of data sources in two windows with its debounced saves and
storage events. *FileBatches* takes several picked or dropped files through
`useFileUpload` beside the reload of stored handles: counters, engine switches, mistakes.

### QueryService, StatementText, Completion

*QueryService*: time passes in half minutes; counts are kept under a hash of the text;
`checking` is what the health check under way awaits, `late` the answer it gave up. *StatementText*
is the text as tokens with a cursor, the catalogue changes that an executed statement is
taken for, and the scores of the detectors' signals with the connector they choose. *Completion* parses aliases, subqueries and the
context before the cursor as the editor does.

### Materialization, StorageTools, ConnectionStore

*Materialization* relates record, file and view of imported tables step by step; a page
may close between any two. `touched` is history: two operations had a table at once, or a
step failed that leaves it half changed; nothing is said of such a table.
*StorageTools* are the loops over chunks and sums that the
panel shows. *ConnectionStore* is the list of cloud connections in memory and in
IndexedDB, whose writes are one queue. `ReloadPage` starts a page with what is stored and
without any credentials; `forgotten` has the connections of an earlier page. `raced` has the connections added while the list was
loaded, removed while they were tested, or being saved while one was removed.

### WorkerValues, CellText, TypeText, NestedValues

Functions, in the order in which a value meets them: the worker's conversion of a row to
JSON or Arrow (decimals by scale, days to dates, big integers); numbers to instants, and
instants to text in a zone; integers, counts and lists to text; the texts of types in the
notations of DuckDB, Arrow, BigQuery and the server; and values nested in each other.
Numbers are scaled down (a safe integer ends at 3, a word has 4 bits, an instant is a
number of hours) so that each edge is among a few dozen inputs.

---------------------------------------------------------------------------

## 3. The runs

Every run finishes in minutes with two workers. `CHECK_DEADLOCK FALSE` is set in
all of them because all these systems may come to rest: users may leave, queries
and imports end, and the number of queries, saves or acts is bounded.

| run | instance | properties |
|---|---|---|
| `worker_stream` | one query of 0 to 5 rows in chunks of 2 with limit 2; two queries of at most one row; two calls about files; answers of a server; values | StreamIsExact, NoLostWakeup, NothingAfterDone, FlowControl, ShownAsStored, ImplementsStream, CallsEnd |
| `import_queue` | two jobs with tables of their own, one crash, one storage error, two cancels, two pauses; a server with one database; the page of its settings | CompletedHasTable, CatalogueOK, NothingForgotten, ServerShown, WorkEnds |
| `query_execution` | two runs, two tabs, two engines; texts, signals, queries to complete; service; chunks and sums | RunsAsMeant, ControlIsKept, StoppedNotSent, LoadingEnds |
| `file_save` | two tabs, three files, two saves, two changes | EditorAndTimer, OwnText, AutoSaveHeeds, DirtyIsTried |
| `tab_sync` | two windows, MAX_TABS 2, two acts; two lists of sources; two uploads | TabsWellFormed, CalmWindows, NoTabLost, WindowsSettle |
| `data_sources` | a database and a file, two operations at a time; five scenes of the explorer | UniquePaths, CalmSources, ExplorerFaithful, UploadAttaches, WorkEnds |
| `result_table` | three statements in one table; two pages of cells; one export | CacheIsWhole, CalmPages, SelectionOnPage, ExportLeavesNoTrace, SpinnersStop |
| `bigquery` | two attempts, a call, a reload, a disconnect, a cleared cache; two popups; a query of five rows; imported tables; connections and a reload | CodeOfAttempt, ConnectionKept, GoneIsGone, QueryReturnsAll, StorageIsHonest, AttemptsEnd |
| `import_doc_cleanup`, `query_doc_sync`, `file_doc_inactivity`, `tab_doc_last_write` | as the run of the component | one property each, violated: section 5 |

A property with a broad name is a conjunction of named parts, each with its comment in
its module; `PROJECT.json` lists for every part a mutant that breaks it:

* `StreamIsExact` (rows in order, a normal end is the whole result), `FlowControl`
  (types, and as many chunks unacknowledged as were counted), `CallsEnd` (queries and
  whoever waits for them are answered, calls about files too, with their own answer),
  `ShownAsStored` (values keep their meaning on the way to a cell, and decoding a server's
  answer inverts its encoding).
* `CatalogueOK` (types, every table has its file); `ServerShown` (`CatalogueFollows`,
  `InfoFollows`: what explorer and settings show of the server); `WorkEnds` of
  `import_queue` (imports end and what they ended as stays, refreshes end).
* `ControlIsKept` (types; `ExecutingHasRun`, `RefIsLive`, `UndisturbedRuns`: overlay,
  controller and engine of the runs; `HealthIsHonest`, `CountIsRecent`: health and row
  counts of the service); `RunsAsMeant` (the statement of a cursor, what it changed,
  the engine of its signals, the suggestions; chunks, errors and schemas of the service;
  chunks and sums of the storage panel).
* `EditorAndTimer` (types; `TimerIsCurrent` and `DueIsArmed`: an armed timer is for what is
  shown, and one is armed while the mark has had no attempt; `EditorInSync`).
* `TabsWellFormed` (types, unique ids); `CalmWindows` (`CalmAgree`: the same tabs in the same
  order when nothing is under way, whoever acted meanwhile; `CalmLists` and `OnePath` of the
  sources; `FilesAnswered`, `EngineKept`, `ProgressFits` of uploads); `NoTabLost` (`NewestText`: a
  text gives way to a later one only; the last tab is closed by its dialog only); `WindowsSettle` (`UsersGone ~> NothingUnderWay`).
* `CalmSources` (types, the handles and databases of the sources and no others);
  `ExplorerFaithful` (each source once, searches, removals, sheets, projects).
* `ConnectionKept` (types, a restore finds what is stored); `GoneIsGone` (no token after
  a disconnect, nothing older than a clearing in the cache but late answers); `QueryReturnsAll` (the first
  rows, in order, paid by the stored project); `StorageIsHonest` (`TablesAreHonest`:
  records, files and views; `ConnectionsKept`: the list and what is stored of it, before and
  after a reload, with the credentials in the page that added them only).

### Bounds, and why they are enough

*worker_stream.* Five rows in chunks of at most two fill the window of two
unacknowledged chunks, overflow it by the chunk that the schema's ACK pays for,
and leave a last chunk of one row; the consumer's chunk of two is smaller than a
message may be together with what is buffered, so buffers are split and joined.
One query is enough because queries share only the worker's thread, the
connection and the boot; the part with two queries of at most one row is about those
three: one connects and the other finds an adapter that is starting; one resets the
database that the other uses. Two calls about files in at most two milliseconds have
equal ids or not. Values: rows of two columns of every pair of types, in the first batch
and in a later one; instants of 60 hours around 1970 with units that are 10 apart; zones
from 11 hours west to 14 east; integers of up to seven digits, lists of four with three
shown, types nested twice, fields of every type, repeated and in records.

*import_queue.* Two jobs: one is under way while the other is enqueued, paused or
cancelled. One crash suffices for every pair of steps a crash can part: a page takes
nothing over from the one before but what is saved, so a second one would meet states the
first can also leave. With one fault, two cancels and two pauses each job can meet each.

*query_execution.* No bound but the two runs: all that is shared is one variable
each, and overwriting it takes two. A run is one call; a tab that runs twice is two
runs in the same tab. Changes of tab, engine and page size are not bounded, so that a fetch
may be overtaken any number of times.

*file_save.* Two saves that overlap, each of any of the five kinds, with two
changes by the user or other programs (`MaxClock` 4; writes of saves also advance
the clock). Two tabs for a dialog or a save that meets the wrong one, a third
file to save as.

*tab_sync.* Two windows with one or two stored tabs and two acts of the users
(times 2 and 3), with any number of storage events after them. MAX_TABS 2 lets
the cap be reached and passed by a file with one act beside it; the code's 3
(`useTabManager.ts:7`) would need one act more. Two acts are what it takes to cross, rename on both sides, or overtake a
dialog by the shortcut. SourceSync: two windows and three acts; one path is added beside
stored lists with a duplicate, a volatile and a database entry. FileBatches: two uploads
when nothing is reloaded, of one file, or a database with a workbook and a file; or one
upload beside the reload of two handles, one of them a query file; one file that fails,
one change of engine or of the BigQuery connection; both modes.

*data_sources.* One path per kind: duplicates arise between operations on the same
path. `Init` includes what an earlier session may have left and a reload of
handles just begun, so that one or two operations of the user are beyond states
that would otherwise need four. Two databases with one alias are beyond the run;
see the observations. The explorer has five scenes, as kinds of source meet there only
in fixed pairs (a database and a file with a nested field; a workbook that has columns and,
in its tree, two sheets;
two files of one remote domain; session tables and BigQuery; two databases of servers),
with three events and three searches each; sorting is left out.

*ServerCatalog, ServerInfo, HttpDecoding.* One hook at a time, one attached database with a
table and a view, one change by another client, two refreshes with at most one failing
request each, two retries of the event source. Three fetches and two actions of the
settings page. Bytes of one bit and words of four, at most two rows or items, two
columns, three instants of which one lies before 1970. Integers are exact up to 20,
which one of the four numbers exceeds and one is negative; decimals have a scale of 0 or 1.

*The parts of query_execution.* Texts of at most five tokens (a word, space, newline,
`;`, `--`, `/*`, `*/`) with every cursor; strings are left out. Two signals and one more.
Queries with up to two subqueries, two listed columns and two tables, and one dotted name
over a catalogue with each kind of source. Three half minutes with a TTL of two, three
changes from outside, results of at most three chunks of three rows, a hash of 64
values.

*result_table.* A page of two rows and a threshold of four, with statements of fewer rows
and with a LIMIT of their own; two runs and one more page. Two pages of cells, 2 by 2 and
1 by 3, for what happens at each edge and when the page changes; no bound on keys. One
export of two batches.

*bigquery.* Two attempts and one call: a refresh can be overtaken by a disconnect, a
reload or another refresh. What Google has changes in the part about the cache only, and a
reload and a disconnect happen in the other: what they share is the token, which is in both. Five rows in pages of two end within a page, and at four
rows the limit of the result is reached. Two imported tables of one connection with
two operations at once, two calls after a restore, one fault or one closed page. Two
connections, of which an earlier page stored one or none, and three calls, a reload among
them.

### Fairness, and why the code justifies it

* **Event loops.** Weak fairness of message handlers, of timers that are not
  cleared, and of the continuation of an await that has been answered: the browser
  runs every task that is ready. DataSources states it once for the whole event
  loop (`FairSpec`), which is weaker: something that is ready runs.
* **Answers.** The worker, IndexedDB, OPFS and the engines answer what they were
  sent, with a result or an error. For the engine of WorkerProtocol this is
  assumed only while the database is open: a query that was executing when another
  query's fatal error closed the database may get no answer at all, nor does one
  that is posted to a worker whose script was not loaded. `EveryRunEnds` and `WaitEnds`
  name the two cases (`Unanswered`). In QueryExecution the answers each run awaits are fair,
  and the end of the table's fetch, whatever it is (`FirstPage \/ PageFails`).
  Google, the server and the cloud
  answer a request or let it fail.
* **Storage events** are delivered to every open window.
* **Never assumed**: that a consumer calls `next()` again, that users do anything
  (answer a dialog, resume a job, come back to a tab, so that its table fetches what
  another tab has overtaken), that faults or crashes
  happen or do not happen.

### What the properties say, beyond the obvious

Several properties carry an excuse in their premise. Each is a state in which the
code really breaks the property, found with TLC, so that the premise is as weak as
the code allows:

* `TableHasFile`: own paths, no cancel (the cleanup deletes by path).
* `NothingForgotten`, `JobsEnd`: jobs of the page that is open (`Here`), as no page takes up
  those of another; that the queue does not stand still, and that jobs end, while no error
  of the storage has stopped it (`Thrown`).
* `ExecutingHasRun`: every engine has a connector (`setActiveConnector` throws
  after the overlay is shown and before the `try`).
* `UndisturbedRuns`, `StoppedNotSent`: about runs nothing disturbs; two
  overlapping runs take each other's controller and connector.
* `LoadingEnds`: a run whose cost dialog waits, or was replaced and waits for ever
  (`Undecided`); a tab whose first page nobody fetches, since another tab is shown or the
  fetch was overtaken (`Unfetched`).
* `WaitEnds`, `EveryRunEnds`: a query inside an engine that was reset, or posted to a dead
  worker (`Unanswered`).
* `DirtyIsTried`: one attempt for each mark that appears; it ends too if the user leaves the
  tab or the mark goes.
* `OwnText`, `EditorInSync`: no dialog was answered for another tab (`crossed`).
* `UniqueIds`, `NewestText`: no file was opened with MAX_TABS tabs (`over`). `NewestText`: the
  copy that is taken has a stamp (`TakenUnstamped`); one without is taken whatever newer
  text it replaces.
* `UsersGone`: every copy of a tab has a stamp of its own, or no list was changed while another window was busy with one.
* `CalmHandles`, `CalmDatabases`: operations did not overlap (`crossed`) and none
  failed halfway (`faulty`); `UniquePaths`: the list was not cleared during an
  addition (`wiped`).
* `CalmPages`, `RestoreFindsIt`, `CalmLists`, `ConnectionsKept`: nobody acted while
  something was under way (`hurried`, `disturbed`, `raced`); `LeftMeansGone`: nor when
  the user disconnected (`left`).
* `TablesAreHonest`: no two operations had the table at once and no step failed that leaves
  it half changed (`touched`); a closed page (`crashed`) may leave it so until the restore.
* `ClearedIsGone`: the entry was asked for after the clear (`late`).
* `SourcesFound`: a workbook of several sheets that only its own columns match
  (`OnlyItsColumns`), whose tree has the sheets instead, may be missing from a search.
* `SelectionOnPage`: the page has not changed under the selection (`turned`).
* `ShownAsStored`: named values the code is known to show otherwise
  (section 5): decimals below the top level, infinite dates, HUGEINT; from a server, the
  last digits of a BIGINT or DECIMAL beyond 2^53, and ENUM.


---------------------------------------------------------------------------

## 4. What is proved, and how

The runs decide small instances. The theorems below hold for every value of the
constants; all are about `Spec`, `ServiceSpec`, or `MCSpec` where a component is checked
beside another, whose fairness they do not use. Every one rests on an inductive
invariant whose three facts (`Init` gives it, a step keeps it, it gives the
property) are proved with one lemma per action. TLC has checked each inductive
invariant on small instances first.

| module | theorem | says |
|---|---|---|
| `WorkerProtocol_proofs` | `Invariance` | `IInv` is an invariant |
| | `TypeCorrectness` | `[]TypeOK`, which bounds the count of unacknowledged chunks |
| | `OrderIsKept` | `[]RowsInOrder` |
| | `WholeResult` | `[]CompleteIsWhole` |
| | `ExactStream` | `[]StreamIsExact`, both together |
| | `NoWakeupLost` | `[]NoLostWakeup` |
| | `DoneCloses` | `[]NothingAfterDone` |
| | `FlowControlled` | `[]FlowControl` |
| | `StreamImplemented` | `ImplementsStream`: the protocol refines QueryStream |
| `ImportQueue_proofs` | `TableBeforeCompleted` | `[]CompletedHasTable` |
| | `NoJobIsForgotten` | `[]NothingForgotten` |
| | `TablesHaveFiles` | `[]CatalogueOK` |
| | `EndsStay` | `FinalStays`, an action property |
| | `ServerIsShown` | `[]ServerShown`, for ServerCatalog and ServerInfo |
| `QueryExecution_proofs` | `Invariance`, `TypeCorrectness` | `[]IInv`, `[]TypeOK` |
| | `ControllerIsLive` | `[]RefIsLive` |
| | `UndisturbedIsRight` | `[]UndisturbedRuns` |
| | `ControllerIsOwn` | `[]OwnController` |
| | `OverlayHasRun` | `[]RunsAreTracked` |
| | `HealthIsSo`, `CountsAreRecent` | `[]HealthIsHonest`, `[]CountIsRecent`, for QueryService |
| | `ControlStays` | `[]ControlIsKept`, runs and service beside each other |
| | `StopIsHeeded` | `StoppedNotSent`, an action property |
| `FileSave_proofs` | `Invariance`, `TypeCorrectness` | `[]IInv`, `[]TypeOK` |
| | `TimersAreCurrent` | `[]TimerIsCurrent` |
| | `TextsStay`, `EditorShowsTab` | `[]OwnText`, `[]EditorInSync` |
| | `EditorIsTimed` | `[]EditorAndTimer` |
| | `ChangesAreHeeded` | `AutoSaveHeeds`, an action property |
| `TabSync_proofs` | `InductiveInvariant` | `[]IInv` |
| | `WindowsKeepTabs` | `[]TabsWellFormed` |
| | `NewestIsKept` | `NoTabLost`, an action property |
| | `WindowsAgree` | `[]CalmAgree` |
| | `WindowsAreCalm` | `[]CalmWindows`, with SourceSync and FileBatches |
| `DataSources_proofs` | `Invariance` | `[]IInv` |
| | `OncePerFile` | `[]UniquePaths` |
| | `TypeCorrect` | `[]TypeOK` |
| | `SourcesAgree` | `[]CalmSources` |
| | `UploadsAttach` | `UploadAttaches`, an action property |
| `ResultTable_proofs` | `InductiveInvariant` | `[]IInv` |
| | `SortsAllThereIs` | `[]CacheIsWhole` |
| | `PagesAreCalm` | `[]CalmPages` |
| | `SelectionKept` | `[]SelectionOnPage`, for ResultGrid |
| | `NoTraceLeft` | `[]ExportLeavesNoTrace`, for Export |
| `BigQuery_proofs` | `KeptConnection` | `[]ConnectionKept` |
| | `NothingLeft` | `[]GoneIsGone` |
| | `ExchangesOwnCode` | `[]CodeOfAttempt` |
| | `AllRowsReturned` | `[]QueryReturnsAll` |
| | `StorageIsKeptHonest` | `[]StorageIsHonest`, for Materialization and ConnectionStore |

### Assumptions

Each module names what it assumes of its constants, and TLC evaluates it in the
runs: sizes are natural numbers, and chunks, windows, pages and the list of tabs are not
empty (`ConstantsAssumption`, `TableAssumption`, `SizesAssumption`, `QueryAssumption`);
the user picks at least one file, and IndexedDB holds finitely many handles
(`UploadsAssumption`); a count is kept for some time and a failure is counted
(`ServiceAssumption`); of two stored sources with one path one is newer (`SourcesAssumption`);
`"none"` is not a job, a tab, a run, a statement or an engine (`ImportAssumption`,
`FileAssumption`, `ExecutionAssumption`); every database has an alias and a path is not
both a database and a data file (`AliasAssumption`, `DisjointAssumption`: the extension
decides which); the session's own database is not among the attached ones
(`ServerAssumption`: the request for the list excludes it); the list of connections is
read from a store with each id once, and `"none"` is not an id (`ConnectionsAssumption`); tables
that are asked for are tables (`TablesAssumption`); the sort column of a statement has each value once, so that the order of
the rows does not depend on how ties fall; a page of the grid has a row and a column
(`PagesAssumption`: the header of an empty page can still be clicked with ctrl, and
`useTableSelection.ts` then selects row -1). Nothing is assumed about how many queries,
jobs, tabs, windows, files, runs, rows or operations there are, nor that the sets are
finite, but for one: the reload counts the handles it has read. `BoundAssumption` lets the bound on what the
user starts be any number from 2 on, as `Init` counts up to two as spent. `ImportQueue` does not assume that jobs have
paths or names of their own, so `TableBeforeCompleted` covers jobs that share them.

### Arguments

**WorkerProtocol.** That rows come in order is not inductive: it needs what is in
the channel. `Chained` says that the messages of the channel, one after the other,
carry exactly the rows that were sent and not yet received; with `InOrder` for what
was received it gives the order. That a normal end means a whole result needs the
worker too: `DoneLast` says that no rows follow `done` in the channel, that the
worker has finished when it is under way, and that a worker that finished short of
the result has left an error in the channel or has had it handled. `Generator`
carries this to the flags of the generator, and `Phase` keeps the counters of the
worker. `RunOnce` keeps a query from being run again, which would start all over.
`NoLostWakeup` is then the first line of `Generator`. `FlowControl` counts: the chunks
in the channel and the acknowledgements on their way back are the sum that the worker's
counter is compared with, so the lemmas are about what an append or a tail does to a
count of messages. For `ImplementsStream` the invariant says what the mapping
reads; every step is then a step of one query's stream, or leaves all streams alone.

**ImportQueue.** That `saveTable` precedes the save of a completed job in the code
is not an argument: what is saved is the status of an object in memory, at several
places, after a pause or a cancel too. The invariant `Inductive` therefore speaks of the
saved status, of the status in memory and of an import that has passed `saveTable`. `Kept`
is what makes it inductive: no action removes the entry of a table. For `NothingForgotten`
each part has one conjunct of the invariant: `Placed` has every job that is saved or shown as
waiting in the queue, or on its way there; `Phase` says what status the import under way has
at each of its steps; `Running` that a job that shows as running is that import, and was not
aborted; `Awake`, that the queue is not left standing, which every end of an import gives
because it looks for the next one, and every enqueue or resume because it finds none
under way. For `TableHasFile` the file at a path is the one its own job wrote, and an
import that cleans up has not yet saved its entry.

**ServerCatalog, ServerInfo.** A refresh reads the catalogue in pieces, so what it has read
is true of no single moment. `Progress` says for each of its steps what has been read and
what is still to be asked for, provided that nothing has changed since it began; `Begun`
says that it then shows the present catalogue, and that the refresh begun last saw every
change whose event has come or was not missed (`Heard`). It does not matter which of two refreshes ends
last, as long as the property speaks of the last one begun. `InfoInv` is the same for a
fetch of four parts: an action changes a part and begins a fetch in one step, so that the last
fetch has never read what is older than the last change.

**QueryExecution.** `UndisturbedAlone` is the strengthening: an undisturbed run is
the only one under way, the service is on its engine, and the controller in the
ref is its own unless it was stopped. `DialogWaits` and `NewIsFresh` say that
answers to the dialog and starts meet the runs they are meant for. The overlay needs more
than a run under way: what follows a result leaves the flag as it is, and so does an answer
that was aborted. `Overlay` says that there is a *live* run, one that waits for neither; each of its
ways on clears the flag or leaves it live, because the ref it tests is never aborted. What
the table does (`TableKeeps`) changes nothing of all this but clears the overlay.

**QueryService.** `CheckKnows` carries a health check from its first half to its end: DuckDB
was as it is now all the time, the engine is DuckDB unless it was changed, and the first half came
out accordingly. A kept count can stand for the second half since none of zero rows is kept.
`Owned` is the same for counts: what is asked, late or kept is of the active engine, or was
marked when that was changed.

**FileSave.** `Own` is the strengthening of `OwnText`. A text is known by the file it
descends from; the invariant says that the text in every file a tab *holds* (has, or
a save of it that is under way has) descends from that tab, that each save brings
such a text, and that the editor shows the active tab. No two tabs then hold one
file, so no write of one reaches another. It holds as long as no dialog was
answered for another tab than the one shown (`crossed`), and that premise is in
the property. `HasLooked` relates an automatic save to the stamp it has seen, which
gives `ChangesAreHeeded`. `DueIsArmed` is inductive by itself given `IInv`: a
step either keeps all the timer depends on, or arms it anew for what it has become, or
is the timer's own, after which nothing is due.

**TabSync.** Ids are unique although windows count them independently, because a merge
joins by id and a window that may still add a tab counts from above all ids it has. That
is a fact about `Merged` and `Capped` and about `Render`, which counts again after each.
A text gives way only to a later one for two reasons: what a user does is stamped with a
clock that no stamp, in no window and no event, has reached (`Past`, `Grow`), and a merge
takes a copy with a greater stamp or one without (`Merges`); the second is what the
property names. A file
that is opened beside MAX_TABS tabs is added without a count, and then two tabs of a
window may share an id (`over`), hence the premise. What a window loses in one step is
what the merge drops, or one tab by the user; `LastTabByDialog` is said as long as
`over'` is false too: of two tabs with one id the shortcut closes both, and may so close
the last two without a dialog.

Windows at rest agree (`CalmAgree`) although users act while events are under way, because
every window, when it takes an event, stores what it has merged if that differs from what
is stored: a window shows what is stored, or has it as the last of its events (`AllHeard`).
So the order of the tabs is the same too. What this does not say is whose change
survived: that is `NoTabLost`.

**SourceSync.** The list of another window replaces the own one, so what counts is that no
two lists are on their way. As long as nobody changes a list beside a busy page
(`disturbed`), one of two things holds: all that is stored, shown by a page that is at rest
or has still to save, or is the content of an event means the sources the users want
(`InStep`; a page that awaits an event may show anything older), or one page shows them and
has still to save them while the others rest on what was stored (`Ahead`). A save leads
from the second to the first. Lists need not be equal, as attachments and marks differ: they
mean the same (`Means`). The rest is about the list functions: after any of them no path is there
twice (`Fine`), and of what an earlier session left the newest of each path is kept
(`LoadedIs`), which needs that two entries with one path are not of one time
(`SourcesAssumption`).

**FileBatches.** `UploadsAnswered` says where each file of an upload is: answered (listed or
told of), among those read, or behind the one the upload is at. `EngineHeld` says that the
engine is the one the user chose last unless somebody has crossed an upload, or an upload
under way has still to give it back; `DisplayFits` ties progress to the one upload that is
visible. For the reload, `ReloadFits` counts: what is done, what failed and what is left are
together at most what was read, with something left as long as it works; `HandlesAnswered`
says of every handle that it is listed, told of, a query, or still to come.

**DataSources.** `OncePerPath` by itself is not inductive: between the look for an
old source and the addition of the new one lie a DETACH and a request to IndexedDB.
`Reserved` says that an addition that waits there is the pending one of its path
and that the source it removes is the only one of it; `OnlyReserved` that nothing
else is pending. Both fail once `clearAllDataSources` has emptied
`pendingOperations` under an addition, hence `wiped \/ ...`; that `wiped` stays is a
lemma of its own. What is loaded after a restart has each path once whatever was
saved (`LoadedOnce`), because cleanup keeps the latest of each path.

`CalmSources` relates four stores that no operation changes together. `CalmInv` says that
one operation accounts for the difference: at most one is under way (`Active`), and with
it list, handles, introspections and databases `Agree`. A handle in IndexedDB is that of a
source in the list that says so, or that `handleRestoreFileAccess` is about to mark; a
database is attached for a source that is marked attached, for one that an introspection or
the operation is about to mark, or for one the operation is about to add. `OperationOf` says
what each operation knows at each of its steps. `Saved` says that a reload of the page
finds the list, or one that is about to be saved. The invariant is claimed until a second
operation begins beside one, a step fails halfway, or the list is cleared under an addition
(`crossed`, `faulty`, `wiped`: the premises of the property), and each of these stays once
it is true. There is one lemma for each handler, and a few for what handlers share: the
removal of a source, the addition of one, an update of its marks, and the walk of a reload
over the handles (`NextHandle`).

For `UploadAttaches` an upload of a database is followed from its ATTACH to its last step
(`Uploaded`): an answer that went well means that the database is attached, the source that
is added is marked from that answer, and until the upload ends only the introspection of
that source may touch the list, which keeps mark and handle. That one which waits for the
removal of an old source still knows it (`old`) is part of the invariant, because such an
upload is outside the property.

**ResultTable.** `Whole` says what a run that caches has got at each page (`Got`): if the
service pages its statement, exactly the first pages, and one more page makes one more
(`OneMore`), so that a short page, or as many pages as the loop allows, means all rows; if
not, the whole answer once for each page, which is at least a page long, so that the
rows pass the threshold before the loop can end by itself. It is said of the last run and
only while a statement is streamed, since an overtaken run never keeps what it has. (A run
that is still the last one while a result is shown goes on with whatever engine there
is, and would keep a mixture if the threshold were above two pages; the next streamed
statement clears it. So `CompleteIsWhole` has the premise `Streaming`.) `Calm` is
the other half: while nobody acts with a spinner or a run under way, the run under way is
the last one, pages are awaited only when no order stands, and an order stands only beside
a complete cache that is not empty, from which every page is then taken.

**ResultGrid.** `Sound` holds of a selection whatever page it is from: outline, ends of the
range and text in line are cells of some page, or none, and a range that has a first end has a
second. `AllOn` holds as long as the page stays: they are cells of this page. Each key and each
click has a lemma that says what it makes of a sound selection. That what is copied is what is
painted is then a fact about any sound selection: the rows and columns of a range on the page are
numbers that follow each other (`StripIs`), the text is a block of as many lines and cells
(`BlockCells`, `SameArea`), and what ctrl-C with shift puts above it does not move it
(`BlockInText`).

**Export.** `EngineIsMine`: while an export is under way and nobody else has switched engines,
the engine is the chosen one, or DuckDB in the steps of a Parquet export of the rows shown,
which alone knows to what it was; every way out of those steps goes through `LeaveParquet`.

**BigQuery.** Tokens, codes and rows are numbered by what they come from. `ConnectionKept`
relates what is stored to what the instances of the connector hold while one thing is
done at a time; `GoneIsGone` follows every call that could still bring a token or an entry
of the cache back; `CodeOfAttempt` follows the state parameter through popup, storage item
and message. For the cache `GoneIsGone` needs that a request that was not under way when
the cache was cleared was sent after it, so that its answer is as new (`AsNew`,
`CacheFresh`). `QueryReturnsAll` says that the rows so far are a prefix of the result and
that the page token is where the prefix ends.

**Materialization.** Record, file and registered view of a table are written in separate
steps, each of which may fail or be the last before the page closes, so between two of
them they disagree. `MatInv` says of each table what holds while nothing has it (`Sound`),
and for an operation that has it what holds at each of its steps (`Phase`, with one
predicate for each kind: refresh, delete, restore): how far record and file are, and
whether an exception has already been caught. A restore works through a list, so
what it will find in the tables still to come is part of it (`Waits`), and no table is had by two
operations unless it is in `touched`. DuckDB has the rows only if the session is restored,
or the restore has passed the table (`Served`).

**ConnectionStore.** What will be stored of a connection is decided by the writes asked for
and not yet done. They are not done in the order they were asked for: a save of the list
writes one connection after another and asks for the next write when the last is done,
so that the writes of two saves interleave. The one done last is the one in the latest place of
its save, and among those of the latest request (`LastAsk`). `ConInv` says that for a listed
connection this write is the connection as listed, or that there is none and it is stored
so; that no pending write has it in a later place than its own, nor deletes it (`SavedBy`); and for one not in
the list, that at most the write of an addition or a removal is pending (`OnlyAsk`). It is
claimed of connections outside `raced`, each by itself, and a reload of the page, which
drops the writes under way and reads what is stored, gives it anew for all: the removal of another moves it to
an earlier place only while no write of it is pending.

### What is only model-checked

* Liveness: `CallsEnd`, `WorkEnds`, `LoadingEnds`, `DirtyIsTried`, `WindowsSettle`,
  `SpinnersStop`, `AttemptsEnd`. The prover does not reason about fairness.
* `ShownAsStored`, `ExplorerFaithful`, `RunsAsMeant`: what a
  fold or a recursive function computes for every input needs induction over data, which
  the prover cannot do, and modules with recursive operators (HttpDecoding, NestedValues,
  SourceTree, TypeText, WorkerValues) cannot be reached from a theorem at all.

---------------------------------------------------------------------------

## 5. Where code and documentation disagree

### Shown by a run

Each of these runs checks one property that states what the documentation says, and
ends with a counterexample.

* `import_doc_cleanup`, `DocCleanupIsPartial`. `import-queue.ts:521`: "Clean up
  partial import files". The path of an import depends only on schema and table
  name (l. 405). A second import into the same table overwrites the file of the
  first, fails at the unique index of the table entries, and its cleanup deletes
  the file, while the entry of the first stays `available`. An import that is
  repeated after a crash between `saveTable` and the last `saveJob` does the same to
  its own table.
* `query_doc_sync`, `DocServiceInSync`. `useQueryExecution.ts:318`: "Ensure service
  is in sync with the effective connector for this execution". It is set once
  before the first await; a second run or the connector menu changes it before
  `executeQuery` reads it, and the statement goes to the other engine.
* `file_doc_inactivity`, `DocSavesAfterInactivity`. `useAutoSave.ts:39`: "Saves to
  file system after 3 seconds of inactivity". Changing tab cancels the timer; when
  the user comes back, `setValue` fires `onDidChangeModelContent`,
  `handleEditorChange` finds the text equal to `tab.query` and clears `isDirty`
  (`App.tsx:446`). What was typed is neither saved nor marked unsaved.
* `tab_doc_last_write`, `DocLastWriteWins`. `useTabManager.ts:142`: "Cross-window
  sync with last-write-wins". `renameTab` sets no `lastModified`; two windows that
  renamed one tab find the stamps equal, each keeps its name and stores its list
  again, and they send each other storage events for ever.

### Met while modelling

They are in the models, as behaviour or as the premise of a property; no run is
spent on them.

*Worker.* The message `cancel` is answered and stops nothing (`worker.ts:776`;
ARCHITECTURE.md lists it as "Cancel running query"). `MAX_OUTSTANDING` is 2 but three
chunks can be under way, as the schema message is acknowledged too without being
counted. `QueryChunk.done` is documented as "True if this is the last chunk"
(`base.ts`), but a waiting generator is woken with `done` still to be seen, and an
empty last chunk follows. If the script of the worker is not loaded, only the query that
starts it gets the exception (`index.ts:118`): `this.worker` stays set, so later ones start
no other (l. 188), are posted to the dead one and wait for ever.

*Imports.* A cancel or a pause during the write does not stop the import, which
then completes. The queue that the module exports (`import-queue.ts:549`) is built when the
module is loaded, before `persistenceMetadataStore.initialize()` is called
(`materialization-manager.ts:48`, `connection-store.tsx:108`): its recovery fails at once
and is not tried again, so that the jobs of a closed page stay queued or running in the
database for ever, contrary to "Crash recovery via checkpoints" (l. 12) and "Restore
incomplete jobs from previous session" (l. 88). An import that fails because the
storage is full stops the queue until the next enqueue or resume.

*Queries.* An unregistered connector throws after the overlay was shown and before
the `try`. A second cost warning replaces the resolver of the first. A first page that
another tab overtakes, or that begins while another tab is shown, leaves its tab loading
until the user comes back to it (`useTableData.ts:269`, 289, 485; `App.tsx:648`); a statement that is run
twice in one tab while it is fetched leaves the tab loading, since the table sees nothing
new. The failure of a fetch is told to the tab that is active by then.

*Files and tabs.* Overwrite in the conflict dialog writes the text of the tab that is
shown to the file of the tab in conflict. What is typed during a save is marked as
saved. A failed automatic save is not tried again before the next change. Opening a
file goes beyond `MAX_TABS`, and another window's cap then drops it. `setActiveTabId`
stamps a tab whose text this window may hold in an older version. A copy without a stamp is
taken for the newer one (`useTabManager.ts:165-170`): it replaces newer text and keeps the
stamp of that text, so that no window ever puts the newer text back.

*Data sources.* Uploading a database that is in the list and attached attaches it
first and then removes the old source, whose DETACH detaches the new one, which
stays marked attached. Handles whose source is gone bring a removed file back with
the next reload. A permission refused in `handleReattachDatabase` marks a database
detached that is attached; so does an introspection that fails after its ATTACH.
`handleRestoreFileAccess` registers a database under its display name. Aliases
collide (`a-b.db` and `a_b.db`), and `handleDatabaseDelete` then takes the first of
them. When a handle cannot be stored, the `catch` of an upload adds the database a
second time, unattached. `handleRestoreFileAccess` stores the picked handle before it marks
the source: after a reload of the page in between, the handle is that of a source that does
not say it has one, and outlives it when it is deleted. Clear All forgets the additions that wait. `isIntrospecting` is
saved with its source and loaded again (`data-source.ts:113` "Whether schema/stats
introspection is in progress"): after a reload of the page it stays set.

*Two windows' data sources.* Any change in one window marks the databases of both as
detached while the engines keep them attached. A change not yet saved is lost when the
other window's list arrives; timers and events that cross can exchange two lists for
ever; a volatile file disappears from the window that uses it.

*Uploads.* The summary counts failed files as ready. An engine chosen during an upload
is overridden by the restore. The first of two batches to end clears the progress of
both. If one picked file cannot be read, none is uploaded and nothing is said
(`file-service.ts:423`). With BigQuery chosen but not connected an upload leaves DuckDB
active. Reload counters never reach the total when permission is denied, and can exceed
it. `categorizeError` takes any message with "read", "already" too, for a permission.

*Files in the worker.* Two calls of one kind in one millisecond share an id. A call while
the worker starts is refused; after a failed load of its script every call waits for
ever (`index.ts:97`).

*Table.* A late first page, or page, of an earlier statement is shown in another tab
(`useTableData.ts:281`, 402, 529). Every page of a statement with a LIMIT of its own is
all its rows. Switching engine runs the streamed statement again. The cache of an
earlier statement is not cleared in preloaded mode, whose sort uses the old column. An
empty result shows no columns. "Sort Descending" toggles. `getRowCount` says 5 minutes,
the TTL is 2, and the key does not name the engine.

*Grid.* PageUp and PageDown of a focused cell are handled twice (the comment at
`useTableKeyboard.ts:810` says otherwise), so is Shift+Arrow on whole columns. When another
page has left the range behind, ctrl-C empties the clipboard although a cell is
outlined, and the message counts cells that are not there. Home, End and the page keys
inside a text in line act on the grid.

*Export.* `dropFile` does not exist in `DuckDBConnector`, so exported files stay. A null
from `exportToCSV` is reported as success. Closing the picker of a streamed export
downloads the file anyway. An engine chosen during a Parquet export is undone by it.

*BigQuery.* A refresh that ends after a disconnect stores a token again. A failed setup
has already overwritten the stored one. A job that is not finished after the second
request gives an empty result and no error; results are cut at 10,000 rows silently. The
retry after a 401 uses the same stored token. `activeJobs` grows, and cancel reaches no
job. Project tree and default project survive a disconnect. An answer that was asked for
before Clear Cache is cached after it. A closed popup is waited for
until the timeout.

*Server.* The local hook gets no catalogue events (comment `useLocalDatabase.ts:218`); the
server's never subscribes if `App` renders between detection and connection. Of refreshes
that overlap, the last to end wins and the first to end takes the spinner away. Events
sent during a reconnect are lost. Cancel posts `/ddb/interrupt` without the connection.
Results are cut at 10,000 rows, and columns of one name collapse.

*Decoding.* HUGEINT with a high word is printed by joining decimals; UHUGEINT's is read as
signed; UUID bytes are not reordered; the parts of a negative INTERVAL do not add up; an
infinite DATE fails the query; microseconds are dropped. In server mode a BIGINT, and the
scaled integer of a DECIMAL, beyond 2^53 loses its last digits, an ENUM is shown as
"[binary n]" (its vector is read as bytes and no case decodes them), and BLOB, BIT and
BIGNUM as hexadecimal digits.

*Explorer.* `treeSections` is a new object in every render, so a search with a match below
a node sets a new Set for ever (`useDataSourceState.tsx:977`). `addPinnedProject` and the
load after it see the old list. The drop on the trash tests for "folder" where nodes are
"dataset". Deleting a folder during a search also removes what the search hides. Two
sheets expanded quickly: the later answer forgets the columns of the earlier
(`store.ts:374`; `SheetsKept` excuses it). A workbook of several sheets has columns too
(`store.ts:128-143`), by whose names the first filter of a search keeps it
(`useDataSourceState.tsx:343`); its tree shows the sheets instead
(`treeConverters.ts:404-491`), so the second filter (l. 363-390) drops it. Expansions of a search become permanent when
the page is reloaded during it.

*Imported tables.* CREATE SCHEMA, CREATE VIEW and DROP VIEW never run: their generator is
awaited and not iterated (`duckdb-connector.ts:64`). A refresh sets the engine to BigQuery
and never back, and marks "available" when it fails; closing the page in it leaves
"importing" for ever; one that overlaps a delete brings the record back. A table deleted
during a restore aborts the rest of it. `convertToParquet` writes JSON into `.parquet`.

*Connections.* A test of a removed connection stores it again; a connection added while
the list loads is dropped from it. `credential-store.ts` keeps credentials in a Map in
memory, so that after a reload of the page every stored connection is without its own.

*Service.* The second half of a health check is answered from the count cache and hides a
dead engine; in HTTP mode the count is -1 and the check always unhealthy. A result whose
size is a multiple of the chunk size has no last chunk with `done`. `getSchema` gives a
table the columns of its namesakes in other catalogues. Stop aborts the pages of other
tabs too. In HTTP mode `registerFile` resolves without doing anything.

*Query text.* `--` inside a string is cut; `;` inside strings or comments splits (the test
`queryExtractor.vitest.ts:156` knows). A cursor behind the last `;` with a comment after
it runs the comment. `CREATE TABLE s.t` is taken for a database `s`, so that nothing is
refreshed (`useQueryExecution.ts:93`); ATTACH with IF NOT EXISTS or without AS is not
noticed. BigQuery signals below 8 go to DuckDB. `isAggregationQuery` never knows COUNT(*).

*Suggestions.* `detectSQLContext` trims the text first, so no pattern that ends with a
space ever matches, and tables are not suggested after FROM (comment
`sqlCompletions.ts:840`). The word after a table is consumed as its alias, so that
`FROM t JOIN u y` loses `y`. Only the first subquery of a WITH is known. `file.csv.` is
read as database and schema.

*Values.* Decimals below the top level lose their scale; names equal to a column's take
that column's. Intervals inside others, or after the first batch, show "0". NaN and
infinity become NULL. TIMESTAMP arrays of BigQuery are shown as `{}`. An empty vector is
exported as NULL, struct keys are not escaped, and fields named `type` or `data` make a
struct a vector. Timestamps in ms within 1e11 of 1970 are taken for seconds. Formats
other than ISO are a day ahead in named zones from +12 on (`formatters.ts:530`). DATETIME
mixes the day in UTC with the local hour. 999,950 is shown as 1000K. A struct with an
INTERVAL inside is taken for one (comment in `dataTypes.ts`: complex first), the server's
TIMESTAMP[] for a TIMESTAMP. A struct's text that looks like JSON is parsed.

---------------------------------------------------------------------------

## 6. What is not modelled, and why

About half of the lines of the implementation are markup, styles, icons, texts and
settings pages, or code that nothing reaches; they have no state of their own.

*Parts of modelled components that are left out.* In WorkerProtocol the Arrow path, which
the bundled engine never takes. In FileSave the opening, closing and renaming of tabs
(TabSync has them) and the store of handles. In TabSync `useSQLTemplates`, which rewrites
an untouched first tab, and the fields of a tab that are not stored. In DataSources
remote URLs (`addRemoteURL`) and read-only mode. In ImportQueue the loop of `restoreJobs`,
which is never reached, as it fails before; fetching and serialising are placeholders in
the code. In ServerCatalog the slice
of 50 tables a schema; in HttpDecoding dates, UUIDs, 128-bit integers and TIME_TZ, whose
errors are listed above. In Completion quoted names and the lists of keywords and
functions, of which representatives are left. In StatementText strings. In the
explorer sorting and drag and drop between folders. In Export the text of a CSV file, and that
`JSON.stringify` in `exportToJSON` may throw (at a BigInt) outside its `try`.

*No state that steps of several actors share*: settings and onboarding (flags set and
stored at once), the schema cache (one entry a key), the lock and encryption of
credentials (single steps over the browser's cryptography; of
`credential-store.ts` ConnectionStore has that it keeps nothing beyond the page), sharing by URL (one request, then `createTabsWithQueries`), dialogs, toasts and
layout.

*Never reached.* Components that nothing renders: `BigQueryExplorer`, `ResultPane`,
`DatabaseTree`, `StorageManager`, `FileList`, `MaterializeDialog`,
`MaterializedTablesList`, `DataPreviewModal`, `EngineIndicator`, `ImportProgress`,
`ConnectionVault`, `ErrorMonitorPanel`. Functions without a caller: `usePagination`,
`useSorting`, `useResultExport`, `exportToParquetStreaming`, `removePinnedProject`,
`hasEngineSignals`, `arrow-value-decoder`, `inferTypeFromValue`, `cancelQuery`,
`reconnectBigQuery`, `ResultCache`, the directory handles of `file-handle-store`,
`downloadRemoteFile`, `exportAndDownload`. The logic of the storage panel, of the table
list and of the connection store is modelled although nothing renders them, since
they are written to be used and have the hazards of the rest.

*Not part of the web client*: the alternative worker and connector
(`optimized-worker`, `streaming-duckdb-connector`), the plugin host, the command line.

---------------------------------------------------------------------------

## 7. Plan

The modules of the first plan are written: WorkerProtocol with QueryStream, ImportQueue,
QueryExecution, FileSave, TabSync, DataSources, and those of section 2 that are checked
beside them.

Next, proofs: the rest of section 4's last list needs a prover with induction.

Next, models: `addRemoteURL` beside the list it checks first; the slice of tables of a
server; strings in StatementText; drag and drop in the explorer.
