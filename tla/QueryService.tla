----------------------------- MODULE QueryService -----------------------------
(***************************************************************************)
(* The one service through which the application talks to its engines: which   *)
(* connector is active, the row counts it keeps for some minutes, the chunks    *)
(* it cuts results into, and the health checks that ask it every half minute   *)
(* whether DuckDB still answers.                                               *)
(*                                                                           *)
(* A check has two halves, each given up after five seconds: a query, then a   *)
(* row count.  The user may change the engine between them, a statement may    *)
(* keep DuckDB busy, and an answer may come after it was given up: then it      *)
(* still fills the store of counts.                                            *)
(***************************************************************************)
EXTENDS Integers, Sequences, SequencesExt, FiniteSetsExt

CONSTANTS MaxClock, \* bound: half minutes that pass
          MaxTurns, \* bound: changes of the engines, the overlay and DuckDB's health
          TTL,      \* COUNT_CACHE_TTL, in half minutes
          HashSize, \* the number of values of a hash
          MaxFailed \* bound: failures in a row that are counted

VARIABLES
  mode,            \* "wasm" or "http"
  linked,          \* the engines that have a connector
  activeConnector,
  database,        \* whether DuckDB "answers" within five seconds or "fails"
  clock,           \* half minutes
  turns,           \* the changes from outside
  countCache,      \* the kept counts, by the hash of their statement
  asked,           \* the count a table waits for
  told,            \* the count a table was just told
  checking,        \* what the check under way awaits
  late,            \* the count of the last check that was given up, still to be answered
  paused,          \* health checks are paused
  status,          \* the health that was found last
  through          \* history: what was so all through the check under way or just over

serviceVars == <<mode, linked, activeConnector, database, clock, turns, countCache, asked, told,
                 checking, late, paused, status, through>>

None == [none |-> TRUE]
Idle == [step |-> "idle"]

-----------------------------------------------------------------------------
(* Row counts *)

\* A bug that must be noticed: only what the last characters are tells statements apart.
HashQuery_Shifted(s) == FoldLeft(LAMBDA h, c : (h * 32 + c) % HashSize, 0, s)

HashQuery(s) == FoldLeft(LAMBDA h, c : (h * 31 + c) % HashSize, 0, s)

Ping == <<1, 2>>  \* SELECT 1 as health_check
Other == <<2, 1>>
Keys == {HashQuery(Ping), HashQuery(Other)}

\* A bug that must be noticed: a count is kept for good.
Fresh_Always(s) == countCache[HashQuery(s)] # None

Fresh(s) ==
  LET kept == countCache[HashQuery(s)] IN kept # None /\ clock - kept.at < TTL

\* How a count is made: DuckDB in the browser explains the statement, BigQuery runs it
\* without rows, and a DuckDB server is not asked.
Countable(e) == e = "bigquery" \/ mode = "wasm"

Call(s) == [sql |-> s, engine |-> activeConnector, crossed |-> FALSE]

\* The answer n to call c; counts of nothing are not kept.
Kept(c, n) == [count |-> n, at |-> clock, engine |-> c.engine, crossed |-> c.crossed]
Keep(c, n) ==
  countCache' = IF n > 0 THEN [countCache EXCEPT ![HashQuery(c.sql)] = Kept(c, n)] ELSE countCache

Told(count, of, cached) ==
  [count |-> count, engine |-> of.engine, crossed |-> of.crossed, cached |-> cached,
   age |-> IF cached THEN clock - of.at ELSE 0, active |-> activeConnector]

\* A table or a run asks for the count of its statement.
GetRowCount(s) ==
  /\ asked = None
  /\ linked # {}
  /\ IF Fresh(s)
     THEN told' = Told(countCache[HashQuery(s)].count, countCache[HashQuery(s)], TRUE) /\ asked' = asked
     ELSE IF activeConnector \notin linked THEN told' = None /\ asked' = asked
     ELSE IF Countable(activeConnector) THEN asked' = Call(s) /\ told' = told
     ELSE told' = Told(-1, Call(s), FALSE) /\ asked' = asked
  /\ through' = IF checking = Idle THEN None ELSE through
  /\ UNCHANGED <<mode, turns, linked, activeConnector, database, clock, countCache, checking, late,
                 paused, status>>

\* Nobody looks at what was told and found before.
Later == told' = None /\ through' = IF checking = Idle THEN None ELSE through

Reachable(e) == e = "bigquery" \/ database = "answers"

RowCount(n) ==
  /\ asked # None
  /\ n = -1 \/ Reachable(asked.engine)
  /\ Keep(asked, n)
  /\ told' = Told(n, asked, FALSE)
  /\ asked' = None
  /\ through' = IF checking = Idle THEN None ELSE through
  /\ UNCHANGED <<mode, turns, linked, activeConnector, database, clock, checking, late, paused, status>>

LateAnswer(c, n) ==
  /\ c \in late
  /\ n = -1 \/ Reachable(c.engine)
  /\ late' = {}
  /\ Keep(c, n)
  /\ Later
  /\ UNCHANGED <<mode, turns, linked, activeConnector, database, clock, asked, checking, paused, status>>

-----------------------------------------------------------------------------
(* Health checks *)

Assumed == [healthy |-> TRUE, failures |-> 0]

\* bound: more failures in a row are counted as MaxFailed
Failed == [healthy |-> FALSE, failures |-> Min({status.failures + 1, MaxFailed})]

\* A bug that must be noticed: one half is enough.
Health_Either(query, count) ==
  IF query \/ count THEN Assumed ELSE Failed

Health(query, count) ==
  IF query /\ count THEN Assumed ELSE Failed

\* What a check begins with.
PerformHealthCheck ==
  IF paused THEN through' = None /\ UNCHANGED <<checking, status>>
  ELSE IF activeConnector' = "bigquery"
  THEN status' = Assumed /\ through' = None /\ checking' = checking
  ELSE /\ checking' = [step |-> "query"]
       /\ through' = [answers |-> database = "answers", fails |-> database = "fails",
                      crossed |-> FALSE, known |-> TRUE]
       /\ status' = status

\* The second half is asked for when the first is over, and may be answered at once.
CountHalf(query) ==
  IF Fresh(Ping) THEN status' = Health(query, countCache[HashQuery(Ping)].count >= 0) /\ checking' = Idle
  ELSE IF activeConnector \in linked /\ Countable(activeConnector)
  THEN checking' = [step |-> "count", query |-> query, call |-> Call(Ping)] /\ status' = status
  ELSE status' = Health(query, FALSE) /\ checking' = Idle

QueryHalfOver(query) ==
  /\ checking.step = "query"
  /\ query = (database = "answers")
  /\ CountHalf(query)
  /\ told' = None
  /\ UNCHANGED <<mode, turns, linked, activeConnector, database, clock, countCache, asked, late, paused,
                 through>>

CountHalfOver(n) ==
  /\ checking.step = "count"
  /\ n = -1 \/ Reachable(checking.call.engine)
  /\ Keep(checking.call, n)
  /\ status' = Health(checking.query, n >= 0)
  /\ through' = [through EXCEPT !.known = n >= 0]
  /\ checking' = Idle
  /\ told' = None
  /\ UNCHANGED <<mode, turns, linked, activeConnector, database, clock, asked, late, paused>>

CountHalfGivenUp ==
  /\ checking.step = "count"
  /\ checking.call.engine = "bigquery" \/ database = "fails"
  /\ status' = Health(checking.query, FALSE)
  /\ late' = {checking.call}
  /\ checking' = Idle
  /\ told' = None
  /\ UNCHANGED <<mode, turns, linked, activeConnector, database, clock, countCache, asked, paused, through>>

-----------------------------------------------------------------------------
(* The engines and the user *)

\* DuckDB gets its connector; then the first check is made.
Initialize ==
  /\ linked = {}
  /\ linked' = {"duckdb"}
  /\ activeConnector' = activeConnector
  /\ PerformHealthCheck
  /\ UNCHANGED <<mode, turns, database, clock, countCache, asked, told, late, paused>>

\* Both halves of a check are over before the next: they take ten seconds at most.
Tick ==
  /\ linked # {} /\ checking = Idle /\ clock < MaxClock
  /\ clock' = clock + 1
  /\ activeConnector' = activeConnector
  /\ PerformHealthCheck
  /\ told' = None
  /\ UNCHANGED <<mode, turns, linked, database, countCache, asked, late, paused>>

Turn == linked # {} /\ turns < MaxTurns /\ turns' = turns + 1

\* History: what is asked, kept or checked now is of the engine before.
Cross(x) == IF x = None THEN None ELSE [x EXCEPT !.crossed = TRUE]
CrossedHistory ==
  /\ countCache' = [k \in Keys |-> Cross(countCache[k])]
  /\ asked' = Cross(asked)
  /\ late' = {Cross(c) : c \in late}
  /\ checking' = IF checking.step = "count" THEN [checking EXCEPT !.call.crossed = TRUE] ELSE checking
  /\ told' = None
  /\ through' = IF checking = Idle THEN None ELSE Cross(through)

SetActiveConnector(e) ==
  /\ Turn
  /\ e \in linked \ {activeConnector}
  /\ activeConnector' = e
  /\ CrossedHistory
  /\ UNCHANGED <<mode, linked, database, clock, paused, status>>

\* setupBigQuery and disconnectBigQuery; a connector that is taken away may stay active.
SetBigQuery(there) ==
  /\ Turn
  /\ linked' = IF there THEN linked \cup {"bigquery"} ELSE linked \ {"bigquery"}
  /\ linked' # linked
  /\ Later
  /\ UNCHANGED <<mode, activeConnector, database, clock, countCache, asked, checking, late,
                 paused, status>>

\* A statement is executed, or was: the overlay pauses or resumes the checks.
Pause(executing) ==
  /\ Turn /\ paused # executing
  /\ paused' = executing
  /\ Later
  /\ UNCHANGED <<mode, linked, activeConnector, database, clock, countCache, asked, checking,
                 late, status>>

DatabaseTurns ==
  /\ Turn
  /\ database' = IF database = "answers" THEN "fails" ELSE "answers"
  /\ told' = None
  /\ through' = IF checking = Idle THEN None ELSE [through EXCEPT !.answers = FALSE, !.fails = FALSE]
  /\ UNCHANGED <<mode, linked, activeConnector, clock, countCache, asked, checking, late, paused,
                 status>>

ServiceInit ==
  /\ mode \in {"wasm", "http"}
  /\ linked = {} /\ activeConnector = "duckdb" /\ database = "answers"
  /\ clock = 0 /\ turns = 0
  /\ countCache = [k \in Keys |-> None]
  /\ asked = None /\ told = None /\ checking = Idle /\ late = {} /\ paused = FALSE
  /\ status = Assumed /\ through = None

ServiceNext ==
  \/ Initialize \/ Tick \/ DatabaseTurns \/ CountHalfGivenUp
  \/ GetRowCount(Other)
  \/ \E n \in {-1, 0, 5} : RowCount(n)
  \/ \E n \in {-1, 1} : CountHalfOver(n) \/ \E c \in late : LateAnswer(c, n)
  \/ \E b \in BOOLEAN : QueryHalfOver(b) \/ SetBigQuery(b) \/ Pause(b)
  \/ \E e \in {"duckdb", "bigquery"} : SetActiveConnector(e)

ServiceSpec == ServiceInit /\ [][ServiceNext]_serviceVars

-----------------------------------------------------------------------------
(* Results in chunks.  A result is the rows 1, 2, ... in chunks of the given lengths. *)

\* A bug that must be noticed: one full chunk is handed on per chunk that comes.
Whole_One(all, size) == IF Len(all) >= size THEN 1 ELSE 0

\* How many full chunks are handed on.
Whole(all, size) == Len(all) \div size

\* executeStreamingQuery gathers what comes and hands on full chunks.
Rebuffer(so, len, size) ==
  LET all == so.buffer \o [i \in 1 .. len |-> so.seen + i]
      n == Whole(all, size)
      chunk(j) == [rows |-> SubSeq(all, (j - 1) * size + 1, j * size),
                   start |-> so.index + (j - 1) * size, done |-> FALSE]
  IN  [seen |-> so.seen + len, buffer |-> SubSeq(all, n * size + 1, Len(all)),
       given |-> so.given \o [j \in 1 .. n |-> chunk(j)], index |-> so.index + n * size]

Received(lens, size, offset) ==
  FoldLeft(LAMBDA so, len : Rebuffer(so, len, size),
           [seen |-> 0, buffer |-> <<>>, given |-> <<>>, index |-> offset], lens)

ExecuteStreamingQuery(lens, size, offset) ==
  LET so == Received(lens, size, offset)
  IN  IF so.buffer = <<>> THEN so.given
      ELSE Append(so.given, [rows |-> so.buffer, start |-> so.index, done |-> TRUE])

\* Stopped before chunk k comes: what was handed on until then.
StoppedAt(lens, size, offset, k) == Received(SubSeq(lens, 1, k - 1), size, offset).given

\* executeQuery takes all chunks, executeQueryOnConnector those up to the one that is done.
ExecuteQuery(chunks) == FlattenSeq([i \in 1 .. Len(chunks) |-> chunks[i].rows])
ExecuteQueryOnConnector(chunks) ==
  LET done == {i \in 1 .. Len(chunks) : chunks[i].done}
      end == IF done = {} THEN Len(chunks) ELSE CHOOSE i \in done : \A j \in done : i <= j
  IN  ExecuteQuery(SubSeq(chunks, 1, end))

-----------------------------------------------------------------------------
(* What an engine tells of statements and tables *)

\* An explained statement: what its boxes say, from the top; the styles are tried in turn.
Styles == <<"~ rows", "EC", "estimated_cardinality", "Cardinality", "SEQ_SCAN">>
Fits(line, style) == line.style = style /\ (style # "SEQ_SCAN" \/ line.n >= 100)
GetEstimatedRowCount(plan) ==
  LET used == SelectSeq(Styles, LAMBDA y : \E i \in 1 .. Len(plan) : Fits(plan[i], y))
  IN  IF used = <<>> THEN -1
      ELSE plan[SelectInSeq(plan, LAMBDA line : Fits(line, used[1]))].n

\* Tables by catalog and name, with their columns.  In the browser the tables of one name
\* are not told apart, and a table whose columns cannot be read has none.
GetSchema(tables, failing) ==
  [t \in tables |-> IF t \in failing THEN {} ELSE UNION {u.columns : u \in {v \in tables : v.name = t.name}}]

\* A server is asked for the catalog too, and tells nothing if it fails.
ServerSchema(tables, failing, down) ==
  [t \in (IF down THEN {} ELSE tables) |-> IF t \in failing THEN {} ELSE t.columns]

\* A bug that must be noticed: a table that fails ends it all.
BigQuerySchema_AllOrNothing(datasets, failing) ==
  LET all == FlattenSeq(datasets) IN SubSeq(all, 1, Min({i - 1 : i \in {j \in DOMAIN all : all[j] \in failing}} \cup {Len(all)}))

\* The tables of a dataset are listed until one of them fails.
BigQuerySchema(datasets, failing) ==
  FlattenSeq([d \in 1 .. Len(datasets) |->
    SubSeq(datasets[d], 1, Min({i - 1 : i \in {j \in DOMAIN datasets[d] : datasets[d][j] \in failing}} \cup {Len(datasets[d])}))])

\* The number of rows is guessed in bytes from the size of a sample: which advice is given.
EstimateMemoryUsage(rows, rowSize, mb) ==
  LET size == rows * rowSize
  IN  IF rows <= 0 THEN "unknown"
      ELSE IF size > 500 * mb THEN "very large"
      ELSE IF size > 100 * mb THEN "large"
      ELSE IF size > 50 * mb \/ rows > 100000 THEN "moderate" ELSE "small"

\* Calls about files and about BigQuery's metadata go to their connector, if it is there
\* and has a method for them.
FileCalls == {"registerFile", "registerFileHandle", "copyFileToBuffer", "dropFile"}
Does(where, call) == where = "wasm" /\ call # "dropFile"
FileCall(engines, where, call) ==
  IF "duckdb" \notin engines THEN "refused"
  ELSE IF Does(where, call) THEN "done"
  ELSE IF call \in {"copyFileToBuffer", "dropFile"} THEN "refused" ELSE "ignored"

Lists == {"projects", "datasets", "tables"}
Required == {"table", "cost", "test"}
MetadataCall(engines, call, answer) ==
  IF "bigquery" \notin engines THEN IF call = "default project" THEN "null" ELSE "refused"
  ELSE IF answer # "nothing" THEN answer
  ELSE IF call \in Lists THEN "empty" ELSE IF call \in Required THEN "refused" ELSE "null"

-----------------------------------------------------------------------------
\* What the last complete check found is so: if DuckDB failed all through it, it is not
\* called healthy, and if DuckDB answered all through it, it is, in the browser and as far as
\* its estimates can be read - whatever counts were kept or given up, unless the engine was
\* changed meanwhile.  And failures are counted only while it is not healthy.
HealthIsHonest ==
  /\ status.healthy <=> status.failures = 0
  /\ (checking = Idle /\ through # None /\ ~through.crossed) =>
       /\ through.fails => ~status.healthy
       /\ (through.answers /\ through.known /\ mode = "wasm") => status.healthy

\* A table is told a count of at least one row that is less than TTL old, and by the engine
\* it asks, unless the engine was changed since it was counted.
CountIsRecent ==
  told # None =>
    /\ told.age < TTL
    /\ told.cached => told.count > 0
    /\ told.engine = told.active \/ told.crossed

\* Statements of one length that differ in one character never share a count.
HashTellsApart ==
  \A s \in [1 .. 3 -> 0 .. 3], i \in 1 .. 3, c \in 0 .. 3 :
    c # s[i] => HashQuery(s) # HashQuery([s EXCEPT ![i] = c])

\* However a result comes in, its rows are handed on once and in order, in full chunks but
\* for the last, each with its place; a stop hands on a beginning of it.
StreamIsWhole ==
  \A lens \in UNION {[1 .. k -> 0 .. 3] : k \in 0 .. 3}, size \in 1 .. 3, offset \in 0 .. 1 :
    LET given == ExecuteStreamingQuery(lens, size, offset)
        rows(i) == FlattenSeq([j \in 1 .. i |-> given[j].rows])
    IN  /\ rows(Len(given)) = [i \in 1 .. FoldLeft(LAMBDA a, b : a + b, 0, lens) |-> i]
        /\ \A i \in 1 .. Len(given) :
             /\ given[i].start = offset + Len(rows(i - 1))
             /\ i < Len(given) => Len(given[i].rows) = size /\ ~given[i].done
             /\ i = Len(given) => Len(given[i].rows) <= size
        /\ \A k \in 1 .. Len(lens) : IsPrefix(StoppedAt(lens, size, offset, k), given)

\* Both ways to read a whole result read all of it, if only its last chunk is called done.
ReadsAgree ==
  \A n \in 0 .. 3, done \in BOOLEAN :
    LET chunks == [i \in 1 .. n |-> [rows |-> <<i, i>>, done |-> done /\ i = n]]
    IN  ExecuteQuery(chunks) = ExecuteQueryOnConnector(chunks)

\* A plan written in one style is estimated by its topmost box.
TopIsEstimated ==
  \A style \in {Styles[i] : i \in 1 .. 4}, p \in UNION {[1 .. k -> {5, 500}] : k \in 1 .. 3} :
    GetEstimatedRowCount([i \in DOMAIN p |-> [style |-> style, n |-> p[i]]]) = p[1]

\* A table has its own columns, but in the browser those of its namesakes too; and a table
\* of BigQuery that fails takes none away but those after it in its dataset.
ColumnsAreOwn ==
  LET All == {[catalog |-> c, name |-> n, columns |-> {<<c, n>>}] : c, n \in {"a", "b"}}
      datasets == << <<1, 2>>, <<3, 4>> >>
  IN  /\ \A tables \in SUBSET All : \A failing \in SUBSET tables : \A t \in tables \ failing :
           LET given == GetSchema(tables, failing)[t]
           IN  /\ t.columns \subseteq given
               /\ given # t.columns => \E u \in tables \ {t} : u.name = t.name
               /\ ServerSchema(tables, failing, FALSE)[t] = t.columns
      /\ \A failing \in SUBSET (1 .. 4) :
           LET given == ToSet(BigQuerySchema(datasets, failing))
           IN  /\ given \cap failing = {}
               /\ \A d \in 1 .. 2, i \in 1 .. 2 :
                    datasets[d][i] \notin given => \E j \in 1 .. i : datasets[d][j] \in failing

\* A call about a file that ends well did what it says, but for a server, which is never
\* given a file; and without BigQuery nothing of it is told.
CallsAreAnswered ==
  /\ \A e \in SUBSET {"duckdb", "bigquery"}, c \in FileCalls, w \in {"wasm", "http"} :
       FileCall(e, w, c) = "ignored" => w = "http" /\ "duckdb" \in e
  /\ \A e \in SUBSET {"duckdb", "bigquery"}, a \in {"nothing", "answer"},
        c \in Lists \cup Required \cup {"default project"} :
       MetadataCall(e, c, a) = "answer" <=> "bigquery" \in e /\ a = "answer"

\* The advice never gets lighter as a result gets more rows.
AdviceGrows ==
  LET order == <<"small", "moderate", "large", "very large">>
      rank(r) == SelectInSeq(order, LAMBDA a : a = EstimateMemoryUsage(r, 3, 1))
  IN  \A r \in 1 .. 200 : rank(r) <= rank(r + 1)
===============================================================================
