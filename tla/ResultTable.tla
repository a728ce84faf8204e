----------------------------- MODULE ResultTable -----------------------------
(***************************************************************************)
(* The table below the editor: useTableData.ts with the paging of            *)
(* streaming-query-service.ts.  One PaginatedTable serves all tabs: another   *)
(* tab, or another statement, only changes its props.                        *)
(*                                                                           *)
(* In streaming mode (the prop sql) executeQuery asks the service for the    *)
(* first page and then, in the background, for the others, to have all rows   *)
(* in memory if they are fewer than cacheThreshold; only then can the user    *)
(* sort.  In preloaded mode (the prop result) the rows are there already.    *)
(* currentQueryIdRef names the last executeQuery; some of its steps look at  *)
(* it after an await, others do not, and loadPage never does.                *)
(*                                                                           *)
(* A step is the code between two awaits with the render and the effects     *)
(* that follow it.  A row is <<statement, number>>, a page a sequence of rows;*)
(* the table has one column to sort by.                                      *)
(***************************************************************************)
EXTENDS Integers, Sequences, FiniteSets, SequencesExt, FiniteSetsExt

CONSTANTS
  Statements,
  Values,        \* statement -> the values in its rows, 0: null
  Streamed,      \* the statements whose tabs stream them, the others have a result
  Limited,       \* the statements with LIMIT <number> somewhere in their text
  Estimate,      \* statement -> its estimated count, or the placeholder for it
  PageSize,
  Threshold,     \* cacheThreshold
  MaxRuns,       \* bound: calls of executeQuery
  MaxLoads,      \* bound: calls of loadPage that await a page at a time
  MaxPage        \* bound: the last page anybody asks for

ASSUME TableAssumption ==
  /\ Values \in [Statements -> Seq(Nat)]
  /\ \A s \in Statements : IsInjective(Values[s])
  /\ Streamed \subseteq Statements /\ Limited \subseteq Statements
  /\ Estimate \in [Statements -> Nat]
  /\ PageSize \in Nat \ {0} /\ Threshold \in Nat
  /\ MaxRuns \in Nat /\ MaxLoads \in Nat /\ MaxPage \in Nat
  /\ "none" \notin Statements

VARIABLES
  shown,     \* the props: [mode, of]
  duckdb,    \* the active connector of the service is DuckDB's
  t,         \* the state of the hook
  at,        \* the calls of executeQuery, in order: the last is the current one
  loads,     \* the calls of loadPage that await a page
  hurried    \* history: somebody acted with a spinner or a run under way

vars == <<shown, duckdb, t, at, loads, hurried>>

None == "none"
Orders == {None, "asc", "desc"}

AllRows(s) == [k \in DOMAIN Values[s] |-> <<s, k>>]
Value(row) == Values[row[1]][row[2]]

\* compareValues: null comes last; the direction turns the whole order round.
Before(a, b) == Value(a) # 0 /\ (Value(b) = 0 \/ Value(a) < Value(b))

SortRows(rows, order) ==
  CASE order = "asc" -> SortSeq(rows, Before)
    [] order = "desc" -> Reverse(SortSeq(rows, Before))
    [] OTHER -> rows

\* getPageFromSortedRows.
Slice(rows, page, order) ==
  LET first == page * PageSize
  IN SubSeq(SortRows(rows, order), first + 1, Min({first + PageSize, Len(rows)}))

\* executeStreamingQuery: LIMIT and OFFSET are added to a statement of DuckDB in
\* which no LIMIT is found,
Paged(s) == duckdb /\ s \notin Limited

\* getPage: and else the answer is every row, whatever the page.
GetPage(s, page) == IF Paged(s) THEN Slice(AllRows(s), page, None) ELSE AllRows(s)

CeilDiv(a, b) == (a + b - 1) \div b
TotalPages == CeilDiv(t.total, PageSize)
MaxPagesToFetch == CeilDiv(Threshold, PageSize) + 1

run == Len(at)
UnderWay == {r \in DOMAIN at : at[r].step # "over"}
Streaming == shown.mode = "sql"

Init ==
  /\ shown = [mode |-> None, of |-> None]
  /\ duckdb = TRUE
  /\ t = [page |-> 0, data |-> << >>, columns |-> None, total |-> 0,
          loading |-> FALSE, error |-> FALSE, loadingPage |-> FALSE, order |-> None,
          cached |-> << >>, complete |-> FALSE, caching |-> FALSE, initialSort |-> TRUE]
  /\ at = << >>
  /\ loads = {}
  /\ hurried = FALSE

-----------------------------------------------------------------------------
(* The effects that sort. *)

\* The streaming effect, run with the state u of one render: what it sets is
\* set in w, which is u or what the other effects of that render have made of u.
SortEffect(u, w) ==
  IF u.columns = None THEN w
  ELSE IF u.initialSort THEN [w EXCEPT !.initialSort = FALSE]
  ELSE IF u.order = None \/ u.caching THEN w
  ELSE IF u.complete /\ u.cached # << >>
       THEN [w EXCEPT !.page = 0, !.data = Slice(u.cached, 0, u.order)]
       ELSE [w EXCEPT !.order = None]

\* What the sort effects of both modes make of a new state.
Sorted(u) ==
  CASE shown.mode = "sql" -> SortEffect(u, u)
    [] shown.mode = "result" /\ u.order # None ->
         [u EXCEPT !.page = 0, !.data = Slice(AllRows(shown.of), 0, u.order)]
    [] OTHER -> u

-----------------------------------------------------------------------------
(* executeQuery. *)

\* Its code before the first await, on the state w of the hook.  The callback
\* was made when the props changed and keeps the isCacheComplete of that time.
Execute(w, s, aborted) ==
  LET clear == [w EXCEPT !.page = 0, !.error = FALSE, !.loading = TRUE, !.order = None,
                         !.cached = << >>, !.complete = FALSE, !.caching = FALSE]
      begin(step) == at' = Append(at, [of |-> s, step |-> step, skip |-> t.complete, next |-> 1,
                                       rows |-> << >>, partial |-> 0])
  IN IF aborted
     THEN /\ t' = [clear EXCEPT !.loading = FALSE, !.error = TRUE]
          /\ begin("over")
     ELSE /\ t' = [clear EXCEPT !.total = Estimate[s]]
          /\ begin("first")

Step(r, a) == at' = [at EXCEPT ![r] = a]
Over(r) == Step(r, [of |-> at[r].of, step |-> "over", skip |-> FALSE, next |-> 1,
                    rows |-> << >>, partial |-> 0])

Cache(u, rows) ==
  [u EXCEPT !.cached = rows, !.complete = TRUE, !.caching = FALSE,
            !.total = Len(rows)]
NoCache(u) == [u EXCEPT !.cached = << >>, !.complete = FALSE, !.caching = FALSE]

\* The first page has come.  An empty one has no columns.
FirstPage(r) ==
  /\ at[r].step = "first"
  /\ LET rows == GetPage(at[r].of, 0)
         u == [t EXCEPT !.data = rows, !.loading = FALSE,
                        !.columns = IF rows = << >> THEN None ELSE at[r].of]
     IN CASE r # run -> t' = t /\ Over(r)
          [] r = run /\ at[r].skip -> t' = Sorted(u) /\ Over(r)
          [] r = run /\ ~at[r].skip /\ Len(rows) < PageSize ->
               t' = Sorted(Cache(u, rows)) /\ Over(r)
          [] OTHER -> /\ t' = Sorted([u EXCEPT !.caching = TRUE])
                      /\ Step(r, [at[r] EXCEPT !.step = "caching", !.rows = rows])
  /\ UNCHANGED <<shown, duckdb, loads, hurried>>

\* The query has failed, or was cancelled.
FirstPageFails(r) ==
  /\ at[r].step = "first"
  /\ t' = IF r = run THEN [t EXCEPT !.error = TRUE, !.loading = FALSE] ELSE t
  /\ Over(r)
  /\ UNCHANGED <<shown, duckdb, loads, hurried>>

\* A bug that must be noticed: the rows are kept whoever asked for them.
Keep_NoGuard(r, rows) == t' = Sorted(Cache(t, rows)) /\ Over(r)

\* The end of the loop: all rows are there.
Keep(r, rows) ==
  /\ t' = IF r = run THEN Sorted(Cache(t, rows)) ELSE t
  /\ Over(r)

\* A page has come in the background.  Two partial pages end the loop, or an
\* empty one; too many rows end it for whoever runs now, at its top a run that
\* is not the current one gives up.
CachePage(r) ==
  /\ at[r].step = "caching"
  /\ LET new == GetPage(at[r].of, at[r].next)
         rows == at[r].rows \o new
         partial == IF Len(new) < PageSize THEN at[r].partial + 1 ELSE 0
     IN CASE new = << >> -> Keep(r, at[r].rows)
          [] new # << >> /\ Len(rows) >= Threshold ->
               /\ t' = Sorted([NoCache(t) EXCEPT !.total = Len(rows) * 10])
               /\ Over(r)
          [] new # << >> /\ Len(rows) < Threshold
               /\ (partial = 2 \/ at[r].next + 1 >= MaxPagesToFetch) -> Keep(r, rows)
          [] OTHER ->
               IF r = run
               THEN /\ t' = t
                    /\ Step(r, [at[r] EXCEPT !.rows = rows, !.next = @ + 1, !.partial = partial])
               ELSE t' = Sorted([t EXCEPT !.caching = FALSE]) /\ Over(r)
  /\ UNCHANGED <<shown, duckdb, loads, hurried>>

\* The catch of the loop does not look at the current query either.
CachePageFails(r) ==
  /\ at[r].step = "caching"
  /\ t' = Sorted(NoCache(t))
  /\ Over(r)
  /\ UNCHANGED <<shown, duckdb, loads, hurried>>

-----------------------------------------------------------------------------
(* The props. *)

Hurry(when) == hurried' = (hurried \/ when)

\* The tab shown has a statement to stream: its run has just got its estimate,
\* or the user has come back to it, perhaps after a Stop (aborted).
ShowSql(s) ==
  /\ run < MaxRuns
  /\ shown # [mode |-> "sql", of |-> s]
  /\ shown' = [mode |-> "sql", of |-> s]
  /\ \E aborted \in BOOLEAN :
       Execute(SortEffect(t, [t EXCEPT !.data = << >>, !.columns = None]), s, aborted)
  /\ Hurry(UnderWay # {} \/ loads # {})
  /\ UNCHANGED <<duckdb, loads>>

\* The tab shown has a result.  The effect that clears the order runs before
\* the one that sorts, but both with the order of the render.
Preload(s, order) ==
  t' = [t EXCEPT !.data = Slice(AllRows(s), 0, order),
                 !.columns = s, !.total = Len(Values[s]),
                 !.error = FALSE, !.page = 0, !.order = None]

ShowResult(s) ==
  /\ shown # [mode |-> "result", of |-> s]
  /\ shown' = [mode |-> "result", of |-> s]
  /\ Preload(s, t.order)
  /\ Hurry(UnderWay # {} \/ loads # {})
  /\ UNCHANGED <<duckdb, at, loads>>

\* The tab shown has neither, as when its statement was sent again.
ShowNothing ==
  /\ shown.mode # None
  /\ shown' = [mode |-> None, of |-> None]
  /\ t' = [t EXCEPT !.data = << >>, !.columns = None, !.total = 0,
                    !.error = FALSE, !.order = None]
  /\ Hurry(UnderWay # {} \/ loads # {})
  /\ UNCHANGED <<duckdb, at, loads>>

\* Another engine: connectorType is among the dependencies of executeQuery, so
\* the statement is run again, there.
SwitchEngine ==
  /\ duckdb' = ~duckdb
  /\ CASE Streaming -> /\ run < MaxRuns
                       /\ \E aborted \in BOOLEAN :
                            Execute([t EXCEPT !.data = << >>, !.columns = None], shown.of, aborted)
       [] shown.mode = "result" -> Preload(shown.of, None) /\ at' = at
       [] OTHER -> UNCHANGED <<t, at>>
  /\ Hurry(UnderWay # {} \/ loads # {})
  /\ UNCHANGED <<shown, loads>>

-----------------------------------------------------------------------------
(* The user. *)

\* The footer: First, Prev, Next and Last wait for the page that is loading, a
\* number typed in does not.  There is no footer when an error is shown.
LoadPage(p) ==
  /\ ~t.error
  /\ p \in 0 .. Min({TotalPages - 1, MaxPage})
  /\ LET inCache == p * PageSize < Len(t.cached) /\ (t.complete \/ t.order # None)
         show(rows) == /\ t' = [t EXCEPT !.data = rows, !.page = p, !.loadingPage = FALSE]
                       /\ loads' = loads
     IN CASE inCache -> show(Slice(t.cached, p, t.order))
          [] ~inCache /\ Streaming ->
               /\ \E i \in 1 .. MaxLoads : /\ i \notin {l.id : l \in loads}
                                          /\ loads' = loads \cup {[id |-> i, of |-> shown.of, page |-> p]}
               /\ t' = [t EXCEPT !.loadingPage = TRUE]
          [] ~inCache /\ shown.mode = "result" -> show(Slice(AllRows(shown.of), p, t.order))
          [] OTHER -> show(t.data)
  /\ Hurry(t.loading \/ loads # {})
  /\ UNCHANGED <<shown, duckdb, at>>

\* A bug that must be noticed: the page is shown and its number is not.
PageComes_NoNumber(l) ==
  /\ t' = [t EXCEPT !.data = GetPage(l.of, l.page), !.loadingPage = FALSE]
  /\ loads' = loads \ {l}
  /\ UNCHANGED <<shown, duckdb, at, hurried>>

PageComes(l) ==
  /\ t' = [t EXCEPT !.data = GetPage(l.of, l.page), !.page = l.page, !.loadingPage = FALSE]
  /\ loads' = loads \ {l}
  /\ UNCHANGED <<shown, duckdb, at, hurried>>

\* A bug that must be noticed: no finally clears loadingPage.
PageFails_KeepsSpinner(l) ==
  /\ loads' = loads \ {l}
  /\ UNCHANGED <<shown, duckdb, t, at, hurried>>

PageFails(l) ==
  /\ t' = [t EXCEPT !.loadingPage = FALSE]
  /\ loads' = loads \ {l}
  /\ UNCHANGED <<shown, duckdb, at, hurried>>

\* handleColumnSort, from the header or its menu.
HandleColumnSort ==
  /\ t.columns # None /\ ~t.error
  /\ t' = Sorted([t EXCEPT !.order = IF @ = "asc" THEN "desc" ELSE "asc"])
  /\ Hurry(t.loading \/ t.caching \/ loads # {})
  /\ UNCHANGED <<shown, duckdb, at, loads>>

-----------------------------------------------------------------------------
\* An answer may be an error, as when the query was cancelled.
RunAnswer(r) ==
  /\ r \in UnderWay
  /\ FirstPage(r) \/ CachePage(r) \/ FirstPageFails(r) \/ CachePageFails(r)

LoadAnswer(i) == \E l \in loads : l.id = i /\ (PageComes(l) \/ PageFails(l))

Next ==
  \/ \E r \in DOMAIN at : RunAnswer(r)
  \/ \E i \in 1 .. MaxLoads : LoadAnswer(i)
  \/ \E s \in Streamed : ShowSql(s)
  \/ \E s \in Statements \ Streamed : ShowResult(s)
  \/ ShowNothing \/ SwitchEngine
  \/ \E p \in 0 .. MaxPage : LoadPage(p)
  \/ HandleColumnSort

\* The engines answer every query.
Spec ==
  /\ Init /\ [][Next]_vars
  /\ \A r \in 1 .. MaxRuns : WF_vars(RunAnswer(r))
  /\ \A i \in 1 .. MaxLoads : WF_vars(LoadAnswer(i))

-----------------------------------------------------------------------------
(* Properties. *)

TypeOK ==
  /\ shown.mode \in {None, "sql", "result"} /\ shown.of \in Statements \cup {None}
  /\ duckdb \in BOOLEAN /\ hurried \in BOOLEAN
  /\ t.order \in Orders /\ t.columns \in Statements \cup {None}
  /\ t.page \in 0 .. MaxPage /\ t.total \in Nat
  /\ \A r \in DOMAIN at : at[r].step \in {"first", "caching", "over"} /\ at[r].of \in Statements
  /\ \A l \in loads : l.of \in Statements /\ l.page \in 0 .. MaxPage

\* Sorting is allowed only on the whole of what the statement that is shown
\* returns: a complete cache has each of its rows once, whichever runs were
\* overtaken, however the pages overlap and however often the engine was
\* changed.  (While no statement is streamed, a run goes on from page to page
\* with whatever engine there is; its cache is cleared before it is used.)
CompleteIsWhole ==
  Streaming /\ t.complete => t.cached = AllRows(shown.of)

\* What may be sorted is all there is.
CacheIsWhole == TypeOK /\ CompleteIsWhole

\* Who waits for the spinners sees, of a statement that the service pages, the
\* page whose number the footer shows, in the order the header shows.
CalmPages ==
  (~hurried /\ Streaming /\ shown.of \notin Limited /\ duckdb /\ UnderWay = {} /\ loads = {})
     => (t.error \/ t.data = Slice(AllRows(shown.of), t.page, t.order))

\* Every spinner stops: that of the statement, that of the page and the one that
\* makes sorting wait for the cache.
SpinnersStop ==
  /\ t.loading ~> ~t.loading
  /\ t.loadingPage ~> ~t.loadingPage
  /\ t.caching ~> ~t.caching
==============================================================================
