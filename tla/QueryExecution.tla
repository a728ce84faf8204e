---------------------------- MODULE QueryExecution ----------------------------
(***************************************************************************)
(* The hook useQueryExecution: running the statement of the active tab on  *)
(* the engine chosen for it, the cost warning of BigQuery, the choice      *)
(* between a whole result and pages, and the Stop button.                  *)
(*                                                                         *)
(* handleRunQuery awaits several answers, and while it does the user can   *)
(* stop, change tab, change engine and run another statement: nothing      *)
(* refuses a run while another is executing (the editor's Ctrl+Enter looks *)
(* only at the initialisation).  All runs share one abortControllerRef,    *)
(* one overlay flag, one cost dialog and the active connector of the       *)
(* service.  An action is the code between two awaits.                     *)
(***************************************************************************)
EXTENDS FiniteSets

CONSTANTS Runs,      \* the calls of handleRunQuery
          Tabs, Engines,
          BigQuery   \* the engine whose queries have a price

ASSUME ExecutionAssumption ==
  /\ BigQuery \in Engines
  /\ "none" \notin Runs \cup Engines

VARIABLES
  at,        \* what each run awaits
  engine,    \* the engine its statement is for: detected, or the user's
  kind,      \* what its statement is: "select" or "command"
  tab,       \* the tab each run was started in
  sent,      \* the engine each run's statement was executed on
  signal,    \* the run whose AbortController it was executed with
  outcome,   \* what each run has shown in its tab
  ref,       \* abortControllerRef: the run whose controller it holds
  aborted,   \* the runs whose controller was aborted
  executing, \* isQueryExecuting, the overlay
  dialog,    \* the run that handleConfirm and handleCancel resolve
  service,   \* the active connector of queryService
  ready,     \* the engines that have a connector
  loading,   \* the tabs that are loading
  paged,     \* the run whose statement each tab has its table read page by page
  fetch,     \* the run whose first page the table fetches
  active,    \* activeTabId
  stopped,   \* history: the undisturbed runs under way when Stop was pressed
  undisturbed \* history: the runs during which no other was started and the
             \* user did not change the engine

engines == <<service, ready>>
user == <<active, stopped, undisturbed>>
statement == <<engine, kind, tab>>
runs == <<at, statement, sent, signal, outcome>>
tables == <<paged, fetch>>
vars == <<runs, ref, aborted, executing, dialog, engines, loading, tables, user>>

None == "none"
Awaits == {"cost", "dialog", "count", "query", "urls", "after"}
Outcomes == {None, "result", "paged", "cancelled", "declined", "failed", "broken"}

UnderWay == {r \in Runs : at[r] \in Awaits}

TypeOK ==
  /\ at \in [Runs -> Awaits \cup {"new", "over"}]
  /\ engine \in [Runs -> Engines \cup {None}]
  /\ kind \in [Runs -> {"select", "command", None}]
  /\ tab \in [Runs -> Tabs \cup {None}]
  /\ sent \in [Runs -> Engines \cup {None}]
  /\ signal \in [Runs -> Runs \cup {None}]
  /\ outcome \in [Runs -> Outcomes]
  /\ ref \in Runs \cup {None}
  /\ aborted \subseteq Runs
  /\ executing \in BOOLEAN
  /\ dialog \in Runs \cup {None}
  /\ service \in Engines /\ ready \subseteq Engines
  /\ loading \subseteq Tabs
  /\ paged \in [Tabs -> Runs \cup {None}] /\ fetch \in Runs \cup {None}
  /\ active \in Tabs
  /\ stopped \subseteq undisturbed
  /\ undisturbed \subseteq Runs

Init ==
  /\ at = [r \in Runs |-> "new"]
  /\ engine = [r \in Runs |-> None]
  /\ kind = [r \in Runs |-> None]
  /\ tab = [r \in Runs |-> None]
  /\ sent = [r \in Runs |-> None]
  /\ signal = [r \in Runs |-> None]
  /\ outcome = [r \in Runs |-> None]
  /\ ref = None
  /\ aborted = {}
  /\ executing = FALSE
  /\ dialog = None
  /\ service \in Engines \ {BigQuery}
  /\ ready \in {Engines, Engines \ {BigQuery}}
  /\ loading = {}
  /\ paged = [t \in Tabs |-> None] /\ fetch = None
  /\ active \in Tabs
  /\ stopped = {}
  /\ undisturbed = Runs

-----------------------------------------------------------------------------
(* Parts of the handler. *)

Await(r, a) == at' = [at EXCEPT ![r] = a]

\* queryService.executeQuery with the signal of the controller in the ref.
Execute(r) ==
  /\ sent' = [sent EXCEPT ![r] = service]
  /\ signal' = [signal EXCEPT ![r] = ref]
  /\ Await(r, "query")

Show(r, what) == outcome' = [outcome EXCEPT ![r] = what]

\* The handler returns: the finally clears the ref, whosever it is.
Over(r) == Await(r, "over") /\ ref' = None

\* updateTab with loading: false and setIsQueryExecuting(false).
Settle(r) ==
  /\ loading' = loading \ {tab[r]}
  /\ executing' = FALSE

\* useVirtualTable: false.  The table's fetch, if there is one, goes on.
NoPages(t) ==
  /\ paged' = [paged EXCEPT ![t] = None]
  /\ UNCHANGED fetch

\* The catch: an error that is not an AbortError.
Fail(r, what) ==
  /\ Show(r, what)
  /\ Settle(r)
  /\ NoPages(tab[r])
  /\ Over(r)

\* "Query cancelled by user": the flag is left to whoever pressed Stop.
ShowCancelled(r) ==
  /\ Show(r, "cancelled")
  /\ loading' = loading \ {tab[r]}
  /\ Over(r)
  /\ UNCHANGED executing

\* executeQuery of the table, which runs again whenever what it shows changes.  It
\* overtakes the fetch under way, which then does not say that it is over.
Fetch(t) ==
  /\ fetch' = paged[t]
  /\ loading' = loading \cup {t}

Disturb(rs) ==
  /\ undisturbed' = undisturbed \ rs
  /\ stopped' = stopped \ rs

-----------------------------------------------------------------------------
(* The user. *)

\* A bug that must be noticed: the service is not brought in sync.
Run_NoSync(r, e, k) ==
  /\ at[r] = "new"
  /\ e \in ready
  /\ engine' = [engine EXCEPT ![r] = e]
  /\ kind' = [kind EXCEPT ![r] = k]
  /\ tab' = [tab EXCEPT ![r] = active]
  /\ ref' = r
  /\ executing' = TRUE
  /\ loading' = loading \cup {active}
  /\ NoPages(active)
  /\ Await(r, IF e = BigQuery THEN "cost" ELSE "count")
  /\ UNCHANGED <<sent, signal, outcome, aborted, dialog, engines, user>>

\* The part of handleRunQuery before its first await.
Run(r, e, k) ==
  /\ at[r] = "new"
  /\ e \in ready
  /\ engine' = [engine EXCEPT ![r] = e]
  /\ kind' = [kind EXCEPT ![r] = k]
  /\ e = BigQuery => k = "select"        \* it makes no difference
  /\ tab' = [tab EXCEPT ![r] = active]
  /\ ref' = r
  /\ executing' = TRUE
  /\ service' = e
  /\ loading' = loading \cup {active}
  /\ NoPages(active)
  /\ IF e = BigQuery
     THEN Await(r, "cost") /\ UNCHANGED <<sent, signal>>
     ELSE IF k = "command"
     THEN /\ sent' = [sent EXCEPT ![r] = e]
          /\ signal' = [signal EXCEPT ![r] = r]
          /\ Await(r, "query")
     ELSE Await(r, "count") /\ UNCHANGED <<sent, signal>>
  /\ Disturb(IF UnderWay = {} THEN {} ELSE UnderWay \cup {r})
  /\ UNCHANGED <<outcome, aborted, dialog, ready, active>>

\* setActiveConnector throws before the try: the overlay flag stays set.
RunThrows(r) ==
  /\ at[r] = "new"
  /\ ready # Engines
  /\ Await(r, "over")
  /\ ref' = r
  /\ executing' = TRUE
  /\ Disturb(UnderWay)
  /\ UNCHANGED <<statement, sent, signal, outcome, aborted, dialog, engines, loading, active,
                 tables>>

\* handleConnectorChange.
SwitchConnector(e) ==
  /\ e \in ready
  /\ service' = e
  /\ IF service # e /\ paged[active] # None THEN Fetch(active)
                                           ELSE UNCHANGED <<fetch, loading>>
  /\ Disturb(UnderWay)
  /\ UNCHANGED <<runs, ref, aborted, executing, dialog, ready, paged, active>>

\* The size of a page or of the cache is changed in the settings.
ChangePageSize ==
  /\ paged[active] # None
  /\ Fetch(active)
  /\ UNCHANGED <<runs, ref, aborted, executing, dialog, engines, paged, user>>

\* A bug that must be noticed: Stop leaves the flag to the handler.
Stop_KeepsFlag ==
  /\ active \in loading \/ executing
  /\ aborted' = aborted \cup ({ref} \ {None})
  /\ ref' = None
  /\ loading' = loading \ {active}
  /\ stopped' = stopped \cup (UnderWay \cap undisturbed)
  /\ UNCHANGED <<runs, executing, dialog, engines, active, undisturbed, tables>>

\* A bug that must be noticed: Stop leaves the aborted controller in the ref.
Stop_KeepsRef ==
  /\ active \in loading \/ executing
  /\ aborted' = aborted \cup ({ref} \ {None})
  /\ loading' = loading \ {active}
  /\ executing' = FALSE
  /\ stopped' = stopped \cup (UnderWay \cap undisturbed)
  /\ UNCHANGED <<runs, ref, dialog, engines, active, undisturbed, tables>>

\* handleStopQuery: the button and Escape are there while the active tab is
\* loading, and on the overlay.
Stop ==
  /\ active \in loading \/ executing
  /\ aborted' = aborted \cup ({ref} \ {None})
  /\ ref' = None
  /\ loading' = loading \ {active}
  /\ executing' = FALSE
  /\ stopped' = stopped \cup (UnderWay \cap undisturbed)
  /\ UNCHANGED <<runs, dialog, engines, active, undisturbed, tables>>

SwitchTab(t) ==
  /\ active' = t
  /\ IF t # active /\ paged[t] # None THEN Fetch(t) ELSE UNCHANGED <<fetch, loading>>
  /\ UNCHANGED <<runs, ref, aborted, executing, dialog, engines, paged, stopped, undisturbed>>

\* The price is over the threshold and the user has decided.  Another warning
\* may have replaced the one of a run that still waits.
Decline ==
  /\ dialog # None
  /\ Show(dialog, "declined")
  /\ Settle(dialog)
  /\ Over(dialog)
  /\ dialog' = None
  /\ UNCHANGED <<statement, sent, signal, aborted, engines, tables, user>>

\* A bug that must be noticed: without a controller the handler just returns.
Accepted_Returns(r) ==
  /\ loading' = loading \cup {tab[r]}
  /\ NoPages(tab[r])
  /\ IF ref = None
     THEN Over(r) /\ UNCHANGED <<sent, signal>>
     ELSE Execute(r) /\ UNCHANGED ref
  /\ UNCHANGED <<outcome, executing>>

\* The rest of a BigQuery run after its price is accepted.
Accepted(r) ==
  IF ref = None
  THEN Fail(r, "broken") /\ UNCHANGED <<sent, signal>>
  ELSE /\ Execute(r)
       /\ loading' = loading \cup {tab[r]}
       /\ NoPages(tab[r])
       /\ UNCHANGED <<outcome, ref, executing>>

Confirm ==
  /\ dialog # None
  /\ dialog' = None
  /\ Accepted(dialog)
  /\ UNCHANGED <<statement, aborted, engines, user>>

-----------------------------------------------------------------------------
(* The answers. *)

\* checkCost: cheap, cached or impossible to estimate.
Cheap(r) ==
  /\ at[r] = "cost"
  /\ Accepted(r)
  /\ UNCHANGED <<statement, aborted, dialog, engines, user>>

\* The warning opens; the promise of a warning that is open is forgotten.
Warn(r) ==
  /\ at[r] = "cost"
  /\ Await(r, "dialog")
  /\ dialog' = r
  /\ UNCHANGED <<statement, sent, signal, outcome, ref, aborted, executing, engines, loading,
                 tables, user>>

\* getRowCount ignores the signal: a large result is paged, ...
CountLarge(r) ==
  /\ at[r] = "count"
  /\ IF ref \in aborted
     THEN ShowCancelled(r) /\ UNCHANGED tables
     ELSE /\ Show(r, "paged")
          /\ loading' = loading \cup {tab[r]}
          /\ paged' = [paged EXCEPT ![tab[r]] = r]
          /\ \/ tab[r] = active /\ fetch' = r
             \/ tab[r] # active /\ UNCHANGED fetch
             \/ paged[tab[r]] # None /\ UNCHANGED fetch  \* the same statement once more
          /\ Await(r, "urls")
          /\ UNCHANGED <<ref, executing>>
  /\ UNCHANGED <<statement, sent, signal, aborted, dialog, engines, user>>

\* ... a small one is executed: without a controller that is a TypeError.
CountSmall(r) ==
  /\ at[r] = "count"
  /\ IF ref \in aborted
     THEN ShowCancelled(r) /\ UNCHANGED <<sent, signal, tables>>
     ELSE IF ref = None
     THEN Fail(r, "broken") /\ UNCHANGED <<sent, signal>>
     ELSE Execute(r) /\ UNCHANGED <<outcome, ref, executing, loading, tables>>
  /\ UNCHANGED <<statement, aborted, dialog, engines, user>>

\* addRemoteURL has been tried for every URL: the ref is kept for the pages.
PagesReady(r) ==
  /\ at[r] = "urls"
  /\ Await(r, "over")
  /\ executing' = FALSE
  /\ UNCHANGED <<statement, sent, signal, outcome, ref, aborted, dialog, engines, loading, user,
                 tables>>

\* The paginated table has its first page.  There is one table, for the active tab; its
\* fetch goes on when another tab is shown, unless that has pages of its own.
FirstPage ==
  /\ fetch # None
  /\ fetch' = None
  /\ loading' = loading \ {tab[fetch]}
  /\ executing' = FALSE
  /\ UNCHANGED <<runs, ref, aborted, dialog, engines, paged, user>>

\* Its fetch fails or is cancelled, which the tab that is active by now is told, too.
PageFails ==
  /\ fetch # None
  /\ fetch' = None
  /\ loading' = loading \ {tab[fetch], active}
  /\ executing' = FALSE
  /\ UNCHANGED <<runs, ref, aborted, dialog, engines, paged, user>>

\* The engine's answer arrives after the abort: executeQuery throws.
Aborted(r) ==
  /\ at[r] = "query"
  /\ signal[r] \in aborted
  /\ ShowCancelled(r)
  /\ NoPages(tab[r])
  /\ UNCHANGED <<statement, sent, signal, aborted, dialog, engines, user>>

\* The whole result is there: it came before the abort, or has no rows.
Answered(r) ==
  /\ at[r] = "query"
  /\ IF engine[r] # BigQuery /\ kind[r] = "select" /\ ref = None
     THEN Fail(r, "broken")
     ELSE IF ref \in aborted
     THEN ShowCancelled(r) /\ UNCHANGED tables
     ELSE /\ Show(r, "result")
          /\ Settle(r)
          /\ NoPages(tab[r])
          /\ IF engine[r] = BigQuery
             THEN Over(r)
             ELSE Await(r, "after") /\ UNCHANGED ref
  /\ UNCHANGED <<statement, sent, signal, aborted, dialog, engines, user>>

EngineFails(r) ==
  /\ at[r] = "query"
  /\ Fail(r, "failed")
  /\ UNCHANGED <<statement, sent, signal, aborted, dialog, engines, user>>

\* The schema is refreshed, a database attached or detached in the explorer.
AfterDone(r) ==
  /\ at[r] = "after"
  /\ Over(r)
  /\ UNCHANGED <<statement, sent, signal, outcome, aborted, executing, dialog, engines, loading,
                 user, tables>>

\* An error there replaces the result by the error.
AfterFails(r) ==
  /\ at[r] = "after"
  /\ Fail(r, "failed")
  /\ UNCHANGED <<statement, sent, signal, aborted, dialog, engines, user>>

-----------------------------------------------------------------------------
Answer(r) ==
  \/ Cheap(r) \/ Warn(r) \/ CountLarge(r) \/ CountSmall(r) \/ PagesReady(r)
  \/ Aborted(r) \/ Answered(r) \/ EngineFails(r) \/ AfterDone(r) \/ AfterFails(r)

Next ==
  \/ Stop \/ Decline \/ Confirm \/ ChangePageSize \/ FirstPage \/ PageFails
  \/ \E t \in Tabs : SwitchTab(t)
  \/ \E e \in Engines : SwitchConnector(e)
  \/ \E r \in Runs :
       \/ \E e \in Engines, k \in {"select", "command"} : Run(r, e, k)
       \/ RunThrows(r) \/ Answer(r)

Spec == Init /\ [][Next]_vars

\* Every await is answered, that of the table's fetch included.  Nothing makes the user
\* show a tab again.
Fairness == WF_vars(FirstPage \/ PageFails) /\ \A r \in Runs : WF_vars(Answer(r))

FairSpec == Spec /\ Fairness

-----------------------------------------------------------------------------
(* What holds. *)

\* The overlay is never shown for nothing: it goes with the last run, however
\* runs overlap and are stopped (setIsQueryExecuting is left out on several
\* paths), unless a run was refused because its engine has no connector.
ExecutingHasRun ==
  executing /\ ready = Engines => UnderWay # {}

\* A controller that was aborted is never in the ref: the tests of the handler
\* for an aborted signal, all of the ref's, never find one.
RefIsLive ==
  ref # None => ref \notin aborted

\* A run that nothing disturbs and nobody stops never loses the controller it
\* executes with, and its statement goes to its own engine.
UndisturbedRuns ==
  \A r \in undisturbed :
    /\ outcome[r] = "broken" => r \in stopped
    /\ sent[r] # None => sent[r] = engine[r] /\ signal[r] = r

\* An undisturbed run that is stopped before its statement is executed, while
\* its price or its size is estimated, is not executed afterwards.
StoppedNotSent ==
  [][\A r \in stopped : r \in undisturbed' /\ sent[r] = None => sent'[r] = None]_vars

\* A run of this tab waits for the user's decision, or its warning was replaced by
\* another and nobody will ever decide.
Undecided(t) == \E r \in Runs : tab[r] = t /\ at[r] = "dialog"

\* The table does not fetch what the tab has it read: another tab is shown, with pages
\* of its own or since before this one had any; or a statement that is fetched already
\* was run once more, which gives the table nothing new to fetch.
Unfetched(t) ==
  /\ paged[t] # None /\ fetch # paged[t]
  /\ active # t \/ \E r \in Runs \ {paged[t]} : tab[r] = t /\ outcome[r] = "paged"

\* A tab does not load for ever, however runs, their stops and the fetches of the one
\* table overlap.  Excused are the two cases in which the code forgets it.
LoadingEnds ==
  \A t \in Tabs : t \in loading ~> t \notin loading \/ Undecided(t) \/ Unfetched(t)

-----------------------------------------------------------------------------
(* What a comment says, and the code does not do. *)

\* useQueryExecution.ts: "Ensure service is in sync with the effective
\* connector for this execution".
DocServiceInSync ==
  \A r \in Runs : sent[r] # None => sent[r] = engine[r]

\* The flag that says a query runs is up only while one does.
RunsAreTracked == TypeOK /\ ExecutingHasRun

\* The controller in the ref is never an aborted one, and a run that nothing
\* disturbs has its own there until it ends.
OwnController == RefIsLive /\ UndisturbedRuns
=============================================================================
