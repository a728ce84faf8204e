---------------------------- MODULE ServerCatalog ----------------------------
(***************************************************************************)
(* What the explorer shows of a DuckDB server (duckdb -ui): the tables of the *)
(* session (useLocalDatabase) and the attached databases (useServerDatabases). *)
(*                                                                           *)
(* Each of the two hooks shows a copy of a part of the catalogue of the server *)
(* and replaces it by a refresh: a row of requests, one after the other, each   *)
(* of which reads what the catalogue is at that moment and may fail.  Refreshes *)
(* are begun by a timer, by the application, by a finished statement, by the    *)
(* user and by the catalogue events of the server, and nothing keeps two of     *)
(* them apart.  Other clients of the server change the catalogue too.           *)
(*                                                                           *)
(* The hooks do not meet: hook says which of them a behaviour is about, and     *)
(* only the part of the catalogue that it shows changes.  Of the requests of a   *)
(* refresh at most one fails.                                                  *)
(***************************************************************************)
EXTENDS Integers, Sequences, FiniteSets

CONSTANTS
  Attached,        \* names of databases that may be attached
  Objects,         \* tables and views a database may have
  Views,           \* those of Objects that are views
  MaxRetries,      \* maxRetries, 10 in the code
  MaxChanges,      \* bound: changes of the catalogue
  MaxRefreshes     \* bound: refreshes of a hook

VARIABLES
  hook,            \* "local" | "server"
  phase,           \* of the query service: "starting" | "detected" | "ready" | "failed"
  httpMode,        \* the mode App has last rendered with is "http"
  timer,           \* attempts of the first refresh so far, -1 without a timer
  catalogue,       \* the server's: attached databases (and "memory") -> their objects
  changes,         \* how often it has changed
  events,          \* catalogue events under way
  answer,          \* a statement is under way that refreshes the hook when it returns
  listener,        \* the hook has subscribed to the events
  missed,          \* an event did not reach it since its last refresh began
  refreshes,       \* the refreshes under way
  begun,           \* refreshes begun
  shown            \* [databases, isLoading, error, by, since, whole]

catalogVars ==
  <<hook, phase, httpMode, timer, catalogue, changes, events, answer, listener,
    missed, refreshes, begun, shown>>

Memory == "memory"

\* The databases the hook is about.
Scope == IF hook = "local" THEN {Memory} ELSE Attached

Known == {"columns", "count"}      \* what a refresh learns of a table

\* What the hook ought to show.
Told == [d \in DOMAIN catalogue \cap Scope |-> [o \in catalogue[d] |-> Known]]

CatalogInit ==
  /\ hook \in {"local", "server"}
  /\ phase = "starting" /\ httpMode = FALSE
  /\ timer = IF hook = "local" THEN 0 ELSE -1
  /\ \E os \in {{}, Objects}, ds \in SUBSET (Attached \cap Scope) :
       catalogue = [d \in {Memory} \cup ds |-> IF d \in Scope THEN os ELSE {}]
  /\ changes = 0 /\ events = 0 /\ answer = FALSE
  /\ listener = FALSE /\ missed = FALSE
  /\ refreshes = {} /\ begun = 0
  /\ shown = [databases |-> << >>, isLoading |-> FALSE, error |-> FALSE,
              by |-> 0, since |-> 0, whole |-> TRUE]

-----------------------------------------------------------------------------
(* Beginning of a refresh. *)

\* The first request of a refresh: the server hook asks for the databases, the
\* local hook at once for the tables of its own.
NewRefresh ==
  [id |-> begun + 1, since |-> changes,
   step |-> IF hook = "local" THEN "tables" ELSE "list",
   todo |-> IF hook = "local" THEN {Memory} ELSE {},
   tables |-> {}, objects |-> {}, read |-> << >>, whole |-> TRUE]

View == <<refreshes, begun, shown, missed>>
Server == <<catalogue, changes, events, answer>>
Setting == <<hook, phase, httpMode, timer, listener>>

\* The spinner is shown and the first request sent.
SendFirst ==
  /\ begun < MaxRefreshes
  /\ refreshes' = refreshes \cup {NewRefresh}
  /\ begun' = begun + 1
  /\ shown' = [shown EXCEPT !.isLoading = TRUE, !.error = FALSE]
  /\ missed' = FALSE

\* A bug that must be noticed: while a refresh runs, no other is begun.
Refresh_UnlessLoading ==
  IF phase = "ready" /\ (hook = "server" => httpMode) /\ ~shown.isLoading
  THEN SendFirst
  ELSE UNCHANGED View

\* refreshSchema and refreshDatabases: nothing without a connector and, for the
\* server hook, in a render of the other mode.
Refresh ==
  IF phase = "ready" /\ (hook = "server" => httpMode)
  THEN SendFirst
  ELSE UNCHANGED View

-----------------------------------------------------------------------------
(* Start of the service and of the hooks. *)

\* initialize finds the mode, then connects.
DetectMode ==
  /\ phase = "starting"
  /\ phase' = "detected"
  /\ UNCHANGED <<hook, httpMode, timer, listener, Server, View>>

\* The request for /info is answered, or the server is not there.
Connect ==
  /\ phase = "detected"
  /\ phase' \in {"ready", "failed"}
  /\ UNCHANGED <<hook, httpMode, timer, listener, Server, View>>

\* A render of App, for whatever reason, that finds the service in http mode.  The
\* server hook starts its timer and subscribes to the events, if there is a
\* connector to subscribe to; it does not try again.  (The local hook has tried in
\* the first render, when there was none.)
Render ==
  /\ ~httpMode /\ phase # "starting"
  /\ httpMode' = TRUE
  /\ timer' = IF hook = "server" THEN 0 ELSE timer
  /\ listener' = (hook = "server" /\ phase = "ready")
  /\ UNCHANGED <<hook, phase, Server, View>>

\* attemptRefresh: up to MaxRetries times there is no connector.
AttemptRefresh ==
  /\ timer >= 0
  /\ timer' = IF phase # "ready" /\ timer + 1 < MaxRetries THEN timer + 1 ELSE -1
  /\ Refresh
  /\ UNCHANGED <<hook, phase, httpMode, listener, Server>>

\* The refresh button of a section of the explorer; for the session also App, once
\* the service has started.
PressRefresh ==
  /\ phase = "ready"
  /\ Refresh
  /\ UNCHANGED <<Setting, Server>>

-----------------------------------------------------------------------------
(* Changes at the server. *)

With(f, d, x) == [e \in DOMAIN f \cup {d} |-> IF e = d THEN x ELSE f[e]]
Without(f, d) == [e \in DOMAIN f \ {d} |-> f[e]]
Other(os, o) == IF o \in os THEN os \ {o} ELSE os \cup {o}

\* A database is attached or detached, or a table or a view comes or goes.
NewCatalogues ==
  {With(catalogue, d, os) : d \in (Attached \cap Scope) \ DOMAIN catalogue, os \in {{}, Objects}}
  \cup {Without(catalogue, d) : d \in Attached \cap Scope \cap DOMAIN catalogue}
  \cup {With(catalogue, d, Other(catalogue[d], o)) : d \in DOMAIN catalogue \cap Scope, o \in Objects}

\* The server tells every client by an event.
Change(new) ==
  /\ changes < MaxChanges
  /\ catalogue' = new
  /\ changes' = changes + 1
  /\ events' = events + 1
  /\ missed' = (missed \/ ~listener)
  /\ UNCHANGED <<Setting, refreshes, begun, shown>>

\* A statement run from the editor: when it has returned, ATTACH and DETACH refresh
\* the server hook, and a CREATE or DROP in the session the local hook.  One that
\* names an attached database looks for a data source of that name; there is none.
RunStatement ==
  /\ phase = "ready" /\ ~answer
  /\ \E new \in NewCatalogues :
       /\ Change(new)
       /\ answer' = (hook = "local" \/ DOMAIN new # DOMAIN catalogue)

StatementReturns ==
  /\ answer
  /\ answer' = FALSE
  /\ Refresh
  /\ UNCHANGED <<Setting, catalogue, changes, events>>

\* Another client of the server.
OtherClient ==
  /\ \E new \in NewCatalogues : Change(new)
  /\ UNCHANGED answer

\* An event reaches the listener, which refreshes.
EventComes ==
  /\ events > 0
  /\ events' = events - 1
  /\ IF listener THEN Refresh ELSE UNCHANGED View
  /\ UNCHANGED <<Setting, catalogue, changes, answer>>

\* The server closes the connection for events; those under way are lost, and the
\* browser opens a new one.
EventsLost ==
  /\ events > 0
  /\ events' = 0
  /\ missed' = TRUE
  /\ UNCHANGED <<Setting, catalogue, changes, answer, refreshes, begun, shown>>

-----------------------------------------------------------------------------
(* The requests of a refresh. *)

Step(r, new) ==
  /\ refreshes' = (refreshes \ {r}) \cup {new}
  /\ UNCHANGED <<begun, shown, missed>>

\* A refresh has ended and replaces what is shown, whichever began later.
Show(r) ==
  /\ refreshes' = refreshes \ {r}
  /\ shown' = [databases |-> r.read, isLoading |-> FALSE, error |-> FALSE,
              by |-> r.id, since |-> r.since, whole |-> r.whole]
  /\ UNCHANGED <<begun, missed>>

\* A request fails whose error ends the refresh: what was shown stays.
GiveUp(r) ==
  /\ refreshes' = refreshes \ {r}
  /\ shown' = [shown EXCEPT !.isLoading = FALSE, !.error = TRUE]
  /\ UNCHANGED <<begun, missed>>

\* Databases are asked for one by one, in the order of their names; the local hook
\* has one.
NextDatabase(r, todo) ==
  IF todo = {} THEN Show(r) ELSE Step(r, [r EXCEPT !.step = "tables", !.todo = todo])

\* The answer to a request of the refresh r, whose database is d.
ListAnswered(r) ==
  /\ r.step = "list"
  /\ NextDatabase(r, DOMAIN catalogue \cap Attached)

ObjectsOf(d) == IF d \in DOMAIN catalogue THEN catalogue[d] ELSE {}

TablesAnswered(r, d) ==
  /\ r.step = "tables" /\ d \in r.todo
  /\ Step(r, [r EXCEPT !.step = "views", !.todo = @ \ {d},
                          !.tables = {<<d, ObjectsOf(d) \ Views>>}])

\* Tables and views together are the objects to be described.
ViewsAnswered(r) ==
  /\ r.step = "views"
  /\ \E t \in r.tables :
       Step(r, [r EXCEPT !.step = "details",
         !.objects = {<<t[1], o>> : o \in t[2] \cup (ObjectsOf(t[1]) \cap Views)},
         !.read = With(@, t[1], << >>)])

\* Columns and the number of rows of an object: two requests, each of which may
\* fail.  For the local hook a failure of the first ends the refresh.
Described(r, got) ==
  /\ r.step = "details" /\ r.objects # {}
  /\ LET o == CHOOSE x \in r.objects : TRUE
         there == o[2] \in ObjectsOf(o[1])
     IN IF hook = "local" /\ "columns" \notin got /\ there
        THEN GiveUp(r)
        ELSE Step(r, [r EXCEPT !.objects = @ \ {o},
               !.read[o[1]] = With(@, o[2], IF there THEN got ELSE {}),
               !.whole = @ /\ got = Known])

\* Nothing is left to describe.
DatabaseDone(r) ==
  /\ r.step = "details" /\ r.objects = {}
  /\ NextDatabase(r, r.todo)

\* A request fails.  Without the list, or the tables of the session, the refresh
\* has failed; a database whose tables or views are not told is shown empty.
RequestFails(r) ==
  /\ r.step \in {"list", "tables", "views"} /\ r.whole
  /\ IF hook = "local" \/ r.step = "list"
     THEN GiveUp(r)
     ELSE \E d \in IF r.step = "tables" THEN r.todo ELSE {t[1] : t \in r.tables} :
            Step(r, [r EXCEPT !.step = "details", !.todo = @ \ {d},
                                 !.read = With(@, d, << >>), !.whole = FALSE])

Request(r) ==
  /\ \/ ListAnswered(r) \/ ViewsAnswered(r) \/ DatabaseDone(r) \/ RequestFails(r)
     \/ \E d \in r.todo : TablesAnswered(r, d)
     \/ Described(r, Known)
     \/ r.whole /\ \E k \in Known : Described(r, Known \ {k})
  /\ UNCHANGED <<Setting, Server>>

CatalogNext ==
  \/ DetectMode \/ Connect \/ Render \/ AttemptRefresh \/ PressRefresh
  \/ RunStatement \/ StatementReturns \/ OtherClient \/ EventComes \/ EventsLost
  \/ \E r \in refreshes : Request(r)

\* fetch answers or fails.
CatalogFairness ==
  \A n \in 1 .. MaxRefreshes :
    WF_catalogVars(\E r \in refreshes : r.id = n /\ Request(r))

-----------------------------------------------------------------------------
\* What a hook shows is a true copy of the catalogue, if no request failed and the
\* catalogue has not changed since the refresh began; and a hook at rest shows the
\* catalogue, whatever it has missed before, if no event is under way or was lost
\* since its last refresh began and that refresh was also the last to end.
CatalogueFollows ==
  LET atRest == refreshes = {} /\ events = 0 /\ ~missed /\ shown.by = begun
  IN shown.by > 0 /\ shown.whole /\ (atRest \/ shown.since = changes)
       => shown.databases = Told

\* Every refresh ends, and the last of them takes the spinner away.
RefreshesEnd ==
  \A n \in 1 .. MaxRefreshes :
    (\E r \in refreshes : r.id = n) ~> (\A r \in refreshes : r.id # n) /\ (refreshes = {} => ~shown.isLoading)
==============================================================================
