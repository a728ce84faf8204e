----------------------------- MODULE MCBigQuery -----------------------------
(***************************************************************************)
(* The connection to BigQuery, the window that makes it, a query over it, the *)
(* tables imported from it and the list of connections, each by itself: part   *)
(* says which of them moves.                                                   *)
(*                                                                           *)
(* The configuration has two attempts to connect with two access tokens        *)
(* between them, a result of five rows, of which four are wanted, in pages of  *)
(* two, two imported tables with two operations at once and one fault, and two *)
(* connections in the list.                                                    *)
(***************************************************************************)
EXTENDS BigQuery, Sequences

CONSTANTS Rows, PageSize, MaxRows, Named,  \* of the query
          Tables, Clicked, Slots,            \* of the imported tables
          MaxTableCalls, MaxFaults,        \* bounds of the operations on them
          Connections, Orders, Kept, MaxConnectionCalls  \* of the list of connections

ASSUME QueryAssumption == {Rows, PageSize, MaxRows} \subseteq Nat

\* A connection has an id, and getAllConnections reads each once.
ASSUME ConnectionsAssumption ==
  /\ "none" \notin Connections
  /\ \A e \in Orders : /\ e \in Seq(Connections)
                      /\ \A i, j \in DOMAIN e : e[i] = e[j] => i = j

ASSUME TablesAssumption == Clicked \subseteq Tables

VARIABLES part, popup, windows, dialog, item, project, query, result,
          records, files, registered, hasDuckDB, activeEngine, source, listed, ops, tableCalls,
          faults, touched, removed, crashed, restored,
          list, stored, credentials, current, savedCurrent, requests, reading, adding, testing,
          removing, conCalls, raced, forgotten

O == INSTANCE OAuth WITH attempts <- popup, popups <- windows
Q == INSTANCE BigQueryQuery
Mat == INSTANCE Materialization WITH calls <- tableCalls, MaxCalls <- MaxTableCalls
Con == INSTANCE ConnectionStore WITH MaxCalls <- MaxConnectionCalls

oauthVars == <<popup, windows, dialog, item>>
queryVars == <<project, query, result>>
tableVars == <<records, files, registered, hasDuckDB, activeEngine, source, listed, ops,
               tableCalls, faults, touched, removed, crashed, restored>>
listVars == <<list, stored, credentials, current, savedCurrent, requests, reading, adding,
              testing, removing, conCalls, raced, forgotten>>

MCKeys == {"projects"}
MCKept == {"c1"}
MCOrders == {<<>>, <<"c1">>, <<"c2">>, <<"c1", "c2">>}

MCInit ==
  /\ part \in {"connection", "cache", "oauth", "query", "tables", "list"}
  /\ Init /\ O!OAuthInit /\ Q!QueryInit /\ Mat!MatInit /\ Con!ConInit
  /\ part = "query" \/ project.stored = "none"
  /\ forgotten = {} \/ (part = "list" /\ forgotten = Kept)

MCNext ==
  /\ part' = part
  /\ \/ /\ part \in {"connection", "cache"} /\ Next
        /\ IF part = "cache" THEN UNCHANGED <<reloads, revoking>> ELSE UNCHANGED google.version
        /\ UNCHANGED <<oauthVars, queryVars, tableVars, listVars>>
     \/ part = "oauth" /\ O!OAuthNext /\ UNCHANGED <<vars, queryVars, tableVars, listVars>>
     \/ part = "query" /\ Q!QueryNext /\ UNCHANGED <<vars, oauthVars, tableVars, listVars>>
     \/ part = "tables" /\ Mat!MatNext /\ UNCHANGED <<vars, oauthVars, queryVars, listVars>>
     \/ part = "list" /\ Con!ConNext /\ UNCHANGED <<vars, oauthVars, queryVars, tableVars>>

MCSpec ==
  MCInit /\ [][MCNext]_<<part, vars, oauthVars, queryVars, tableVars, listVars>> /\ O!OAuthFairness

\* Only the attempt that asked for it exchanges a code, whichever windows are open.
CodeOfAttempt == O!CodeOfAttempt

\* An attempt to connect ends, whatever the user does or leaves undone.
AttemptsEnd == O!AttemptsEnd

\* A query returns the first rows of its result, in order, and the project that
\* pays for it is the one a new connector would take.
QueryReturnsAll == Q!QueryReturnsAll /\ Q!ProjectIsStored

\* What the store of imported tables and connections says of them is so, once nothing is
\* under way, but for what two operations had at once: an available table has its file
\* and DuckDB its rows, a listed connection is stored as listed, before and after a
\* reload, and has its credentials exactly in the page that added it.
StorageIsHonest == Mat!TablesAreHonest /\ Con!ConnectionsKept
==============================================================================
