---------------------------- MODULE MCImportQueue ----------------------------
(***************************************************************************)
(* What is in a database: two import jobs, with their own table names and      *)
(* paths or sharing them (`a_b`.`c` and `a`.`b_c` have two names and one path); *)
(* what is shown of a DuckDB server, of whose catalogue one table, one view     *)
(* and one attached database may change; and its page in the settings.  part    *)
(* says which of the three moves.                                              *)
(***************************************************************************)
EXTENDS ImportQueue

CONSTANTS j1, j2, n1, n2, p1, p2,
          Attached, Relations, Views, \* of the server
          MaxRetries, MaxChanges, MaxRefreshes, MaxFetches, MaxActions

\* The session's own database is never among the attached ones.
ASSUME ServerAssumption == "memory" \notin Attached

VARIABLES
  part,
  hook, phase, httpMode, timer, catalogue, changes, events, answer, listener,
  missed, refreshes, begun, shown,
  facts, fetches, page, actions, busy, count

TwoJobs == {j1, j2}
TwoNames == {n1, n2}
TwoPaths == {p1, p2}
OwnName == (j1 :> n1) @@ (j2 :> n2)
OwnPath == (j1 :> p1) @@ (j2 :> p2)
SameName == (j1 :> n1) @@ (j2 :> n1)
SamePath == (j1 :> p1) @@ (j2 :> p1)

OneDatabase == {"d"}
TableAndView == {"t", "v"}
OneView == {"v"}

Catalog == INSTANCE ServerCatalog WITH Objects <- Relations
Info == INSTANCE ServerInfo

catalogVars == <<hook, phase, httpMode, timer, catalogue, changes, events, answer,
                 listener, missed, refreshes, begun, shown>>
infoVars == <<facts, fetches, page, actions, busy, count>>

\* The import queue of a page that shows a server: nothing is imported.
NoImport ==
  /\ disk = [j \in Jobs |-> None]
  /\ tables = [n \in Names |-> None]
  /\ file = [p \in Paths |-> None]
  /\ open = FALSE
  /\ status = NoStatus /\ aborted = NotAborted
  /\ queue = <<>> /\ exec = Idle /\ enqueuing = {} /\ resuming = {}
  /\ cleaning = NoCleaning
  /\ crashes = 0 /\ cancels = 0 /\ pauses = 0 /\ faults = 0

MCInit ==
  /\ part \in {"import", "catalogue", "info"}
  /\ IF part = "import" THEN Init ELSE NoImport
  /\ Catalog!CatalogInit /\ Info!InfoInit
  /\ part = "catalogue" \/ (hook = "local" /\ catalogue[Catalog!Memory] = {})

MCNext ==
  /\ part' = part
  /\ \/ part = "import" /\ Next /\ UNCHANGED <<catalogVars, infoVars>>
     \/ part = "catalogue" /\ Catalog!CatalogNext /\ UNCHANGED <<vars, infoVars>>
     \/ part = "info" /\ Info!InfoNext /\ UNCHANGED <<vars, catalogVars>>

MCSpec ==
  /\ MCInit /\ [][MCNext]_<<part, vars, catalogVars, infoVars>>
  /\ Fairness /\ Catalog!CatalogFairness

\* What is shown of a server is what the server would say, once the refreshes and
\* fetches are over that the changes and the user have begun.
ServerShown == Catalog!CatalogueFollows /\ Info!InfoFollows

\* Every import of a page that stays open ends, and what it ended as stays; every refresh ends and takes its
\* spinner away.
WorkEnds == JobsEndOnce /\ Catalog!RefreshesEnd
=============================================================================
