---------------------------- MODULE BigQueryQuery ----------------------------
(***************************************************************************)
(* One call of query of BigQueryConnector and the project that pays for it.   *)
(* Google runs a job, which may take longer than a request waits, and gives    *)
(* its rows in answers of at most PageSize rows, or fewer if they are large,   *)
(* with a page token as long as there are more.  The chunks that query yields  *)
(* are put together by executeQuery of the service, which asks for no more     *)
(* rows than the default, and does not say that there were more.               *)
(*                                                                           *)
(* Every request may fail, and then the query does.                          *)
(***************************************************************************)
EXTENDS Integers, Sequences, FiniteSetsExt

CONSTANTS
  Rows,       \* rows of the result
  PageSize,   \* 10000
  MaxRows,    \* maxRows, if not given 10000
  Named       \* the statement names a project after FROM

VARIABLES
  project,    \* [memory, stored]: the default project, "none" without one
  query,      \* [step, token: rows before the next page, got: row numbers as they came]
  result      \* what the last query returned: [rows, whole: the job had ended]

queryVars == <<project, query, result>>

None == "none"
Idle == [step |-> None, token |-> 0, got |-> << >>]
NoResult == [rows |-> << >>, whole |-> FALSE]

QueryInit ==
  /\ project \in [memory : {None}, stored : {None, "chosen"}]
  /\ query = Idle
  /\ result = NoResult

\* loadDefaultProject, in the constructor and whenever there is none.
Loaded == IF project.memory # None THEN project.memory ELSE project.stored

\* The default project pays, else the one named after FROM, which is saved as the
\* default, never that of the OAuth application; without one the query fails.
Start ==
  /\ query.step = None
  /\ LET p == IF Loaded # None THEN Loaded ELSE IF Named THEN "named" ELSE None
     IN IF p = None
        THEN UNCHANGED <<project, query>>
        ELSE /\ project' = [memory |-> p, stored |-> IF Loaded = None THEN p ELSE project.stored]
             /\ query' = [Idle EXCEPT !.step = "query"]
  /\ result' = NoResult

\* setDefaultProject, from the settings or with the first project listed.
SetDefaultProject(p) ==
  /\ project' = [memory |-> p, stored |-> p]
  /\ UNCHANGED <<query, result>>

\* A bug that must be noticed: every page is asked for whole.
Asked_WholePage == PageSize

\* maxResults of a request.
Asked == Min({MaxRows - Len(query.got), PageSize})

Return(rows, whole) == query' = Idle /\ result' = [rows |-> rows, whole |-> whole]

\* A bug that must be noticed: the token of the first page is sent with every page.
RowsCome_FirstToken(n) ==
  LET got == query.got \o [k \in 1 .. n |-> query.token + k]
      token == IF query.step = "page" THEN query.token ELSE n
  IN IF token < Rows /\ Len(got) < MaxRows
     THEN query' = [step |-> "page", token |-> token, got |-> got] /\ result' = result
     ELSE Return(got, TRUE)

\* n rows come.  With a page token, and less than maxRows so far, the next page is
\* asked for.
RowsCome(n) ==
  LET got == query.got \o [k \in 1 .. n |-> query.token + k]
      token == query.token + n
  IN IF token < Rows /\ Len(got) < MaxRows
     THEN query' = [step |-> "page", token |-> token, got |-> got] /\ result' = result
     ELSE Return(got, TRUE)

\* Google gives at least one row if there is one.  An answer to the first request
\* without rows counts as one that has to be asked for again.
Answer ==
  /\ query.step # None
  /\ \E n \in 0 .. Min({Asked, Rows - query.token}) :
       /\ n = 0 => query.token = Rows
       /\ IF query.step = "query" /\ n = 0
          THEN query' = [query EXCEPT !.step = "results"] /\ result' = result
          ELSE RowsCome(n)
  /\ UNCHANGED project

\* The job takes longer than the request waits.  It is asked for once more, and if
\* it has not ended then, the result is empty and no error.
JobRuns ==
  /\ query.step \in {"query", "results"}
  /\ IF query.step = "query"
     THEN query' = [query EXCEPT !.step = "results"] /\ result' = result
     ELSE Return(<< >>, FALSE)
  /\ UNCHANGED project

QueryFails ==
  /\ query.step # None
  /\ query' = Idle
  /\ UNCHANGED <<project, result>>

\* A new connector, after a reload or a new connection, reads the default again:
\* disconnecting has not removed it.
NewConnector ==
  /\ project' = [project EXCEPT !.memory = None]
  /\ query' = Idle
  /\ UNCHANGED result

QueryNext ==
  \/ Start \/ Answer \/ JobRuns \/ QueryFails \/ NewConnector
  \/ \E p \in {"chosen", "listed"} : SetDefaultProject(p)

-----------------------------------------------------------------------------
\* A query whose job ends in time returns the first rows of its result, each once
\* and in order, up to maxRows, however the answers divide them.
QueryReturnsAll ==
  result.whole => result.rows = [k \in 1 .. Min({Rows, MaxRows}) |-> k]

\* The project that pays is the one a new connector would take.
ProjectIsStored ==
  project.memory # None => project.stored = project.memory
==============================================================================
