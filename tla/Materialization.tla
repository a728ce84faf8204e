--------------------------- MODULE Materialization ---------------------------
(***************************************************************************)
(* The imported tables after their import (materialization-manager.ts): their  *)
(* records in IndexedDB (persistence-metadata-store.ts), their files in the    *)
(* browser's private file system (opfs-persistence.ts), the copies registered  *)
(* with DuckDB, and the operations on them, which run beside each other and    *)
(* are interrupted between any two awaits.  An operation is where it is with    *)
(* one table, and the tables it has still to do.  A table's rows are the        *)
(* version of its source.                                                      *)
(* CREATE SCHEMA, CREATE VIEW and DROP VIEW are left out: the manager awaits    *)
(* the generator that DuckDBConnector.query returns and never iterates it, so  *)
(* none of them is sent.                                                       *)
(***************************************************************************)
EXTENDS Integers

CONSTANTS Tables,      \* of one connection
          Clicked,       \* bound: the tables the user refreshes or deletes
          Slots,       \* bound: operations at once
          MaxCalls,    \* bound: operations begun
          MaxFaults    \* bound: steps that fail

VARIABLES records,     \* what IndexedDB holds of each table
          files,       \* what is in the table's file
          registered,  \* the copy DuckDB was given, by table
          hasDuckDB,   \* this.duckdb is set
          activeEngine, \* the active connector of the query service
          source,      \* the version of the sources
          listed,      \* the statuses the storage panel shows
          ops,         \* the operations under way
          calls, faults,
          touched,     \* history: tables two operations had at once, or on which a step failed
          removed,     \* history: the connection of the tables was removed
          crashed,     \* history: the page was closed
          restored     \* history: the session was restored to the end

Gone == "gone"
Nothing == [status |-> Gone, rows |-> 0]
NoFile == -1
Empty == 0             \* a file that was created and not yet written

session == <<registered, hasDuckDB>>
asked == <<activeEngine, source>>
matVars == <<records, files, session, asked, listed, ops, calls, faults, touched, removed, crashed,
             restored>>

\* An operation: its next step `at` on `table`, the status or stamp it is about to save or
\* has read in the list (`to`), the tables after this one, the record it has read, the
\* rows it was given, and whether it is in its catch.
Idle == [kind |-> "none", table |-> Gone, at |-> "none", to |-> Gone, todo |-> {}, saw |-> Nothing,
         data |-> 0, caught |-> FALSE]
Busy(o) == ops[o].kind # "none"
TablesOf(op) == IF op.kind = "none" THEN {} ELSE {op.table} \cup {x.table : x \in op.todo}
StatusOf(t) == records[t].status
HasTable(t) == StatusOf(t) # Gone
Statuses == [t \in Tables |-> StatusOf(t)]
Task(t) == [table |-> t, status |-> StatusOf(t)]

\* What import-queue.ts leaves of an import that has completed.
Imported(v) == [status |-> "available", rows |-> v]

MatInit ==
  /\ records = [t \in Tables |-> Imported(1)]
  /\ files = [t \in Tables |-> 1]
  /\ registered = [t \in Tables |-> NoFile]
  /\ hasDuckDB = FALSE
  /\ activeEngine = "duckdb"
  /\ source = 1
  /\ listed = Statuses
  /\ ops = [o \in Slots |-> Idle]
  /\ calls = 0 /\ faults = 0
  /\ touched = {}
  /\ removed = FALSE /\ crashed = FALSE /\ restored = FALSE

-----------------------------------------------------------------------------
(* How an operation goes on. *)

\* The first step with a table: of refreshTable and deleteTable, of one turn of the loop of
\* restoreSession, or of that of deleteTablesByConnection.
FirstOf(kind) ==
  CASE kind = "restore" -> "exists" [] kind = "remove" -> "delete" [] OTHER -> "find"

Turn(kind, x, rest) ==
  [Idle EXCEPT !.kind = kind, !.table = x.table, !.at = FirstOf(kind), !.to = x.status, !.todo = rest]

GoesOn(o, op) == ops' = [ops EXCEPT ![o] = op] /\ UNCHANGED <<listed, restored>>

\* A refresh or deletion that went well loads the panel's list anew.
Ends(o, well) ==
  /\ ops' = [ops EXCEPT ![o] = Idle]
  /\ listed' = IF well /\ ops[o].kind \in {"refresh", "delete"}
               THEN [t \in Tables |-> records'[t].status] ELSE listed
  /\ restored' = (restored \/ (well /\ ops[o].kind = "restore"))

\* The table is done: the loop takes another, or the operation is over.
TableDone(o) ==
  \/ \E x \in ops[o].todo : GoesOn(o, Turn(ops[o].kind, x, ops[o].todo \ {x}))
  \/ ops[o].todo = {} /\ Ends(o, ops[o].kind = "restore" \/ ~ops[o].caught)

\* A step has thrown: the catch of refreshTable, or of one table in restoreSession, saves
\* a status; what throws elsewhere ends the operation.
Throws(o) ==
  IF ops[o].kind \in {"refresh", "restore"} /\ ops[o].at # "find" /\ ~ops[o].caught
  THEN GoesOn(o, [ops[o] EXCEPT !.at = "get", !.caught = TRUE,
                    !.to = IF ops[o].kind = "refresh" THEN "available" ELSE "unavailable"])
  ELSE Ends(o, FALSE)

Next(o, step) == GoesOn(o, [ops[o] EXCEPT !.at = step])
Mark(o, status) == GoesOn(o, [ops[o] EXCEPT !.at = "get", !.to = status])
Reads(o, t, step) == GoesOn(o, [ops[o] EXCEPT !.at = step, !.saw = records[t]])
Registered(o) == IF ops[o].kind = "refresh" THEN Mark(o, "available") ELSE TableDone(o)

NoFault == UNCHANGED <<faults, touched, removed, crashed>>
Fault(t) ==
  /\ faults < MaxFaults /\ faults' = faults + 1 /\ touched' = touched \cup {t}
  /\ UNCHANGED <<removed, crashed>>

\* A query or write fails: that must do no harm to a table that has its rows.
Failure(t) ==
  /\ faults < MaxFaults /\ faults' = faults + 1
  /\ touched' = IF files[t] > Empty THEN touched ELSE touched \cup {t}
  /\ UNCHANGED <<removed, crashed>>

-----------------------------------------------------------------------------
(* The steps.  updateTableStatus, recordRefresh and the stamp of the last       *)
(* access read the record, and write it in a later step.                       *)

\* getTable at the start: an unknown table ends the operation.
Find(o, t) ==
  /\ ops[o].at = "find"
  /\ \/ ~HasTable(t) /\ Throws(o)
     \/ HasTable(t) /\ ops[o].kind = "refresh" /\ Mark(o, "importing")
     \/ HasTable(t) /\ ops[o].kind = "delete" /\ Next(o, "exists")
  /\ NoFault /\ UNCHANGED <<records, files, session, asked, calls>>

\* getTable within updateTableStatus and recordRefresh, which throw without a record.
GetTable(o, t) ==
  /\ ops[o].at = "get"
  /\ \/ ~HasTable(t) /\ Throws(o)
     \/ HasTable(t) /\ Reads(o, t, "save")
  /\ NoFault /\ UNCHANGED <<records, files, session, asked, calls>>

Written(op) ==
  IF op.to = "refreshed" THEN [op.saw EXCEPT !.rows = op.data] ELSE [op.saw EXCEPT !.status = op.to]

\* saveTable of the record that was read.
SaveTable(o, t) ==
  /\ ops[o].at = "save"
  /\ records' = [records EXCEPT ![t] = Written(ops[o])]
  /\ CASE ops[o].to = "importing" -> Next(o, "query")
       [] ops[o].to = "refreshed" -> Next(o, "register")
       [] OTHER -> TableDone(o)
  /\ NoFault /\ UNCHANGED <<files, session, asked, calls>>

\* The source, which has changed since, is asked on BigQuery, and may not answer.  The
\* estimate of the cost, whose errors are ignored, is left out.
ExecuteQuery(o, t) ==
  /\ ops[o].at = "query"
  /\ activeEngine' = "bigquery"
  /\ source' = source + 1
  /\ \/ GoesOn(o, [ops[o] EXCEPT !.at = "open", !.data = source']) /\ NoFault
     \/ Throws(o) /\ Failure(t)
  /\ UNCHANGED <<records, files, session, calls>>

\* writeFile: getFileHandle creates a missing file; the rows go to a swap file ...
OpenFile(o, t) ==
  /\ ops[o].at = "open"
  /\ files' = [files EXCEPT ![t] = IF @ = NoFile THEN Empty ELSE @]
  /\ Next(o, "close")
  /\ NoFault /\ UNCHANGED <<records, session, asked, calls>>

\* A bug that must be noticed: the rows are written in place, so that a failure on the
\* way leaves a part of them.
CloseFile_InPlace(o, t) ==
  /\ ops[o].at = "close"
  /\ \/ files' = [files EXCEPT ![t] = ops[o].data] /\ Mark(o, "refreshed") /\ NoFault
     \/ files' = [files EXCEPT ![t] = Empty] /\ Throws(o) /\ Failure(t)
  /\ UNCHANGED <<records, session, asked, calls>>

\* ... that replaces the file when it is closed, or is dropped.
CloseFile(o, t) ==
  /\ ops[o].at = "close"
  /\ \/ files' = [files EXCEPT ![t] = ops[o].data] /\ Mark(o, "refreshed") /\ NoFault
     \/ UNCHANGED files /\ Throws(o) /\ Failure(t)
  /\ UNCHANGED <<records, session, asked, calls>>

\* registerTableWithDuckDB reads the file and gives a copy to DuckDB.
Register(o, t) ==
  /\ ops[o].at = "register"
  /\ \/ /\ hasDuckDB /\ files[t] # NoFile
        /\ registered' = [registered EXCEPT ![t] = files[t]]
        /\ Next(o, "look") /\ NoFault
     \/ (~hasDuckDB \/ files[t] = NoFile) /\ Throws(o) /\ NoFault /\ UNCHANGED registered
     \/ Throws(o) /\ Fault(t) /\ UNCHANGED registered
  /\ UNCHANGED <<records, files, hasDuckDB, asked, calls>>

\* getTable before the stamp of the last access, which is left out without a record.
Look(o, t) ==
  /\ ops[o].at = "look"
  /\ \/ HasTable(t) /\ Reads(o, t, "stamp")
     \/ ~HasTable(t) /\ Registered(o)
  /\ NoFault /\ UNCHANGED <<records, files, session, asked, calls>>

Stamp(o, t) ==
  /\ ops[o].at = "stamp"
  /\ records' = [records EXCEPT ![t] = ops[o].saw]
  /\ Registered(o)
  /\ NoFault /\ UNCHANGED <<files, session, asked, calls>>

\* fileExists of deleteTable, without a file there is nothing to delete; and of
\* restoreSession: a table without a file becomes unavailable, and one that was listed as
\* available is registered.
FileExists(o, t) ==
  /\ ops[o].at = "exists"
  /\ \/ ops[o].kind = "delete" /\ Next(o, IF files[t] = NoFile THEN "delete" ELSE "deleteFile")
     \/ ops[o].kind = "restore" /\ files[t] = NoFile /\ Mark(o, "unavailable")
     \/ ops[o].kind = "restore" /\ files[t] # NoFile /\ ops[o].to = "available" /\ Next(o, "register")
     \/ ops[o].kind = "restore" /\ files[t] # NoFile /\ ops[o].to # "available" /\ TableDone(o)
  /\ NoFault /\ UNCHANGED <<records, files, session, asked, calls>>

\* An error of deleteFile is only logged; the browser refuses to remove a file that is
\* being written.
Opened(t) == \E p \in Slots : ops[p].at = "close" /\ ops[p].table = t

DeleteFile(o, t) ==
  /\ ops[o].at = "deleteFile"
  /\ \/ ~Opened(t) /\ files' = [files EXCEPT ![t] = NoFile] /\ NoFault
     \/ Opened(t) /\ UNCHANGED files /\ NoFault
     \/ UNCHANGED files /\ Fault(t)
  /\ Next(o, "delete")
  /\ UNCHANGED <<records, session, asked, calls>>

DeleteRecord(o, t) ==
  /\ ops[o].at = "delete"
  /\ records' = [records EXCEPT ![t] = Nothing]
  /\ TableDone(o)
  /\ NoFault /\ UNCHANGED <<files, session, asked, calls>>

-----------------------------------------------------------------------------
(* The calls: of the storage panel and the tables' list, whose buttons do not  *)
(* know of each other, of a removed connection, and of the start.              *)

Begin(o, kind, todo) ==
  /\ ~Busy(o) /\ o = CHOOSE p \in Slots : ~Busy(p)
  /\ \E x \in todo : ops' = [ops EXCEPT ![o] = Turn(kind, x, todo \ {x})]
  /\ touched' = touched \cup {x.table : x \in {y \in todo : \E p \in Slots : y.table \in TablesOf(ops[p])}}
  /\ UNCHANGED <<records, files, registered, asked, faults, crashed>>

Called == calls < MaxCalls /\ calls' = calls + 1

HandleRefresh(o) ==
  \E t \in Clicked :
    /\ listed[t] = "available" /\ Called /\ Begin(o, "refresh", {Task(t)})
    /\ UNCHANGED <<hasDuckDB, listed, removed, restored>>

HandleDelete(o) ==
  \E t \in Clicked :
    /\ listed[t] # Gone /\ Called /\ Begin(o, "delete", {Task(t)})
    /\ UNCHANGED <<hasDuckDB, listed, removed, restored>>

\* deleteTablesByConnection: the records that are listed now.
RemoveConnection(o) ==
  /\ Called /\ Begin(o, "remove", {Task(t) : t \in {u \in Tables : HasTable(u)}})
  /\ removed' = TRUE
  /\ UNCHANGED <<hasDuckDB, listed, restored>>

\* initialize, once a session: the tables are listed and restored one by one.
Initialize(o) ==
  LET todo == {Task(t) : t \in {u \in Tables : StatusOf(u) \in {"available", "importing"}}}
  IN /\ ~hasDuckDB /\ hasDuckDB' = TRUE
     /\ \/ Begin(o, "restore", todo) /\ UNCHANGED restored
        \/ todo = {} /\ restored' = TRUE
             /\ UNCHANGED <<records, files, registered, asked, ops, faults, touched, crashed>>
     /\ UNCHANGED <<calls, listed, removed>>

\* loadData, when the panel is opened.
LoadData ==
  /\ listed # Statuses /\ listed' = Statuses
  /\ UNCHANGED <<records, files, session, asked, ops, calls, faults,
                 touched, removed, crashed, restored>>

\* The page is closed and opened again.
Crash ==
  /\ faults < MaxFaults /\ faults' = faults + 1
  /\ crashed' = TRUE /\ restored' = FALSE
  /\ registered' = [t \in Tables |-> NoFile] /\ hasDuckDB' = FALSE /\ activeEngine' = "duckdb"
  /\ ops' = [o \in Slots |-> Idle]
  /\ listed' = [t \in Tables |-> Gone]
  /\ UNCHANGED <<records, files, source, calls, touched, removed>>

Step(o, t) ==
  \/ Find(o, t) \/ GetTable(o, t) \/ SaveTable(o, t) \/ ExecuteQuery(o, t) \/ OpenFile(o, t)
  \/ CloseFile(o, t) \/ Register(o, t) \/ Look(o, t) \/ Stamp(o, t)
  \/ FileExists(o, t) \/ DeleteFile(o, t) \/ DeleteRecord(o, t)

MatNext ==
  \/ \E o \in Slots :
       \/ Busy(o) /\ Step(o, ops[o].table)
       \/ HandleRefresh(o) \/ HandleDelete(o) \/ RemoveConnection(o) \/ Initialize(o)
  \/ LoadData \/ Crash

-----------------------------------------------------------------------------

Calm(t) == t \notin touched /\ \A o \in Slots : t \notin TablesOf(ops[o])

\* What the records say of a table that nothing is being done with, that no two
\* operations had at once and of which no step failed but the query or the write of a
\* table that had its rows: an available one has its file, with the rows that were
\* recorded, and once the session is restored DuckDB has the same; one that is being
\* imported or whose file has lost its record was left so by a closed page or a removed
\* connection.
TablesAreHonest ==
  \A t \in Tables : Calm(t) =>
    /\ StatusOf(t) = "available" /\ restored =>
         files[t] = records[t].rows /\ registered[t] = files[t]
    /\ StatusOf(t) = "available" /\ ~crashed => files[t] = records[t].rows
    /\ StatusOf(t) = "importing" => crashed
    /\ StatusOf(t) = Gone /\ files[t] # NoFile => removed
=============================================================================
