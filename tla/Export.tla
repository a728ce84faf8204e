-------------------------------- MODULE Export --------------------------------
(***************************************************************************)
(* Export of the result: handleExport of useTableExport.ts, the functions of   *)
(* file-service.ts and exportToParquet of duckdb-connector.ts.               *)
(*                                                                           *)
(* A streamed statement (kind "sql") is copied by DuckDB into a file of its    *)
(* own file system, which is then read; a result that is there ("rows") is     *)
(* written as text, or inserted into a temporary table and copied from it.    *)
(* Each step awaits one answer, during which the user may press Escape or      *)
(* choose another engine.                                                    *)
(***************************************************************************)
EXTENDS Integers

CONSTANT Batches     \* the batches of 1000 rows of a result

VARIABLES
  ex,         \* the export: [step, kind, format, handle, batch, was, end]
  aborted,    \* the signal of its AbortController
  overlay,    \* the App shows the progress
  complete,   \* exportComplete, the message of how it ended
  engine,     \* the active connector of the query service
  chosen,     \* history: the engine when the export began, or chosen since
  meddled,    \* history: another engine was chosen while the export ran
  temp,       \* the temporary table
  file        \* the file in DuckDB's file system

exportVars == <<ex, aborted, overlay, complete, engine, chosen, meddled, temp, file>>

Engines == {"duckdb", "bigquery"}
Formats == {"csv", "json", "parquet"}
Idle == [step |-> "idle", kind |-> "sql", format |-> "csv", handle |-> FALSE,
         batch |-> 0, was |-> "duckdb", end |-> "none"]

ExportInit ==
  /\ ex = Idle /\ aborted = FALSE /\ overlay = FALSE /\ complete = "none"
  /\ engine \in Engines /\ chosen = engine /\ meddled = FALSE
  /\ temp = FALSE /\ file = FALSE

At(kind, step) == ex.kind = kind /\ ex.step = step
GoTo(step) == ex' = [ex EXCEPT !.step = step] /\ UNCHANGED <<aborted, overlay, complete>>

\* The end of handleExport, whatever way it came to it.
Finish(status) ==
  /\ ex' = Idle /\ aborted' = FALSE
  /\ complete' = status
  /\ overlay' = FALSE

\* The checks of the signal.
GoOn(step) == IF aborted THEN Finish("cancelled") ELSE GoTo(step)

\* The finally of the Parquet export.
Restore == engine' = IF ex.was # "duckdb" THEN ex.was ELSE engine

\* A bug that must be noticed: the engine is set back only after a success.
LeaveParquet_OnSuccess(status) ==
  /\ Finish(status)
  /\ IF status = "success" THEN Restore ELSE engine' = engine

LeaveParquet(status) == Finish(status) /\ Restore

\* The button of a format.
HandleExport(kind, format) ==
  /\ ex.step = "idle"
  /\ ex' = [Idle EXCEPT !.kind = kind, !.format = format, !.was = engine,
                        !.step = IF kind = "sql" \/ format = "parquet" THEN "pick" ELSE "write"]
  /\ overlay' = TRUE /\ aborted' = FALSE
  /\ chosen' = engine /\ meddled' = FALSE
  /\ UNCHANGED <<complete, engine, temp, file>>

\* A file has been chosen, or not: then a copied file is downloaded, and Parquet
\* of a result fails.  Parquet switches to DuckDB if it was not active when the
\* export began; what is active now must be able to do it.
ShowExportFilePicker(handle) ==
  /\ ex.step = "pick"
  /\ IF ex.kind = "sql"
     THEN /\ ex' = [ex EXCEPT !.handle = handle, !.step = "copy"]
          /\ UNCHANGED <<aborted, overlay, complete, engine>>
     ELSE LET now == IF ex.was # "duckdb" THEN "duckdb" ELSE engine
          IN CASE ~handle -> Finish("error") /\ engine' = engine
               [] handle /\ aborted -> Finish("cancelled") /\ engine' = engine
               [] handle /\ ~aborted /\ now = "duckdb" -> GoTo("create") /\ engine' = now
               [] OTHER -> Finish("error") /\ engine' = engine
  /\ UNCHANGED <<chosen, meddled, temp, file>>

\* COPY on the active connector: a statement of DuckDB that BigQuery refuses.
Copied ==
  /\ At("sql", "copy") /\ engine = "duckdb"
  /\ GoOn("fetch")
  /\ file' = TRUE
  /\ UNCHANGED <<engine, chosen, meddled, temp>>

\* copyFileToBuffer; without a handle the file is downloaded at once.
Fetched ==
  /\ ex.step = "fetch"
  /\ IF ex.kind = "rows" THEN GoTo("save")
     ELSE IF aborted \/ ex.handle THEN GoOn("save") ELSE Finish("success")
  /\ UNCHANGED <<engine, chosen, meddled, temp, file>>

Saved ==
  /\ ex.step = "save"
  /\ IF ex.kind = "rows" THEN LeaveParquet("success") ELSE Finish("success") /\ engine' = engine
  /\ UNCHANGED <<chosen, meddled, temp, file>>

\* exportToCSV and exportToJSON tell by null that the user has closed the picker
\* or that the file could not be written, and nobody looks at it.
Written ==
  /\ At("rows", "write")
  /\ Finish("success")
  /\ UNCHANGED <<engine, chosen, meddled, temp, file>>

\* The catch.  dropFile, in a finally, always fails: the connector has no such
\* method.
ExportFails ==
  /\ ex.step \in {"copy", "fetch", "save"}
  /\ IF ex.kind = "rows" THEN LeaveParquet("error") ELSE Finish("error") /\ engine' = engine
  /\ UNCHANGED <<chosen, meddled, temp, file>>

-----------------------------------------------------------------------------
(* exportToParquet. *)

Inserting(step, batch, t, f) ==
  /\ ex' = [ex EXCEPT !.step = step, !.batch = batch]
  /\ temp' = t /\ file' = f
  /\ UNCHANGED <<aborted, overlay, complete, engine, chosen, meddled>>

CreateTemporaryTable ==
  ex.step = "create" /\ Inserting(IF Batches = 0 THEN "parquet" ELSE "insert", 0, TRUE, file)

InsertBatch ==
  /\ ex.step = "insert"
  /\ Inserting(IF ex.batch + 1 = Batches THEN "parquet" ELSE "insert", ex.batch + 1, temp, file)

CopyToParquet == ex.step = "parquet" /\ Inserting("drop", ex.batch, temp, TRUE)

\* One of these fails: the table is dropped all the same.
ParquetFails ==
  /\ ex.step \in {"create", "insert", "parquet"}
  /\ ex' = [ex EXCEPT !.step = "drop", !.end = "error"]
  /\ UNCHANGED <<aborted, overlay, complete, engine, chosen, meddled, temp, file>>

\* The finally, whose own failure is not noticed, and what follows it.
DropTable(dropped) ==
  /\ ex.step = "drop"
  /\ temp' = (temp /\ ~dropped)
  /\ CASE ex.end = "error" -> LeaveParquet("error")
       [] ex.end # "error" /\ aborted -> LeaveParquet("cancelled")
       [] OTHER -> GoTo("fetch") /\ engine' = engine
  /\ UNCHANGED <<chosen, meddled, file>>

-----------------------------------------------------------------------------
(* The user. *)

PressEscape ==
  /\ ex.step # "idle" /\ aborted' = TRUE
  /\ UNCHANGED <<ex, overlay, complete, engine, chosen, meddled, temp, file>>

\* Another engine, as when a tab with another engine is shown.
SetActiveConnector ==
  /\ chosen' \in Engines /\ engine' = chosen' /\ chosen' # engine
  /\ meddled' = (meddled \/ ex.step # "idle")
  /\ UNCHANGED <<ex, aborted, overlay, complete, temp, file>>

\* The next key or movement of the mouse takes the message away.
Dismiss ==
  /\ complete # "none" /\ complete' = "none"
  /\ UNCHANGED <<ex, aborted, overlay, engine, chosen, meddled, temp, file>>

Answer ==
  \/ \E handle \in BOOLEAN : ShowExportFilePicker(handle)
  \/ Copied \/ Fetched \/ Saved \/ Written \/ ExportFails
  \/ CreateTemporaryTable \/ InsertBatch \/ CopyToParquet \/ ParquetFails
  \/ \E dropped \in BOOLEAN : DropTable(dropped)

ExportNext ==
  \/ \E kind \in {"sql", "rows"}, format \in Formats : HandleExport(kind, format)
  \/ Answer \/ PressEscape \/ SetActiveConnector \/ Dismiss

-----------------------------------------------------------------------------
(* Property. *)

\* However an export ends (done, refused, failed in any of its steps or stopped
\* by Escape), the progress is taken away with it, and the queries go to the
\* engine they went to before, unless the user chose another one meanwhile.
ExportLeavesNoTrace ==
  ex.step = "idle" => ~overlay /\ (meddled \/ engine = chosen)
==============================================================================
