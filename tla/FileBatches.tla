------------------------------ MODULE FileBatches ------------------------------
(***************************************************************************)
(* Several files at once: uploads with the button and by dropping files      *)
(* (useFileUpload.ts, file-service.ts), and the reload of the files whose    *)
(* handles are stored, when the page opens (useFileReload.ts,                *)
(* file-handle-store.ts).  The uploads share one progress display and the    *)
(* engine the user has chosen.  What happens within the upload of one file   *)
(* is in DataSources; here it is registered, and listed, in one step each.   *)
(***************************************************************************)
EXTENDS Naturals, Sequences, FiniteSets, SequencesExt

CONSTANTS
  Uploads,
  Selections, \* upload -> the lists of files the user may pick or drop
  Handles,    \* the sets of handles that earlier sessions may have stored
  MaxChoices, \* bound: changes of the engine or of the connection to BigQuery
  MaxFailures \* bound: files that fail

VARIABLES
  http,      \* does the page use a local server?
  uploads,   \* upload -> its files, and how far it is
  engine,    \* activeConnector
  cloud,     \* isBigQueryConnected
  uploading, \* isUploadingFiles: queries are refused
  progress,  \* uploadProgress: file `at` of `of`
  listed,    \* the data sources: name -> "fine", "prompt" (for access) or "failed"
  handles,   \* the names of the handles stored in IndexedDB
  reload,    \* the reload of the handles
  told,      \* history: the names the user was told something is wrong with
  preferred, \* history: the engine the user has chosen last
  crossed,   \* history: the engine or the connection changed during an upload, or the engine
             \* was not connected when it began
  together,  \* history: two uploads were under way since the last time there was none
  choices, failures

batchVars == <<http, uploads, engine, cloud, uploading, progress, listed, handles, reload, told,
               preferred, crossed, together, choices, failures>>

\* A file has a name, its extension in lower case, and in Electron a path.
Picked == [name : STRING, ext : STRING, path : BOOLEAN]
Names(files) == {files[i].name : i \in DOMAIN files}

-----------------------------------------------------------------------------
(* Kinds of files. *)

\* detectDataSourceType
TypeOf(ext) ==
  CASE ext \in {"db", "duckdb"} -> "duckdb"
    [] ext = "csv" -> "csv"
    [] ext \in {"tsv", "tab"} -> "tsv"
    [] ext = "json" -> "json"
    [] ext \in {"jsonl", "ndjson"} -> "jsonl"
    [] ext \in {"xlsx", "xls", "ods"} -> "xlsx"
    [] ext \in {"arrow", "ipc"} -> "arrow"
    [] OTHER -> "parquet"

\* isDuckDBFile and isSQLFile, which the reload asks.
IsDuckDBFile(ext) == ext \in {"duckdb", "db"}
IsSQLFile(ext) == ext \in {"sql", "txt"}

\* What the picker of openDataFiles accepts.
Accepted == {"csv", "tsv", "tab", "json", "jsonl", "ndjson", "parquet", "db", "duckdb", "arrow",
             "ipc", "xlsx", "xls", "ods"}

\* What the picker accepts is read as what it is, by the upload and by the reload alike.
KindsAgree ==
  \A ext \in Accepted :
    /\ TypeOf(ext) = "parquet" <=> ext = "parquet"
    /\ TypeOf(ext) = "duckdb" <=> IsDuckDBFile(ext)
    /\ ~IsSQLFile(ext)

\* categorizeError: a message is the set of the words looked for that occur in it.
CategorizeError(words) ==
  IF words \cap {"permission", "read"} # {} THEN "permission"
  ELSE IF words \cap {"could not be found", "NotFoundError", "file or directory", "no such file"} # {}
  THEN "not_found" ELSE "other"

-----------------------------------------------------------------------------
(* Uploads. *)

None == [phase |-> "none", files |-> <<>>, at |-> 0, got |-> <<>>, before |-> "duckdb",
         cloud |-> FALSE, drop |-> FALSE]

\* "lost": one of the files picked could not be read.
UnderWay(b) == uploads[b].phase \notin {"none", "done", "lost"}
Calm == \A b \in Uploads : ~UnderWay(b)

Show(on, at, of) == uploading' = on /\ progress' = [at |-> at, of |-> of]
Fault == failures < MaxFailures /\ failures' = failures + 1

user == <<http, cloud, preferred, crossed, choices>>

\* Bound: there are two uploads only when there was nothing to reload.
MayOverlap == reload.phase = "over" /\ reload.read = {}

\* The engine and the connection are those of the render in which the handler was made.
Begun(b, phase) ==
  /\ uploads[b].phase = "none"
  /\ MayOverlap \/ \A c \in Uploads : uploads[c].phase = "none"
  /\ \E files \in Selections[b] :
       uploads' = [uploads EXCEPT ![b] =
         [phase |-> phase, files |-> files, at |-> 1, got |-> <<>>, before |-> engine,
          cloud |-> cloud, drop |-> phase = "reading"]]
  /\ together' = ~Calm
  /\ crossed' = (crossed \/ (engine = "bigquery" /\ ~cloud))
  /\ UNCHANGED <<http, cloud, preferred, choices, engine, listed, handles, reload, told, failures>>

\* handleUploadDataFile: the button is not there in HTTP mode, and nothing shows that the
\* files are being read.
PickFiles(b) == ~http /\ Begun(b, "picking") /\ UNCHANGED <<uploading, progress>>

\* handleDragDropUpload
DropFiles(b) == Begun(b, "reading") /\ Show(TRUE, 1, Len(uploads'[b].files))

\* The upload ends and clears the display, whether or not another one goes on.
Ended(b) == uploads' = [uploads EXCEPT ![b].phase = "done"] /\ Show(FALSE, 0, 0)

\* What a filter keeps of the list s: the elements at K, in their order.
Filtered(s, K) ==
  LET rank == [k \in K |-> Cardinality({j \in K : j < k}) + 1]
  IN [m \in 1 .. Cardinality(K) |-> s[CHOOSE k \in DOMAIN rank : rank[k] = m]]

\* processFiles begins with the files that were read; those without a path are refused
\* with a warning in HTTP mode.
Process(b, got, unread) ==
  LET work == IF http THEN Filtered(got, {i \in DOMAIN got : got[i].path}) ELSE got
  IN /\ told' = told \cup unread \cup (Names(got) \ Names(work))
     /\ IF work = <<>> THEN Ended(b) /\ UNCHANGED engine
        ELSE /\ uploads' = [uploads EXCEPT ![b].phase = "registering", ![b].at = 1, ![b].got = work]
             /\ Show(uploading \/ ~uploads[b].drop, 1, Len(work))
             /\ engine' = IF uploads[b].before = "duckdb" THEN engine ELSE "duckdb"

\* Upload b has read a file, or could not.
Read(b, got, unread) ==
  LET u == uploads[b]
  IN IF u.at = Len(u.files) THEN Process(b, got, unread)
     ELSE /\ uploads' = [uploads EXCEPT ![b].at = @ + 1, ![b].got = got]
          /\ IF u.drop THEN Show(uploading, u.at + 1, Len(u.files)) ELSE UNCHANGED <<uploading, progress>>
          /\ told' = told \cup unread
          /\ UNCHANGED engine

ReadFile(b) ==
  LET u == uploads[b]
  IN /\ u.phase \in {"picking", "reading"}
     /\ Read(b, Append(u.got, u.files[u.at]), {})
     /\ UNCHANGED <<user, listed, handles, reload, failures, together>>

\* A dropped file that cannot be read is left out, with a message.
DropUnread(b) ==
  LET u == uploads[b]
  IN /\ u.phase = "reading" /\ Fault
     /\ Read(b, u.got, {u.files[u.at].name})
     /\ UNCHANGED <<user, listed, handles, reload, together>>

\* If one of the files picked cannot be read openDataFiles returns none of them: nothing is
\* uploaded, and nothing is said.
PickUnread(b) ==
  /\ uploads[b].phase = "picking" /\ Fault
  /\ uploads' = [uploads EXCEPT ![b].phase = "lost"]
  /\ UNCHANGED <<user, engine, uploading, progress, listed, handles, reload, told, together>>

\* A bug that must be noticed: the engine is put back after uploads with the button only.
EngineAfter_Picked(u) == IF u.before = "bigquery" /\ u.cloud /\ ~u.drop THEN "bigquery" ELSE engine

\* The engine after upload u: BigQuery is chosen again if it was before, and connected.
EngineAfter(u) == IF u.before = "bigquery" /\ u.cloud THEN "bigquery" ELSE engine

\* The next file of b, or the end.
NextFile(b) ==
  LET u == uploads[b]
  IN IF u.at = Len(u.got) THEN Ended(b) /\ engine' = EngineAfter(u)
     ELSE /\ uploads' = [uploads EXCEPT ![b].at = @ + 1, ![b].phase = "registering"]
          /\ Show(uploading, u.at + 1, Len(u.got))
          /\ UNCHANGED engine

File(b) == uploads[b].got[uploads[b].at]

\* The file is registered with DuckDB, which a path of the local server need not be.
Register(b) ==
  /\ uploads[b].phase = "registering"
  /\ uploads' = [uploads EXCEPT ![b].phase = "listing"]
  /\ UNCHANGED <<user, engine, uploading, progress, listed, handles, reload, told, together, failures>>

\* A file that cannot be registered is reported, and the next one is taken.
RegisterFails(b) ==
  /\ uploads[b].phase = "registering" /\ ~http /\ Fault
  /\ told' = told \cup {File(b).name}
  /\ NextFile(b)
  /\ UNCHANGED <<user, listed, handles, reload, together>>

With(f, name, mark) == [n \in DOMAIN f \cup {name} |-> IF n = name THEN mark ELSE f[n]]

\* removeHandle
WithoutHandle(name) == handles \ {name}

\* addDataSource removes a source of that name, with its handle.
Replaced(name) == IF name \in DOMAIN listed THEN WithoutHandle(name) ELSE handles

\* handleRegularFile, handleDuckDBDatabase: the source is listed, and its handle stored if
\* it was picked.
ListFile(b) ==
  /\ uploads[b].phase = "listing"
  /\ listed' = With(listed, File(b).name, "fine")
  /\ handles' = IF uploads[b].drop THEN Replaced(File(b).name) ELSE handles \cup {File(b).name}
  /\ NextFile(b)
  /\ UNCHANGED <<user, reload, told, together, failures>>

\* A database that cannot be attached, or a handle that cannot be stored: the source is
\* listed, with a warning.
ListWarns(b) ==
  /\ uploads[b].phase = "listing" /\ Fault
  /\ TypeOf(File(b).ext) = "duckdb" \/ ~uploads[b].drop
  /\ listed' = With(listed, File(b).name, "fine")
  /\ handles' = Replaced(File(b).name)
  /\ told' = told \cup {File(b).name}
  /\ NextFile(b)
  /\ UNCHANGED <<user, reload, together>>

-----------------------------------------------------------------------------
(* The reload, once the stored list and the database are there. *)

Unread == [phase |-> "none", total |-> 0, left |-> {}, done |-> 0, failed |-> 0, read |-> {}]

uploadVars == <<uploads, engine, uploading, progress, together>>

\* reloadFilesInBackground reads the handles and counts them,
CountHandles ==
  /\ reload.phase = "none"
  /\ reload' = IF handles = {} THEN [reload EXCEPT !.phase = "over"]
               ELSE [reload EXCEPT !.phase = "counted", !.total = Cardinality(handles)]
  /\ UNCHANGED <<user, uploadVars, listed, handles, told, failures>>

\* and reloadFilesFromHandles reads them again.
ListHandles ==
  /\ reload.phase = "counted"
  /\ reload' = IF handles = {} THEN [Unread EXCEPT !.phase = "over"]
               ELSE [reload EXCEPT !.phase = "working", !.left = handles, !.read = handles]
  /\ UNCHANGED <<user, uploadVars, listed, handles, told, failures>>

\* The next handle; after the last the display is cleared.
Went(name, done, failed) ==
  /\ reload.phase = "working" /\ name \in reload.left
  /\ reload' = IF reload.left = {name} THEN [Unread EXCEPT !.phase = "over", !.read = reload.read]
               ELSE [reload EXCEPT !.left = @ \ {name}, !.done = @ + done, !.failed = @ + failed]

Marked(name, mark) == IF name \in DOMAIN listed THEN With(listed, name, mark) ELSE listed

\* The user gives no access: the source waits for a click.  Counted nowhere.
ReloadDenied(name) ==
  /\ Went(name, 0, 0)
  /\ listed' = Marked(name, "prompt") /\ told' = told \cup {name}
  /\ UNCHANGED <<user, uploadVars, handles, failures>>

\* Queries have handles in the same store; their tabs bring them back.
IsQuery(name) == name = "query"

ReloadSkips(name) ==
  /\ IsQuery(name) /\ Went(name, 0, 0)
  /\ UNCHANGED <<user, uploadVars, listed, handles, told, failures>>

Reloaded(name) ==
  /\ ~IsQuery(name) /\ Went(name, 1, 0)
  /\ listed' = With(listed, name, "fine")
  /\ UNCHANGED <<user, uploadVars, handles, told, failures>>

\* handleFailedReload: a file that is gone loses its handle, one without permission waits.
ReloadFails(name) ==
  \E words \in {{"read"}, {"no such file"}, {}} :
    LET kind == CategorizeError(words)
    IN /\ ~IsQuery(name) /\ Went(name, 0, 1) /\ Fault
       /\ handles' = IF kind = "not_found" THEN WithoutHandle(name) ELSE handles
       /\ listed' = Marked(name, IF kind = "permission" THEN "prompt" ELSE "failed")
       /\ told' = told \cup {name}
       /\ UNCHANGED <<user, uploadVars>>

-----------------------------------------------------------------------------
(* The user and the connection to BigQuery. *)

others == <<http, uploads, uploading, progress, listed, handles, reload, told, together, failures>>

\* handleConnectorChange
ChooseEngine ==
  /\ choices < MaxChoices /\ choices' = choices + 1
  /\ \E e \in {"duckdb", "bigquery"} \ {engine} :
       /\ e = "bigquery" => cloud
       /\ engine' = e /\ preferred' = e
  /\ crossed' = ~Calm
  /\ UNCHANGED <<others, cloud>>

\* checkBigQueryStatus
ConnectionChanges ==
  /\ choices < MaxChoices /\ choices' = choices + 1
  /\ cloud' = ~cloud
  /\ crossed' = (crossed \/ ~Calm)
  /\ UNCHANGED <<others, engine, preferred>>

-----------------------------------------------------------------------------

BatchInit ==
  /\ http \in BOOLEAN
  /\ uploads = [b \in Uploads |-> None]
  /\ engine \in {"duckdb", "bigquery"} /\ preferred = engine /\ cloud = TRUE
  /\ uploading = FALSE /\ progress = [at |-> 0, of |-> 0]
  /\ handles \in Handles
  /\ \E names \in {{}, {n \in handles : ~IsQuery(n)}} : listed = [n \in names |-> "fine"]
  /\ reload = Unread \/ (reload = [Unread EXCEPT !.phase = "over"] /\ handles = {})
  /\ told = {} /\ crossed = FALSE /\ together = FALSE /\ choices = 0 /\ failures = 0

UploadStep(b) ==
  \/ ReadFile(b) \/ DropUnread(b) \/ PickUnread(b)
  \/ Register(b) \/ RegisterFails(b) \/ ListFile(b) \/ ListWarns(b)

ReloadStep ==
  \/ CountHandles \/ ListHandles
  \/ \E name \in reload.left :
       ReloadDenied(name) \/ ReloadSkips(name) \/ Reloaded(name) \/ ReloadFails(name)

BatchNext ==
  \/ \E b \in Uploads : PickFiles(b) \/ DropFiles(b) \/ UploadStep(b)
  \/ ReloadStep \/ ChooseEngine \/ ConnectionChanges

\* Browser and worker answer.
BatchFairness == (\A b \in Uploads : WF_batchVars(UploadStep(b))) /\ WF_batchVars(ReloadStep)

-----------------------------------------------------------------------------
(* Properties. *)

NamesFrom(files, n) == {files[i].name : i \in n .. Len(files)}

\* The files of upload b that are still to come.
Pending(b) ==
  LET u == uploads[b]
  IN CASE u.phase = "lost" -> Names(u.files)
       [] u.phase \in {"picking", "reading"} -> Names(u.got) \cup NamesFrom(u.files, u.at)
       [] u.phase \in {"registering", "listing"} -> NamesFrom(u.got, u.at)
       [] OTHER -> {}

\* No file gets lost: each file of an upload is still to come, listed, or the user was told
\* about it; each handle of the reload likewise (unless the files picked were lost at once).
FilesAnswered ==
  /\ \A b \in Uploads : Names(uploads[b].files) \subseteq Pending(b) \cup DOMAIN listed \cup told
  /\ \A n \in reload.read \ reload.left : IsQuery(n) \/ n \in DOMAIN listed \cup told
  /\ \A n \in DOMAIN listed : listed[n] # "fine" => n \in told

\* The user's choice of the engine outlasts the uploads, however they overlap, unless
\* it or the connection to BigQuery changes meanwhile, or is not there from the start.
EngineKept == Calm => engine = preferred \/ crossed

\* The display is that of the upload, if it is the only one, and is cleared after all; the
\* counters of the reload stay within the total, if no handle was added in between.
ProgressFits ==
  /\ Calm => ~uploading /\ progress = [at |-> 0, of |-> 0]
  /\ progress.at <= progress.of
  /\ ~together => \A b \in Uploads :
       /\ uploads[b].phase \in {"reading", "registering", "listing"} => uploading
       /\ uploads[b].phase \in {"registering", "listing"} =>
            progress = [at |-> uploads[b].at, of |-> Len(uploads[b].got)]
  /\ reload.phase = "working" =>
       /\ Cardinality(reload.read) = reload.total => reload.done + reload.failed < reload.total
       /\ reload.done + reload.failed + Cardinality(reload.left) <= Cardinality(reload.read)
=============================================================================
