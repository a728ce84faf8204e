----------------------------- MODULE ImportQueue -----------------------------
(***************************************************************************)
(* The import queue (import-queue.ts): background imports of remote tables *)
(* into the browser's file system (OPFS), with their state saved in        *)
(* IndexedDB, pause, resume and cancel, and closings and crashes of the    *)
(* page.                                                                   *)
(*                                                                         *)
(* Everything runs in one thread, but each operation awaits the database   *)
(* or the file system; an action is the code between two awaits.           *)
(*                                                                         *)
(* The queue is constructed when its module is loaded, before the database *)
(* is open: restoreJobs, which the constructor calls, fails at once        *)
(* (ensureInitialized throws, and the error is logged) and is not called   *)
(* again.  What an earlier page has saved stays as that page left it.      *)
(***************************************************************************)
EXTENDS Naturals, Sequences, FiniteSets, SequencesExt

CONSTANTS Jobs,        \* job ids
          Names, Paths,
          NameOf,      \* `${schema}.${tableName}`, the table's localName
          PathOf,      \* `/tables/${schema}_${tableName}.parquet`
          MaxCrashes,  \* bound: closings and crashes of the page
          MaxCancels,  \* bound: cancels by the user
          MaxPauses,   \* bound: pauses by the user
          MaxFaults    \* bound: errors of the file system or database

ASSUME ImportAssumption ==
  /\ "none" \notin Jobs /\ "empty" \notin Jobs
  /\ NameOf \in [Jobs -> Names]
  /\ PathOf \in [Jobs -> Paths]
  /\ MaxCrashes \in Nat /\ MaxCancels \in Nat /\ MaxPauses \in Nat
  /\ MaxFaults \in Nat

VARIABLES
  disk,      \* import_jobs in IndexedDB: the saved status of each job
  tables,    \* materialized_tables: the job that wrote the entry of a name
  file,      \* OPFS: the job whose data a path holds
  open,      \* has persistenceMetadataStore.initialize() opened the database
  status,    \* memory: the status of each job of this page
  aborted,   \* memory: has the job's AbortController been aborted
  queue,     \* memory: the keys of the Map of queued imports, in insertion order
  exec,      \* memory: the import in progress; isProcessing is exec # Idle
  enqueuing, \* jobs whose enqueue() awaits saveJob
  resuming,  \* jobs whose resume() awaits saveJob
  cleaning,  \* where cancel() of a job is: "save", then "file"
  crashes, cancels, pauses, faults    \* how often they happened

saved == <<disk, tables, file>>
pending == <<enqueuing, resuming, cleaning>>
counters == <<crashes, cancels, pauses, faults>>
vars == <<saved, open, status, aborted, queue, exec, pending, counters>>

-----------------------------------------------------------------------------
None == "none"
Idle == [job |-> None, at |-> "idle"]
Statuses == {None, "queued", "running", "paused", "completed", "failed",
             "cancelled"}
Steps == {"save", "fetch", "write", "register", "saved", "complete", "failed",
          "unsaved", "clean"}
Execution == [job : Jobs, at : Steps]

TypeOK ==
  /\ disk \in [Jobs -> Statuses]
  /\ tables \in [Names -> Jobs \cup {None}]
  /\ file \in [Paths -> Jobs \cup {None, "empty"}]
  /\ open \in BOOLEAN
  /\ status \in [Jobs -> Statuses]
  /\ aborted \in [Jobs -> BOOLEAN]
  /\ queue \in Seq(Jobs) /\ IsInjective(queue)
  /\ exec \in Execution \cup {Idle}
  /\ enqueuing \subseteq Jobs
  /\ resuming \subseteq Jobs
  /\ cleaning \in [Jobs -> {None, "save", "file"}]
  /\ crashes \in 0..MaxCrashes /\ cancels \in 0..MaxCancels
  /\ pauses \in 0..MaxPauses /\ faults \in 0..MaxFaults

NoStatus == [j \in Jobs |-> None]
NotAborted == [j \in Jobs |-> FALSE]
NoCleaning == [j \in Jobs |-> None]

Init ==
  /\ disk = [j \in Jobs |-> None]
  /\ tables = [n \in Names |-> None]
  /\ file = [p \in Paths |-> None]
  /\ open = FALSE
  /\ status = NoStatus
  /\ aborted = NotAborted
  /\ queue = <<>>
  /\ exec = Idle
  /\ enqueuing = {}
  /\ resuming = {}
  /\ cleaning = NoCleaning
  /\ crashes = 0 /\ cancels = 0 /\ pauses = 0 /\ faults = 0

-----------------------------------------------------------------------------
(* The queue, a Map from job id to the entry. *)

Has(q, j) == \E i \in 1..Len(q) : q[i] = j

PlaceOf(q, j) == CHOOSE i \in 1..Len(q) : q[i] = j

SetEntry(q, j) == IF Has(q, j) THEN q ELSE Append(q, j)

Without(q, j) == IF Has(q, j) THEN RemoveAt(q, PlaceOf(q, j)) ELSE q

\* getNextJob: the first entry of the queue that is queued.
NextJob(q, st) == SelectInSeq(q, LAMBDA j : st[j] = "queued")

\* processQueue() when the queue is q, the statuses are st and no import is in
\* progress: the next import starts and saves 'running'.
StartNext(q, st) ==
  LET i == NextJob(q, st) IN
  /\ queue' = q
  /\ IF i = 0
     THEN /\ exec' = Idle
          /\ status' = st
          /\ UNCHANGED <<disk, aborted>>
     ELSE /\ exec' = [job |-> q[i], at |-> "save"]
          /\ status' = [st EXCEPT ![q[i]] = "running"]
          /\ disk' = [disk EXCEPT ![q[i]] = "running"]
          /\ aborted' = [aborted EXCEPT ![q[i]] = FALSE]

\* processQueue() from outside: nothing happens while an import is running.
ProcessQueue(q) ==
  IF exec = Idle
  THEN StartNext(q, status)
  ELSE queue' = q /\ UNCHANGED <<disk, status, aborted, exec>>

-----------------------------------------------------------------------------
(* The user. *)

OpenStore ==
  /\ ~open
  /\ open' = TRUE
  /\ UNCHANGED <<saved, status, aborted, queue, exec, pending, counters>>

\* Before the database is open saveJob throws, and nothing is added.
Enqueue(j) ==
  /\ open
  /\ disk[j] = None
  /\ disk' = [disk EXCEPT ![j] = "queued"]
  /\ status' = [status EXCEPT ![j] = "queued"]
  /\ enqueuing' = enqueuing \cup {j}
  /\ UNCHANGED <<tables, file, open, aborted, queue, exec, resuming, cleaning, counters>>

\* A bug that must be noticed: the queue is processed before the job is put into it.
Enqueued_TooLate(j) ==
  /\ j \in enqueuing
  /\ enqueuing' = enqueuing \ {j}
  /\ queue' = SetEntry(queue, j)
  /\ UNCHANGED <<saved, open, status, aborted, exec, resuming, cleaning, counters>>

Enqueued(j) ==
  /\ j \in enqueuing
  /\ enqueuing' = enqueuing \ {j}
  /\ ProcessQueue(SetEntry(queue, j))
  /\ UNCHANGED <<tables, file, open, resuming, cleaning, counters>>

Pause(j) ==
  /\ pauses < MaxPauses
  /\ Has(queue, j)
  /\ status[j] = "running"
  /\ aborted' = [aborted EXCEPT ![j] = TRUE]
  /\ status' = [status EXCEPT ![j] = "paused"]
  /\ disk' = [disk EXCEPT ![j] = "paused"]
  /\ pauses' = pauses + 1
  /\ UNCHANGED <<tables, file, open, queue, exec, pending, crashes, cancels, faults>>

Resume(j) ==
  /\ Has(queue, j)
  /\ status[j] = "paused"
  /\ status' = [status EXCEPT ![j] = "queued"]
  /\ disk' = [disk EXCEPT ![j] = "queued"]
  /\ resuming' = resuming \cup {j}
  /\ UNCHANGED <<tables, file, open, aborted, queue, exec, enqueuing, cleaning, counters>>

Resumed(j) ==
  /\ j \in resuming
  /\ resuming' = resuming \ {j}
  /\ ProcessQueue(queue)
  /\ UNCHANGED <<tables, file, open, enqueuing, cleaning, counters>>

Cancel(j) ==
  /\ cancels < MaxCancels
  /\ Has(queue, j)
  /\ aborted' = [aborted EXCEPT ![j] = TRUE]
  /\ status' = [status EXCEPT ![j] = "cancelled"]
  /\ disk' = [disk EXCEPT ![j] = "cancelled"]
  /\ cleaning' = [cleaning EXCEPT ![j] = "save"]
  /\ cancels' = cancels + 1
  /\ UNCHANGED <<tables, file, open, queue, exec, enqueuing, resuming, crashes, pauses,
                 faults>>

\* saveJob has returned: the job leaves the queue, and its file is looked for.
Cancelled(j) ==
  /\ cleaning[j] = "save"
  /\ queue' = Without(queue, j)
  /\ cleaning' = [cleaning EXCEPT ![j] = "file"]
  /\ UNCHANGED <<saved, open, status, aborted, exec, enqueuing, resuming, counters>>

\* cleanupPartialImport deletes whatever the path holds.
CancelCleans(j) ==
  /\ cleaning[j] = "file"
  /\ file' = [file EXCEPT ![PathOf[j]] = None]
  /\ cleaning' = [cleaning EXCEPT ![j] = None]
  /\ UNCHANGED <<disk, tables, open, status, aborted, queue, exec, enqueuing, resuming,
                 counters>>

-----------------------------------------------------------------------------
(* executeImport and importFromSource, between their awaits. *)

\* Step a of the import of job j has been awaited.
At(a, j) == exec = [job |-> j, at |-> a]

GoTo(a) == exec' = [exec EXCEPT !.at = a]

\* 'running' is saved: fetchFromSource is called (it ignores the signal).
Started(j) ==
  /\ At("save", j)
  /\ GoTo("fetch")
  /\ UNCHANGED <<saved, open, status, aborted, queue, pending, counters>>

\* The rows are there: the progress is saved with the status of the object,
\* and writeFile creates the file if there is none.
Fetched(j) ==
  /\ At("fetch", j)
  /\ disk' = [disk EXCEPT ![j] = status[j]]
  /\ file' = [file EXCEPT ![PathOf[j]] = IF @ = None THEN "empty" ELSE @]
  /\ GoTo("write")
  /\ UNCHANGED <<tables, open, status, aborted, queue, pending, counters>>

\* A bug that must be noticed: the job is completed before its table is saved.
Written_Completed(j) ==
  /\ At("write", j)
  /\ file' = [file EXCEPT ![PathOf[j]] = j]
  /\ disk' = [disk EXCEPT ![j] = "completed"]
  /\ GoTo("register")
  /\ UNCHANGED <<tables, open, status, aborted, queue, pending, counters>>

\* The writable is closed: the new content replaces the old.
Written(j) ==
  /\ At("write", j)
  /\ file' = [file EXCEPT ![PathOf[j]] = j]
  /\ GoTo("register")
  /\ UNCHANGED <<disk, tables, open, status, aborted, queue, pending, counters>>

\* saveTable puts an entry with a new id; the index on localName is unique.
TableSaved(j) ==
  /\ At("register", j)
  /\ tables[NameOf[j]] = None
  /\ tables' = [tables EXCEPT ![NameOf[j]] = j]
  /\ GoTo("saved")
  /\ UNCHANGED <<disk, file, open, status, aborted, queue, pending, counters>>

\* importFromSource returns: the job is completed whatever its status is now.
Registered(j) ==
  /\ At("saved", j)
  /\ status' = [status EXCEPT ![j] = "completed"]
  /\ disk' = [disk EXCEPT ![j] = "completed"]
  /\ GoTo("complete")
  /\ UNCHANGED <<tables, file, open, aborted, queue, pending, counters>>

\* A bug that must be noticed: the cleanup is done whether the import failed or not.
Completed_Cleans(j) ==
  /\ At("complete", j)
  /\ file' = [file EXCEPT ![PathOf[j]] = None]
  /\ StartNext(Without(queue, j), status)
  /\ UNCHANGED <<tables, open, pending, counters>>

\* A bug that must be noticed: the next job is not started.
Completed_Stops(j) ==
  /\ At("complete", j)
  /\ queue' = Without(queue, j)
  /\ exec' = Idle
  /\ UNCHANGED <<saved, open, status, aborted, pending, counters>>

\* 'completed' is saved: the job leaves the queue and the next one starts.
Completed(j) ==
  /\ At("complete", j)
  /\ StartNext(Without(queue, j), status)
  /\ UNCHANGED <<tables, file, open, pending, counters>>

\* The catch: an aborted import is given up and its job kept, ...
GiveUp(j) ==
  /\ aborted[j]
  /\ StartNext(queue, status)

\* ... any other has failed.
Fail(j) ==
  /\ ~aborted[j]
  /\ status' = [status EXCEPT ![j] = "failed"]
  /\ disk' = [disk EXCEPT ![j] = "failed"]
  /\ GoTo("failed")
  /\ UNCHANGED <<aborted, queue>>

\* The table's name is taken.
NameTaken(j) ==
  /\ At("register", j)
  /\ tables[NameOf[j]] # None
  /\ GiveUp(j) \/ Fail(j)
  /\ UNCHANGED <<tables, file, open, pending, counters>>

\* The file cannot be written (quota); a file that existed keeps its content.
WriteFails(j) ==
  /\ At("write", j)
  /\ faults < MaxFaults
  /\ faults' = faults + 1
  /\ GiveUp(j) \/ Fail(j)
  /\ UNCHANGED <<tables, file, open, pending, crashes, cancels, pauses>>

\* 'failed' is saved: the job leaves the queue and its file is looked for.
Failed(j) ==
  /\ At("failed", j)
  /\ queue' = Without(queue, j)
  /\ GoTo("clean")
  /\ UNCHANGED <<saved, open, status, aborted, pending, counters>>

\* Neither the file nor the 'failed' can be written: executeImport throws, ...
StorageFull(j) ==
  /\ At("write", j)
  /\ faults < MaxFaults
  /\ faults' = faults + 1
  /\ ~aborted[j]
  /\ status' = [status EXCEPT ![j] = "failed"]
  /\ GoTo("unsaved")
  /\ UNCHANGED <<saved, open, aborted, queue, pending, crashes, cancels, pauses>>

\* ... and processQueue logs the error and stops: it looks for no next job.
Thrown(j) ==
  /\ At("unsaved", j)
  /\ exec' = Idle
  /\ UNCHANGED <<saved, open, status, aborted, queue, pending, counters>>

\* cleanupPartialImport deletes whatever the path holds; the next one starts.
FailCleans(j) ==
  /\ At("clean", j)
  /\ file' = [file EXCEPT ![PathOf[j]] = None]
  /\ StartNext(queue, status)
  /\ UNCHANGED <<tables, open, pending, counters>>

-----------------------------------------------------------------------------
(* The page is closed or crashes, and is opened again: a queue is constructed *)
(* anew, and restoreJobs finds no database.                                   *)

Crash ==
  /\ crashes < MaxCrashes
  /\ crashes' = crashes + 1
  /\ open' = FALSE
  /\ status' = NoStatus
  /\ aborted' = NotAborted
  /\ queue' = <<>>
  /\ exec' = Idle
  /\ enqueuing' = {}
  /\ resuming' = {}
  /\ cleaning' = NoCleaning
  /\ UNCHANGED <<saved, cancels, pauses, faults>>

-----------------------------------------------------------------------------
User(j) == Enqueue(j) \/ Pause(j) \/ Resume(j) \/ Cancel(j)
Returns(j) == Enqueued(j) \/ Resumed(j) \/ Cancelled(j) \/ CancelCleans(j)
Import(j) == \/ Started(j) \/ Fetched(j) \/ Written(j)
             \/ TableSaved(j) \/ Registered(j) \/ Completed(j) \/ NameTaken(j)
             \/ Failed(j) \/ FailCleans(j) \/ Thrown(j)
Faulty(j) == WriteFails(j) \/ StorageFull(j)

Next ==
  \/ Crash \/ OpenStore
  \/ \E j \in Jobs : User(j) \/ Returns(j) \/ Import(j) \/ Faulty(j)

Spec == Init /\ [][Next]_vars

\* Every await is answered; nothing makes the user or a fault act.
Fairness == \A j \in Jobs : WF_vars(Returns(j)) /\ WF_vars(Import(j))

FairSpec == Spec /\ Fairness

-----------------------------------------------------------------------------
(* What holds. *)

\* The page knows the job; those of an earlier page are nowhere but in the database.
Here(j) == status[j] # None

\* A job saved as completed is the one its table's entry was written by: the
\* entry is saved before the status, across crashes, pauses, cancels and late
\* saves of the job's progress (executeImport, importFromSource).
CompletedHasTable ==
  \A j \in Jobs : disk[j] = "completed" => tables[NameOf[j]] = j

\* A table in the catalogue has its own data in its file: an import or a
\* cleanup of another job does not touch it, while every job has a path of its
\* own and no job was cancelled, however often the page was closed.
TableHasFile ==
  (IsInjective(PathOf) /\ cancels = 0) =>
    \A n \in Names : tables[n] # None => file[PathOf[tables[n]]] = tables[n]

\* No job of the page is forgotten.  One that is saved as queued or running is in
\* the queue or being put there; one that shows as running is the import in
\* progress, which can still be paused; and while no import is in progress none of
\* the queue waits, but one whose resume() is under way: processQueue, which
\* returns when an import is in progress, is called again whenever a job may have
\* been added or resumed in the meantime (an error of the storage stops it, Thrown).
NothingForgotten ==
  \A j \in Jobs :
    /\ Here(j) /\ disk[j] \in {"queued", "running"} => Has(queue, j) \/ j \in enqueuing
    /\ status[j] = "running" => exec.job = j /\ ~aborted[j]
    /\ faults = 0 /\ exec = Idle /\ Has(queue, j) /\ status[j] = "queued"
         => j \in resuming

\* A job that is completed or failed in the database stays so, whatever the user
\* and late saves of its progress do; only a cancel that comes before the job has
\* left the queue overwrites it.
FinalStays ==
  [][\A j \in Jobs : disk[j] \in {"completed", "failed"} =>
       disk'[j] \in {disk[j], "cancelled"}]_vars

\* An import of this page that is queued or running ends, or waits for the user,
\* unless the page is closed: no later page takes it up.  An error of the storage
\* may stop the queue (Thrown).
JobsEnd ==
  \A j \in Jobs :
    Here(j) /\ disk[j] \in {"queued", "running"}
      ~> \/ disk[j] \in {"completed", "failed", "cancelled", "paused"}
         \/ ~Here(j) \/ faults > 0

-----------------------------------------------------------------------------
(* What the comments of import-queue.ts say, and the code does not do. *)

\* "Clean up partial import files" (l. 521): what is cleaned up is partial: no
\* table of the catalogue has its data there.
DocCleanupIsPartial ==
  [][\A n \in Names :
       tables[n] # None /\ file[PathOf[tables[n]]] # None
         => file'[PathOf[tables[n]]] # None]_vars

\* The catalogue names only files that are there.
CatalogueOK == TypeOK /\ TableHasFile

\* Every import of a page that stays open ends, and what it ended as stays.
JobsEndOnce == FinalStays /\ JobsEnd
=============================================================================
