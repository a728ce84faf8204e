----------------------------- MODULE WorkerFiles -----------------------------
(***************************************************************************)
(* Files that are handed to the engine in the worker and read back:         *)
(* registerFile, registerFileHandle and copyFileToBuffer of the adapter     *)
(* (index.ts), and what the worker does with their messages (worker.ts).    *)
(* The id of a message is the kind of the call and the millisecond in which *)
(* it was posted, so two calls may have the same id.                        *)
(***************************************************************************)
EXTENDS Naturals, Sequences, SequencesExt

CONSTANTS
  Calls,    \* numbers of the calls, in the order in which they begin
  MaxTime   \* bound: milliseconds

VARIABLES
  worker,     \* "none", "starting", "there"; "dead": the script was not loaded
  db,         \* worker: "null", "open"; "lost": null after a fatal error
  calls,      \* call -> [kind, at, id]
  handlers,   \* id -> the call whose handler it is: pairs <<id, call>>
  toWorker,   \* messages [id, call] on their way to the worker
  engine,     \* those the engine is at work on
  answers,    \* messages [id, call, ok] on their way to the main thread
  clock,
  performed,  \* history: calls the engine has performed
  replaced,   \* history: calls whose handler another call has replaced
  doubled     \* history: calls that were posted with an id that was in use

filesVars == <<worker, db, calls, handlers, toWorker, engine, answers, clock,
               performed, replaced, doubled>>

FilesInit ==
  /\ worker = "none" /\ db = "null"
  /\ calls = [c \in Calls |-> [kind |-> "none", at |-> "unused", id |-> <<>>]]
  /\ handlers = {} /\ toWorker = <<>> /\ engine = <<>> /\ answers = <<>>
  /\ clock = 0
  /\ performed = {} /\ replaced = {} /\ doubled = {}

-----------------------------------------------------------------------------
(* The main thread. *)

\* The message of call c is posted, after its handler was set.
Post(c, kind) ==
  LET id == <<kind, clock>>
      old == {h \in handlers : h[1] = id}
      busy == {m.id : m \in ToSet(toWorker \o engine \o answers)}
  IN /\ calls' = [calls EXCEPT ![c] = [kind |-> kind, at |-> "asked", id |-> id]]
     /\ handlers' = (handlers \ old) \cup {<<id, c>>}
     /\ toWorker' = Append(toWorker, [id |-> id, call |-> c])
     /\ replaced' = replaced \cup {h[2] : h \in old}
     /\ doubled' = IF old # {} \/ id \in busy THEN doubled \cup {c} ELSE doubled

\* The first call of all starts the worker and waits for it; a call that finds
\* the worker there does not, though it may still be starting.
Begin(c) ==
  /\ \A b \in Calls : calls[b].at = "unused" <=> b >= c
  /\ \E kind \in {"register", "register_handle", "copy"} :
       IF worker = "none"
       THEN /\ worker' = "starting"
            /\ calls' = [calls EXCEPT ![c] = [@ EXCEPT !.kind = kind, !.at = "starting"]]
            /\ UNCHANGED <<handlers, toWorker, replaced, doubled>>
       ELSE Post(c, kind) /\ UNCHANGED worker
  /\ UNCHANGED <<db, engine, answers, clock, performed>>

Starting(c) == worker = "starting" /\ calls[c].at = "starting"

\* 'inited'.
Inited(c) ==
  /\ Starting(c) /\ db = "open"
  /\ worker' = "there"
  /\ Post(c, calls[c].kind)
  /\ UNCHANGED <<db, engine, answers, clock, performed>>

\* An error without id, or the error event of a script that was not loaded: the
\* worker object stays, and the calls that follow are posted to it.
NotInited(c) ==
  /\ Starting(c)
  /\ worker' \in {"there", "dead"}
  /\ calls' = [calls EXCEPT ![c].at = "failed"]
  /\ UNCHANGED <<db, handlers, toWorker, engine, answers, clock, performed, replaced, doubled>>

\* onmessage: an answer without a handler is dropped.
Answered ==
  /\ answers # <<>>
  /\ answers' = Tail(answers)
  /\ LET m == Head(answers)
         mine == {h \in handlers : h[1] = m.id}
     IN /\ handlers' = handlers \ mine
        /\ calls' = [c \in Calls |->
             IF <<m.id, c>> \in mine
             THEN [calls[c] EXCEPT !.at = IF m.ok THEN "done" ELSE "failed"] ELSE calls[c]]
  /\ UNCHANGED <<worker, db, toWorker, engine, clock, performed, replaced, doubled>>

Tick ==
  /\ clock < MaxTime
  /\ clock' = clock + 1
  /\ UNCHANGED <<worker, db, calls, handlers, toWorker, engine, answers, performed, replaced, doubled>>

-----------------------------------------------------------------------------
(* The worker. *)

\* The init handler has made the database.
Opened ==
  /\ worker = "starting" /\ db = "null"
  /\ db' = "open"
  /\ UNCHANGED <<worker, calls, handlers, toWorker, engine, answers, clock, performed, replaced, doubled>>

Answer(m, ok) == answers' = Append(answers, [id |-> m.id, call |-> m.call, ok |-> ok])

\* A bug that must be noticed: without a database nothing is answered.
Refused_Silent(m) == UNCHANGED <<answers, engine>>

\* 'Database not initialized'
Refused(m) == Answer(m, FALSE) /\ UNCHANGED engine

\* A message is taken while others may still be under way in the engine, or while
\* the worker is starting.  A dead worker takes none.
Taken ==
  /\ worker \in {"starting", "there"} /\ toWorker # <<>>
  /\ toWorker' = Tail(toWorker)
  /\ IF db = "open" THEN engine' = Append(engine, Head(toWorker)) /\ UNCHANGED answers
                    ELSE Refused(Head(toWorker))
  /\ UNCHANGED <<worker, db, calls, handlers, clock, performed, replaced, doubled>>

\* The engine answers in order: the file is registered (or read), or an error.
Performed ==
  /\ engine # <<>> /\ db = "open"
  /\ engine' = Tail(engine)
  /\ \E ok \in BOOLEAN :
       /\ Answer(Head(engine), ok)
       /\ performed' = IF ok THEN performed \cup {Head(engine).call} ELSE performed
  /\ UNCHANGED <<worker, db, calls, handlers, toWorker, clock, replaced, doubled>>

\* resetDatabase after a fatal error of a query: what the engine was at work on
\* may never be answered.
Lost ==
  /\ db = "open"
  /\ db' = "lost"
  /\ UNCHANGED <<worker, calls, handlers, toWorker, engine, answers, clock, performed, replaced, doubled>>

-----------------------------------------------------------------------------
FilesNext ==
  \/ \E c \in Calls : Begin(c) \/ Inited(c) \/ NotInited(c)
  \/ Answered \/ Tick \/ Opened \/ Taken \/ Performed \/ Lost

\* The event loops run, and the engine answers.
FilesProgress == (\E c \in Calls : Inited(c) \/ NotInited(c)) \/ Answered \/ Opened \/ Taken \/ Performed

-----------------------------------------------------------------------------
(* Properties. *)

\* A call that ends well was performed by the engine, unless it was posted with
\* an id that another call still used: then it has the answer of that call.
OwnAnswer == \A c \in Calls : calls[c].at = "done" => c \in performed \cup doubled

\* A call that waits for the worker is answered, unless a call with the same id has
\* replaced its handler, the database was lost while the engine was at work on it,
\* or the script of the worker was not loaded.
FileCallsEnd ==
  \A c \in Calls :
    calls[c].at \in {"starting", "asked"} ~>
      \/ calls[c].at \in {"done", "failed"}
      \/ c \in replaced
      \/ db = "lost" /\ \E m \in ToSet(engine) : m.call = c \/ m.id = calls[c].id
      \/ worker = "dead"
=============================================================================
