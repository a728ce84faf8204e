--------------------------- MODULE WorkerProtocol ---------------------------
(***************************************************************************)
(* The streaming of DuckDB query results from the web worker (worker.ts)   *)
(* through the adapter (DuckDBWorkerAdapter) to the async generator        *)
(* DuckDBConnector.query, with the ACK flow control between the threads.   *)
(*                                                                         *)
(* Rows are numbered from 1, so order, loss and duplication are visible.   *)
(* A message carries the rows lo..hi; one that carries no rows has         *)
(* lo = hi + 1.  The two message channels are FIFO; messages of different  *)
(* queries are handled by independent closures, so each query has its own  *)
(* pair of channels.                                                       *)
(***************************************************************************)
EXTENDS Integers, Sequences, FiniteSets

CONSTANTS Queries,        \* the query ids, `query-${++queryCounter}`
          MaxRows,        \* bound: the largest result the engine returns
          WorkerChunk,    \* MAX_ROWS_PER_CHUNK: most rows in one json message
          ChunkSize,      \* opts.chunkSize: rows the generator waits for
          MaxOutstanding  \* MAX_OUTSTANDING: unacknowledged chunks allowed

ASSUME ConstantsAssumption ==
  /\ MaxRows \in Nat
  /\ WorkerChunk \in Nat \ {0}
  /\ ChunkSize \in Nat \ {0}
  /\ MaxOutstanding \in Nat \ {0}

VARIABLES
  adapter,      \* main thread: is the adapter (and its worker) there
  boot,         \* worker: progress of the 'init' handler
  conn,         \* worker: the DuckDB connection
  toWorker,     \* messages to the worker not yet handled, per query
  inbox,        \* messages to the main thread not yet handled, per query
  wpc,          \* worker: where the 'run' handler of a query is
  outstanding,  \* worker: outstanding.get(id) || 0
  size,         \* rows in the engine's result
  sent,         \* rows the worker has posted
  gen,          \* main thread: where the generator is
  buffer,       \* main thread: rows received and not yielded
  schema,       \* main thread: has the schema been received
  done,         \* main thread: the `done` flag of the generator
  complete,     \* main thread: the queryComplete promise
  delivered,    \* rows yielded to the consumer, in order
  lastFlag,     \* the `done` field of the chunk yielded last
  asked         \* has connector.cancel been called (bound: once a query)

workerVars == <<boot, conn, wpc, outstanding, size, sent>>
mainVars == <<gen, buffer, schema, done, complete, delivered, lastFlag>>
vars == <<adapter, toWorker, inbox, asked, workerVars, mainVars>>

-----------------------------------------------------------------------------
MessageTypes == {"json-schema", "json", "query-stats", "error", "done",
                 "cancelled"}
Message == [type : MessageTypes, lo : Nat, hi : Nat]

\* A message that carries no rows, posted when `at` rows have been posted.
Note(t, at) == [type |-> t, lo |-> at + 1, hi |-> at]

\* The rows a..b as the main thread receives them.
Rows(a, b) == [i \in 1..(b - a + 1) |-> a + i - 1]

Requests == {"run", "ack", "cancel"}
AdapterStates == {"none", "starting", "ready", "failed"}
BootStates == {"off", "init", "configuring", "inited", "error", "over", "dead"}
ConnStates == {"null", "open"}
RunStates == {"idle", "executing", "sending", "blocked", "resetting",
              "finished"}
GenStates == {"unused", "connecting", "waiting", "yielded", "ending",
              "completed", "failed", "abandoned"}
PromiseStates == {"pending", "resolved", "rejected"}

TypeOK ==
  /\ adapter \in AdapterStates
  /\ boot \in BootStates
  /\ conn \in ConnStates
  /\ toWorker \in [Queries -> Seq(Requests)]
  /\ inbox \in [Queries -> Seq(Message)]
  /\ wpc \in [Queries -> RunStates]
  /\ outstanding \in [Queries -> 0..MaxOutstanding]
  /\ size \in [Queries -> 0..MaxRows]
  /\ sent \in [Queries -> 0..MaxRows]
  /\ gen \in [Queries -> GenStates]
  /\ buffer \in [Queries -> Seq(Nat)]
  /\ schema \in [Queries -> BOOLEAN]
  /\ done \in [Queries -> BOOLEAN]
  /\ complete \in [Queries -> PromiseStates]
  /\ delivered \in [Queries -> Seq(Nat)]
  /\ lastFlag \in [Queries -> BOOLEAN]
  /\ asked \in [Queries -> BOOLEAN]

Init ==
  /\ adapter = "none"
  /\ boot = "off"
  /\ conn = "null"
  /\ toWorker = [q \in Queries |-> <<>>]
  /\ inbox = [q \in Queries |-> <<>>]
  /\ wpc = [q \in Queries |-> "idle"]
  /\ outstanding = [q \in Queries |-> 0]
  /\ size = [q \in Queries |-> 0]
  /\ sent = [q \in Queries |-> 0]
  /\ gen = [q \in Queries |-> "unused"]
  /\ buffer = [q \in Queries |-> <<>>]
  /\ schema = [q \in Queries |-> FALSE]
  /\ done = [q \in Queries |-> FALSE]
  /\ complete = [q \in Queries |-> "pending"]
  /\ delivered = [q \in Queries |-> <<>>]
  /\ lastFlag = [q \in Queries |-> FALSE]
  /\ asked = [q \in Queries |-> FALSE]

-----------------------------------------------------------------------------
(* The main thread: starting, pulling, abandoning and cancelling a query.  *)

\* The consumer's first next(): connect if there is no adapter, else post
\* 'run' at once.  An adapter that is still starting counts as present.
StartQuery(q) ==
  /\ gen[q] = "unused"
  /\ \/ /\ adapter = "none"
        /\ adapter' = "starting"
        /\ boot' = "init"
        /\ gen' = [gen EXCEPT ![q] = "connecting"]
        /\ UNCHANGED toWorker
     \/ /\ adapter # "none"
        /\ gen' = [gen EXCEPT ![q] = "waiting"]
        /\ toWorker' = [toWorker EXCEPT ![q] = Append(@, "run")]
        /\ UNCHANGED <<adapter, boot>>
  /\ UNCHANGED <<conn, inbox, wpc, outstanding, size, sent, buffer, schema,
                 done, complete, delivered, lastFlag, asked>>

\* 'inited' resolves initPromise: the query that connected posts its 'run'.
HandleInited ==
  /\ boot = "inited"
  /\ boot' = "over"
  /\ adapter' = "ready"
  /\ gen' = [q \in Queries |->
               IF gen[q] = "connecting" THEN "waiting" ELSE gen[q]]
  /\ toWorker' = [q \in Queries |->
                    IF gen[q] = "connecting" THEN Append(toWorker[q], "run")
                                             ELSE toWorker[q]]
  /\ UNCHANGED <<conn, inbox, wpc, outstanding, size, sent, buffer, schema,
                 done, complete, delivered, lastFlag, asked>>

\* initPromise rejects: the connecting query throws, and the adapter stays with
\* the worker it has.
RejectInit ==
  /\ adapter' = "failed"
  /\ gen' = [q \in Queries |->
               IF gen[q] = "connecting" THEN "failed" ELSE gen[q]]
  /\ UNCHANGED <<conn, toWorker, inbox, wpc, outstanding, size, sent, buffer,
                 schema, done, complete, delivered, lastFlag, asked>>

\* An 'error' without id: the worker runs, and has no database.
HandleInitError ==
  /\ boot = "error"
  /\ boot' = "over"
  /\ RejectInit

\* worker.onerror: the script of the worker was not loaded, so it takes no message,
\* now or later; `this.worker` is set all the same.
HandleWorkerError ==
  /\ boot = "init"
  /\ \A q \in Queries : wpc[q] = "idle"
  /\ boot' = "dead"
  /\ RejectInit

\* Mutant: the yielded rows stay in the buffer (`buffer = []` forgotten).
Yield_KeepBuffer(q, n, flag) ==
  /\ delivered' = [delivered EXCEPT ![q] = @ \o SubSeq(buffer[q], 1, n)]
  /\ lastFlag' = [lastFlag EXCEPT ![q] = flag]
  /\ gen' = [gen EXCEPT ![q] = "yielded"]
  /\ UNCHANGED buffer

\* The generator hands the first n buffered rows to the consumer.
Yield(q, n, flag) ==
  /\ delivered' = [delivered EXCEPT ![q] = @ \o SubSeq(buffer[q], 1, n)]
  /\ buffer' = [buffer EXCEPT ![q] = SubSeq(@, n + 1, Len(@))]
  /\ lastFlag' = [lastFlag EXCEPT ![q] = flag]
  /\ gen' = [gen EXCEPT ![q] = "yielded"]

\* The generator goes on without yielding rows.
GoTo(q, g) ==
  /\ gen' = [gen EXCEPT ![q] = g]
  /\ UNCHANGED <<buffer, delivered, lastFlag>>

\* Mutant: queryComplete is not awaited, so a late error goes unnoticed.
Finish_NoAwait(q) == GoTo(q, "completed")

\* After the loop: await queryComplete, then yield an empty chunk if there
\* was no schema.
Finish(q) ==
  \/ /\ complete[q] = "rejected"
     /\ GoTo(q, "failed")
  \/ /\ complete[q] # "rejected"
     /\ schema[q]
     /\ GoTo(q, "completed")
  \/ /\ complete[q] # "rejected"
     /\ ~schema[q]
     /\ gen' = [gen EXCEPT ![q] = "ending"]
     /\ lastFlag' = [lastFlag EXCEPT ![q] = TRUE]
     /\ UNCHANGED <<buffer, delivered>>

\* The consumer's next() after a chunk: one turn of the generator's loop.
Pull(q) ==
  /\ \/ /\ gen[q] = "yielded"
        /\ Len(buffer[q]) >= ChunkSize
        /\ Yield(q, Len(buffer[q]), FALSE)
     \/ /\ gen[q] = "yielded"
        /\ Len(buffer[q]) < ChunkSize
        /\ ~done[q]
        /\ GoTo(q, IF complete[q] = "rejected" THEN "failed" ELSE "waiting")
     \/ /\ gen[q] = "yielded"
        /\ Len(buffer[q]) \in 1..(ChunkSize - 1)
        /\ done[q]
        /\ Yield(q, Len(buffer[q]), TRUE)
     \/ /\ gen[q] = "yielded"
        /\ buffer[q] = <<>>
        /\ done[q]
        /\ Finish(q)
     \/ /\ gen[q] = "ending"
        /\ GoTo(q, "completed")
  /\ UNCHANGED <<adapter, boot, conn, toWorker, inbox, wpc, outstanding, size,
                 sent, schema, done, complete, asked>>

\* The consumer leaves its for-await loop; the handler stays registered.
Abandon(q) ==
  /\ gen[q] \in {"yielded", "ending"}
  /\ GoTo(q, "abandoned")
  /\ UNCHANGED <<adapter, boot, conn, toWorker, inbox, wpc, outstanding, size,
                 sent, schema, done, complete, asked>>

\* connector.cancel(id) posts 'cancel' for a query whose handler is
\* registered (a failed query is not cancelled again).
Cancel(q) ==
  /\ gen[q] \notin {"unused", "connecting", "failed"}
  /\ ~asked[q]
  /\ asked' = [asked EXCEPT ![q] = TRUE]
  /\ toWorker' = [toWorker EXCEPT ![q] = Append(@, "cancel")]
  /\ UNCHANGED <<adapter, inbox, workerVars, mainVars>>

-----------------------------------------------------------------------------
(* The main thread: one action per kind of message from the worker.  The   *)
(* generator's continuation is a microtask, so it runs in the same step.   *)

Receive(q, t) ==
  /\ inbox[q] # <<>>
  /\ Head(inbox[q]).type = t
  /\ inbox' = [inbox EXCEPT ![q] = Tail(@)]

PostAck(q) == toWorker' = [toWorker EXCEPT ![q] = Append(@, "ack")]

HandleSchema(q) ==
  /\ Receive(q, "json-schema")
  /\ schema' = [schema EXCEPT ![q] = TRUE]
  /\ PostAck(q)
  /\ UNCHANGED <<adapter, workerVars, gen, buffer, done, complete, delivered,
                 lastFlag, asked>>

\* onRow for each row: the row that fills the chunk resolves the generator
\* that waits for it, and the rows after it start the next buffer.
HandleRows(q) ==
  /\ Receive(q, "json")
  /\ PostAck(q)
  /\ LET rows == buffer[q] \o Rows(Head(inbox[q]).lo, Head(inbox[q]).hi) IN
     IF gen[q] = "waiting" /\ Len(rows) >= ChunkSize
     THEN /\ delivered' = [delivered EXCEPT
                             ![q] = @ \o SubSeq(rows, 1, ChunkSize)]
          /\ buffer' = [buffer EXCEPT
                          ![q] = SubSeq(rows, ChunkSize + 1, Len(rows))]
          /\ lastFlag' = [lastFlag EXCEPT ![q] = FALSE]
          /\ gen' = [gen EXCEPT ![q] = "yielded"]
     ELSE /\ buffer' = [buffer EXCEPT ![q] = rows]
          /\ UNCHANGED <<delivered, lastFlag, gen>>
  /\ UNCHANGED <<adapter, workerVars, schema, done, complete, asked>>

HandleStats(q) ==
  /\ Receive(q, "query-stats")
  /\ UNCHANGED <<adapter, toWorker, workerVars, mainVars, asked>>

\* onDone: a waiting generator gets what is buffered; if that is nothing it
\* leaves its loop.
HandleDone(q) ==
  /\ Receive(q, "done")
  /\ done' = [done EXCEPT ![q] = TRUE]
  /\ complete' = [complete EXCEPT ![q] = IF @ = "pending" THEN "resolved" ELSE @]
  /\ \/ /\ gen[q] = "waiting"
        /\ buffer[q] # <<>>
        /\ Yield(q, Len(buffer[q]), FALSE)
     \/ /\ gen[q] = "waiting"
        /\ buffer[q] = <<>>
        /\ Finish(q)
     \/ /\ gen[q] # "waiting"
        /\ UNCHANGED <<gen, buffer, delivered, lastFlag>>
  /\ UNCHANGED <<adapter, toWorker, workerVars, schema, asked>>

\* Mutant: the generator waits for its chunk only, not for queryComplete.
FailWaiting_NoRace(q) == UNCHANGED gen

FailWaiting(q) == gen' = [gen EXCEPT ![q] = IF @ = "waiting" THEN "failed" ELSE @]

\* onError, for 'error' and 'cancelled': queryComplete rejects, and with it
\* the race of a waiting generator.
HandleError(q) ==
  /\ Receive(q, "error") \/ Receive(q, "cancelled")
  /\ complete' = [complete EXCEPT ![q] = IF @ = "pending" THEN "rejected" ELSE @]
  /\ FailWaiting(q)
  /\ UNCHANGED <<adapter, toWorker, workerVars, buffer, schema, done,
                 delivered, lastFlag, asked>>

-----------------------------------------------------------------------------
(* The worker.  A handler runs without interruption between two awaits:    *)
(* while one run posts chunks, no other message is taken.                  *)

WorkerFree == \A q \in Queries : wpc[q] # "sending"

Take(q, t) ==
  /\ WorkerFree
  /\ boot # "dead"
  /\ toWorker[q] # <<>>
  /\ Head(toWorker[q]) = t
  /\ toWorker' = [toWorker EXCEPT ![q] = Tail(@)]

Post(q, msgs) == inbox' = [inbox EXCEPT ![q] = @ \o msgs]

\* The init handler: the connection opens, ...
OpenConnection ==
  /\ WorkerFree
  /\ boot = "init"
  /\ boot' = "configuring"
  /\ conn' = "open"
  /\ UNCHANGED <<adapter, toWorker, inbox, asked, wpc, outstanding, size, sent,
                 mainVars>>

\* ... or loading the bundle or opening the database throws; ...
FailInit ==
  /\ WorkerFree
  /\ boot = "init"
  /\ boot' = "error"
  /\ UNCHANGED <<adapter, toWorker, inbox, asked, conn, wpc, outstanding, size,
                 sent, mainVars>>

\* ... the settings are applied (their failure is logged) and 'inited' posted.
PostInited ==
  /\ WorkerFree
  /\ boot = "configuring"
  /\ boot' = "inited"
  /\ UNCHANGED <<adapter, toWorker, inbox, asked, conn, wpc, outstanding, size,
                 sent, mainVars>>

\* Mutant: 'done' is posted before the error is reported.
PostFailure_DoneFirst(q) ==
  /\ Post(q, <<Note("done", sent[q]), Note("error", sent[q])>>)
  /\ outstanding' = [outstanding EXCEPT ![q] = 0]
  /\ wpc' = [wpc EXCEPT ![q] = "finished"]

\* The catch and finally of 'run': error, done, outstanding.delete(id).
PostFailure(q) ==
  /\ Post(q, <<Note("error", sent[q]), Note("done", sent[q])>>)
  /\ outstanding' = [outstanding EXCEPT ![q] = 0]
  /\ wpc' = [wpc EXCEPT ![q] = "finished"]

\* 'run': without a connection `conn.query` is a TypeError, reported at once.
HandleRun(q) ==
  /\ Take(q, "run")
  /\ \/ /\ conn = "open"
        /\ wpc' = [wpc EXCEPT ![q] = "executing"]
        /\ outstanding' = [outstanding EXCEPT ![q] = 0]
        /\ UNCHANGED inbox
     \/ /\ conn = "null"
        /\ PostFailure(q)
  /\ UNCHANGED <<adapter, boot, conn, size, sent, asked, mainVars>>

\* conn.query returns a result of n rows; its schema is posted uncounted.
QueryReturns(q) ==
  /\ WorkerFree
  /\ wpc[q] = "executing"
  /\ conn = "open"
  /\ \E n \in 0..MaxRows : size' = [size EXCEPT ![q] = n]
  /\ \/ Post(q, <<Note("json-schema", 0)>>)
     \/ UNCHANGED inbox
  /\ wpc' = [wpc EXCEPT ![q] = "sending"]
  /\ UNCHANGED <<adapter, boot, conn, toWorker, outstanding, sent, asked,
                 mainVars>>

\* conn.query throws an error that leaves the database usable.
QueryThrows(q) ==
  /\ WorkerFree
  /\ wpc[q] = "executing"
  /\ conn = "open"
  /\ PostFailure(q)
  /\ UNCHANGED <<adapter, boot, conn, toWorker, size, sent, asked, mainVars>>

\* conn.query throws a fatal error: resetDatabase closes the database, ...
QueryFatal(q) ==
  /\ WorkerFree
  /\ wpc[q] = "executing"
  /\ conn = "open"
  /\ wpc' = [wpc EXCEPT ![q] = "resetting"]
  /\ UNCHANGED <<adapter, boot, conn, toWorker, inbox, outstanding, size, sent,
                 asked, mainVars>>

\* ... drops the handles, and the error is posted.
ResetDone(q) ==
  /\ WorkerFree
  /\ wpc[q] = "resetting"
  /\ conn' = "null"
  /\ PostFailure(q)
  /\ UNCHANGED <<adapter, boot, toWorker, size, sent, asked, mainVars>>

\* Mutant: the wait starts one chunk late.
MustWait_OffByOne(n) == n > MaxOutstanding

MustWait(n) == n >= MaxOutstanding

\* A chunk that is not the last: post it, count it, and wait for ACKs if the
\* limit is reached.  The byte limit makes its number of rows vary.
SendChunk(q) ==
  /\ wpc[q] = "sending"
  /\ \E k \in 1..WorkerChunk :
       /\ sent[q] + k < size[q]
       /\ Post(q, <<[type |-> "json", lo |-> sent[q] + 1, hi |-> sent[q] + k]>>)
       /\ sent' = [sent EXCEPT ![q] = @ + k]
  /\ outstanding' = [outstanding EXCEPT ![q] = @ + 1]
  /\ wpc' = [wpc EXCEPT
               ![q] = IF MustWait(outstanding'[q]) THEN "blocked"
                                                   ELSE "sending"]
  /\ UNCHANGED <<adapter, boot, conn, toWorker, size, asked, mainVars>>

\* The 10 ms timer finds the count below the limit.
Unblock(q) ==
  /\ WorkerFree
  /\ wpc[q] = "blocked"
  /\ ~MustWait(outstanding[q])
  /\ wpc' = [wpc EXCEPT ![q] = "sending"]
  /\ UNCHANGED <<adapter, boot, conn, toWorker, inbox, outstanding, size, sent,
                 asked, mainVars>>

\* The remaining rows (if any) are posted without waiting, then the stats and
\* 'done'; outstanding.delete(id) forgets the chunks still unacknowledged.
SendLast(q) ==
  /\ wpc[q] = "sending"
  /\ size[q] - sent[q] <= WorkerChunk
  /\ LET rest == IF sent[q] = size[q] THEN <<>>
                 ELSE <<[type |-> "json", lo |-> sent[q] + 1, hi |-> size[q]]>>
     IN Post(q, rest \o <<Note("query-stats", size[q]), Note("done", size[q])>>)
  /\ sent' = [sent EXCEPT ![q] = size[q]]
  /\ outstanding' = [outstanding EXCEPT ![q] = 0]
  /\ wpc' = [wpc EXCEPT ![q] = "finished"]
  /\ UNCHANGED <<adapter, boot, conn, toWorker, size, asked, mainVars>>

\* Serialising the last chunk throws (a string too long): the rows posted stay
\* posted.  Inside the loop a row that cannot be converted or a chunk that
\* cannot be serialised costs a placeholder row, which keeps its place.
SendFails(q) ==
  /\ wpc[q] = "sending"
  /\ sent[q] < size[q]
  /\ PostFailure(q)
  /\ UNCHANGED <<adapter, boot, conn, toWorker, size, sent, asked, mainVars>>

Credit(n) == IF n = 0 THEN 0 ELSE n - 1

HandleAck(q) ==
  /\ Take(q, "ack")
  /\ outstanding' = [outstanding EXCEPT ![q] = Credit(@)]
  /\ UNCHANGED <<adapter, inbox, boot, conn, wpc, size, sent, asked, mainVars>>

\* 'cancel' is answered and the run goes on.
HandleCancel(q) ==
  /\ Take(q, "cancel")
  /\ Post(q, <<Note("cancelled", sent[q])>>)
  /\ UNCHANGED <<adapter, workerVars, asked, mainVars>>

-----------------------------------------------------------------------------
EngineAnswers(q) == QueryReturns(q) \/ QueryThrows(q) \/ QueryFatal(q)
Sends(q) == SendChunk(q) \/ SendLast(q) \/ SendFails(q)
MainHandles(q) == HandleSchema(q) \/ HandleRows(q) \/ HandleStats(q)
                  \/ HandleDone(q) \/ HandleError(q)
WorkerHandles(q) == HandleRun(q) \/ HandleAck(q) \/ HandleCancel(q)
Boots == OpenConnection \/ FailInit \/ PostInited
Connects == HandleInited \/ HandleInitError

Next ==
  \/ Boots
  \/ Connects
  \/ HandleWorkerError
  \/ \E q \in Queries :
       \/ StartQuery(q) \/ Pull(q) \/ Abandon(q) \/ Cancel(q)
       \/ MainHandles(q) \/ WorkerHandles(q)
       \/ EngineAnswers(q) \/ ResetDone(q) \/ Sends(q) \/ Unblock(q)

Spec == Init /\ [][Next]_vars

\* The event loops run every task that is ready, and the engine answers.
\* Nothing makes the consumer call next() again.
Fairness ==
  /\ WF_vars(Boots) /\ WF_vars(Connects)
  /\ \A q \in Queries :
       /\ WF_vars(MainHandles(q)) /\ WF_vars(WorkerHandles(q))
       /\ WF_vars(EngineAnswers(q)) /\ WF_vars(ResetDone(q))
       /\ WF_vars(Sends(q)) /\ WF_vars(Unblock(q))

FairSpec == Spec /\ Fairness

-----------------------------------------------------------------------------
(* Properties. *)

\* The consumer is handed the rows of the result in order, each once, and
\* the rows that wait in the buffer are the next ones: what HandleRows splits
\* between the waiting generator and the next buffer is neither lost nor
\* doubled, whenever the consumer comes back for more.
RowsInOrder ==
  \A q \in Queries :
    delivered[q] \o buffer[q] = Rows(1, Len(delivered[q]) + Len(buffer[q]))

\* A generator that ends without an exception has yielded the whole result
\* (the loop condition, the race and the last flush in DuckDBConnector.query
\* leave nothing behind), even when a chunk failed or a cancel arrived late.
CompleteIsWhole ==
  \A q \in Queries :
    gen[q] \in {"ending", "completed"} => delivered[q] = Rows(1, size[q])

\* No lost wake-up: a generator that waits in its race has something to wait
\* for. The callbacks resolve it in the very step that fills the buffer, ends
\* the query or reports an error.
NoLostWakeup ==
  \A q \in Queries :
    gen[q] = "waiting" =>
      /\ ~done[q]
      /\ complete[q] = "pending"
      /\ Len(buffer[q]) < ChunkSize

\* 'done' closes the stream of a query: whatever order runs, failures and
\* cancels take in the worker, no rows, schema, stats or error come after it.
NothingAfterDone ==
  \A q \in Queries : \A i, j \in 1..Len(inbox[q]) :
    i < j /\ inbox[q][i].type = "done" => inbox[q][j].type = "cancelled"

\* The messages of a kind that are on their way to the main thread.
InFlight(q, t) ==
  Cardinality({i \in 1..Len(inbox[q]) : inbox[q][i].type = t})

\* What flow control really guarantees: at most one chunk more than
\* MAX_OUTSTANDING waits for the main thread, because the ACK of the schema
\* message, which was never counted, is credited to a data chunk.
InFlightBound ==
  \A q \in Queries : InFlight(q, "json") <= MaxOutstanding + 1

EngineLost == conn = "null" /\ adapter = "ready"

\* The script of the worker was not loaded.  Only the query that has started the
\* worker hears of it: runQuery starts no other while `this.worker` is set.
WorkerDead == boot = "dead"

\* Whom the code leaves without an answer: a query inside the engine when the
\* database is reset under it, and one that is posted to a dead worker.
Unanswered(q) ==
  \/ EngineLost /\ wpc[q] = "executing"
  \/ WorkerDead /\ gen[q] # "connecting"

\* Every query that was started ends with a 'done', although nothing makes the
\* consumer pull: ACKs are sent on receipt, so the worker never waits for the
\* consumer.  Excused are those that the code leaves unanswered.
EveryRunEnds ==
  \A q \in Queries : gen[q] = "waiting" ~> done[q] \/ Unanswered(q)

InNext(q) == gen[q] \in {"connecting", "waiting"}

\* A consumer that waits in next() gets a chunk, the end or an exception.  If the
\* worker cannot be started, the query that starts it gets the exception, and later
\* ones get one from a worker without a database; from a worker whose script was not
\* loaded they get nothing.
WaitEnds == \A q \in Queries : InNext(q) ~> ~InNext(q) \/ Unanswered(q)

\* What the consumer sees is a QueryStream: its status says how far next() got.
StatusOf(g) ==
  CASE g = "unused" -> "new"
    [] g = "completed" -> "complete"
    [] g = "failed" -> "failed"
    [] g = "abandoned" -> "left"
    [] OTHER -> "open"
StreamStatus == [q \in Queries |-> StatusOf(gen[q])]

Stream == INSTANCE QueryStream
            WITH result <- size, out <- delivered, status <- StreamStatus
ImplementsStream == Stream!Spec

\* The channel to the main thread: a consumer gets the rows of the result in
\* order, each once, and all of them if the generator ends without an exception.
StreamIsExact == RowsInOrder /\ CompleteIsWhole

\* Flow control counts what is unacknowledged, within its limits, and bounds what
\* waits for the main thread.
FlowControl == TypeOK /\ InFlightBound

\* Whoever waits is answered, and every query is, also when nobody waits.
StreamsEnd == EveryRunEnds /\ WaitEnds
=============================================================================
