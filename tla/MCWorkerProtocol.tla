-------------------------- MODULE MCWorkerProtocol --------------------------
(* WorkerProtocol on two small instances: a query with a result larger than   *)
(* every window, by itself, and two queries with at most one row that share   *)
(* the worker, its connection and its boot.  And two calls of WorkerFiles   *)
(* in two milliseconds.  And the answer of a DuckDB server, which is decoded.  *)
(* part says which of them moves; in part "values" nothing does, and cell is   *)
(* one of the values that rows may bring to a cell.                           *)
EXTENDS WorkerProtocol

CONSTANTS q1, q2
VARIABLES
  part,
  worker, db, calls, handlers, requests, engine, answers, clock, performed, replaced, doubled, cell,
  message, decoded

TwoQueries == {q1, q2}

F == INSTANCE WorkerFiles WITH toWorker <- requests, Calls <- 1 .. 2, MaxTime <- 1

V == INSTANCE WorkerValues WITH Columns <- {"a", "b"}, Safe <- 3, FirstBatch <- 1
C == INSTANCE CellText WITH Ratio <- 10, Limit <- 5, MaxDigits <- 7, MaxItems <- 3
Y == INSTANCE TypeText
N == INSTANCE NestedValues WITH Exact <- 3, MaxDepth <- 4

\* Bytes of one bit and words of four, so that lengths of 2 and more take two bytes
\* and 8 is too large.
D == INSTANCE HttpDecoding WITH sent <- message, got <- decoded, Atoms <- {7},
       Numbers <- {-15, 7, 20, 31}, Safe <- 20, Blobs <- {<<>>, <<0, 171>>}, Times <- {0, 37259},
       Intervals <- {<<0, 0, 0>>, <<14, 2, 3725>>}, Fractions <- 10,
       Stamps <- {-15, 0, 25}, Thousand <- 10,
       MaxItems <- 2, MaxRows <- 2, ByteBits <- 1, WordBits <- 4,
       Types <- LET int == [kind |-> "data", bytes |-> 4, as |-> "int"]
                    list(t) == [kind |-> "list", of |-> t]
                    struct(a, b) == [kind |-> "struct", fields |-> <<a, b>>]
                IN {int, [int EXCEPT !.bytes = 8, !.as = "time"],
                    [int EXCEPT !.bytes = 16, !.as = "interval"],
                    [kind |-> "string"], list(int), list(list(int)),
                    struct(int, list([kind |-> "string"])), list(struct(int, int)),
                    [int EXCEPT !.bytes = 8, !.as = "bigint"],
                    [kind |-> "enum", bytes |-> 1], list([kind |-> "enum", bytes |-> 1]), [kind |-> "bytes"],
                    struct([kind |-> "bytes"], [kind |-> "decimal", digits |-> 9, scale |-> 1]),
                    [kind |-> "array", of |-> list(int), size |-> 2]}
                   \cup {[kind |-> "data", bytes |-> 8, as |-> "timestamp", unit |-> u] : u \in -1 .. 2}
                   \cup {[kind |-> "decimal", digits |-> n, scale |-> s] : n \in {4, 9, 18, 38}, s \in 0 .. 1}

filesVars == <<worker, db, calls, handlers, requests, engine, answers, clock,
               performed, replaced, doubled>>
answerVars == <<message, decoded>>

Small ==
  IF part = "two queries" THEN \A q \in Queries : size'[q] <= 1 ELSE gen'[q2] = "unused"

\* Rows of two columns, sent in the first batch or a later one; times on both sides of
\* 1970 and midnight, in zones from 11 hours west to 14 east; integers, counts, lists, types;
\* fields of BigQuery, lists of records among them.
CellInit ==
  \/ \E p, q \in V!Types, r \in 1 .. 2 : cell = <<"row", p, q, r>>
  \/ \E y \in C!Stamps \cup {"DATE"} : cell = <<"unit", y>>
  \/ \E y \in C!Settings, z \in {-11, 0, 14}, d \in {-8, 0, 11, 13} : cell = <<"stamp", y, z, d>>
  \/ \E z \in -11 .. 14 : cell = <<"wall", z>>
  \/ \E n \in {0, 59, 60, 3600, 86399}, d \in {0, 5, 50, 55} : cell = <<"time", n * 100 + d>>
  \/ \E y \in C!Integers10 : cell = <<"integer", y>>
  \/ \E n \in C!Counts : cell = <<"count", n>>
  \/ \E y \in C!Shapes : cell = <<"list", y>>
  \/ \E y \in Y!Types : cell = <<"type", y>>
  \/ \E y \in Y!Maps : cell = <<"map", y>>
  \/ \E f \in N!Fields : cell = <<"field", f>>
  \/ cell = <<"nested">>

MCInit ==
  /\ part \in {"one query", "two queries", "files", "values", "answer"}
  /\ Init /\ F!FilesInit /\ D!DecodeInit
  /\ part = "answer" \/ (message.type.kind = "string" /\ message.rows = << >> /\ ~message.fails)
  /\ IF part = "values" THEN CellInit ELSE cell = <<"nothing">>

MCNext ==
  /\ part' = part /\ cell' = cell
  /\ \/ part \in {"one query", "two queries"} /\ Next /\ Small /\ UNCHANGED <<filesVars, answerVars>>
     \/ part = "files" /\ F!FilesNext /\ UNCHANGED <<vars, answerVars>>
     \/ part = "answer" /\ D!Answered /\ UNCHANGED <<vars, filesVars>>

MCSpec ==
  /\ MCInit /\ [][MCNext]_<<vars, filesVars, answerVars, part, cell>>
  /\ Fairness /\ WF_filesVars(F!FilesProgress)

\* Whoever waits for a query or for a file is answered, and about a file with the
\* answer that is meant for the call.
CallsEnd == StreamsEnd /\ []F!OwnAnswer /\ F!FileCallsEnd

\* What the database has is what a cell says: a value keeps its digits, scale and sign on
\* its way through JSON; a number becomes the instant it stands for, and day, hour and
\* zone label tell this instant; integers, counts and lists lose nothing on the way to
\* their text; a column has the kind, the fields and the temporary type of its own type;
\* lists and records within each other keep every part, on the screen and in an export;
\* and the values of an answer are those the server has sent, whatever their nesting.
\* What the code is known to show otherwise is named in each part.
ShownAsStored ==
  /\ D!DecodedAsSent
  /\ LET Pair(x, y) == [c \in {"a", "b"} |-> IF c = "a" THEN x ELSE y]
     IN  CASE cell[1] = "row" ->
                \A x \in V!ValuesOf(cell[2]), y \in V!ValuesOf(cell[3]) :
                  V!SentAsStored(Pair(x, y), Pair(cell[2], cell[3]), cell[4])
           [] cell[1] = "unit" -> \A i \in -60 .. 60 : C!InstantFound(i, cell[2])
           [] cell[1] = "stamp" -> \A i \in -30 .. 30 : C!InstantShown(i, cell[2], cell[3], cell[4])
           [] cell[1] = "wall" -> \A i \in -30 .. 30 : C!WallShown(i, cell[2])
           [] cell[1] = "time" -> C!TimeShown(cell[2])
           [] cell[1] = "integer" -> C!IntegerShown(cell[2])
           [] cell[1] = "count" -> C!CountShown(cell[2])
           [] cell[1] = "list" -> \A x \in C!Lists : C!ListShown(x, cell[2])
           [] cell[1] = "type" ->
                /\ Y!KindFound(cell[2]) /\ Y!TableTypeRight(cell[2])
                /\ \A w \in Y!Writers : Y!FieldsFound(cell[2], w)
           [] cell[1] = "map" -> Y!FieldsFound(cell[2], "duckdb")
           [] cell[1] = "field" -> N!BigQueryShown(cell[2])
           [] cell[1] = "nested" -> N!BlobsGone /\ N!ReadOnce /\ N!ParquetAsStored /\ N!NumbersShown /\ N!BigIntsGone
           [] OTHER -> TRUE
=============================================================================
