---------------------------- MODULE QueryStream ----------------------------
(***************************************************************************)
(* What the consumer of a streamed query is promised, whatever carries the *)
(* rows: the rows of the engine's result in order, each once, all of them  *)
(* if the stream completes, and a prefix of them if it fails or is left.   *)
(***************************************************************************)
EXTENDS Integers, Sequences

CONSTANTS Queries,  \* the queries
          MaxRows   \* bound: the largest result

VARIABLES status,   \* per query: how far its stream is
          result,   \* per query: number of rows of the result
          out       \* per query: the rows handed to the consumer

vars == <<status, result, out>>

RowRange(a, b) == [i \in 1..(b - a + 1) |-> a + i - 1]

Init ==
  /\ status = [q \in Queries |-> "new"]
  /\ result = [q \in Queries |-> 0]
  /\ out = [q \in Queries |-> <<>>]

Open(q) ==
  /\ status[q] = "new"
  /\ status' = [status EXCEPT ![q] = "open"]
  /\ UNCHANGED <<result, out>>

\* The engine settles the result before any row of it is handed out.
Answer(q) ==
  /\ status[q] \notin {"new", "complete"}
  /\ out[q] = <<>>
  /\ \E n \in 0..MaxRows : result' = [result EXCEPT ![q] = n]
  /\ UNCHANGED <<status, out>>

\* The next rows, in order.
Deliver(q) ==
  /\ status[q] = "open"
  /\ \E n \in (Len(out[q]) + 1)..result[q] :
       out' = [out EXCEPT ![q] = @ \o RowRange(Len(@) + 1, n)]
  /\ UNCHANGED <<status, result>>

\* Only a whole result completes.
Complete(q) ==
  /\ status[q] = "open"
  /\ Len(out[q]) = result[q]
  /\ status' = [status EXCEPT ![q] = "complete"]
  /\ UNCHANGED <<result, out>>

Fail(q) ==
  /\ status[q] = "open"
  /\ status' = [status EXCEPT ![q] = "failed"]
  /\ UNCHANGED <<result, out>>

Leave(q) ==
  /\ status[q] = "open"
  /\ status' = [status EXCEPT ![q] = "left"]
  /\ UNCHANGED <<result, out>>

Next == \E q \in Queries :
          Open(q) \/ Answer(q) \/ Deliver(q) \/ Complete(q) \/ Fail(q)
          \/ Leave(q)

Spec == Init /\ [][Next]_vars
=============================================================================
