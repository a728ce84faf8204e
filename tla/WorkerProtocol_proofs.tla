----------------------- MODULE WorkerProtocol_proofs -----------------------
(***************************************************************************)
(* Proofs about WorkerProtocol, for any set of queries, any result size    *)
(* and any values of the chunk sizes and of MAX_OUTSTANDING.               *)
(***************************************************************************)
EXTENDS WorkerProtocol, SequenceTheorems, WellFoundedInduction, FiniteSetTheorems, TLAPS

-----------------------------------------------------------------------------
(* The inductive invariant, by parts.  Each part is about one query.       *)

\* Rows received by the main thread.
Received(q) == Len(delivered[q]) + Len(buffer[q])

\* RowsInOrder, row by row.
InOrder(q) ==
  /\ \A i \in 1..Len(delivered[q]) : delivered[q][i] = i
  /\ \A i \in 1..Len(buffer[q]) : buffer[q][i] = Len(delivered[q]) + i

\* Messages that carry, one after the other, the rows after a up to b.
Chain(s, a, b) ==
  /\ s = <<>> => a = b
  /\ s # <<>> => s[1].lo = a + 1 /\ s[Len(s)].hi = b
  /\ \A i \in 1..Len(s) :
       /\ s[i].lo <= s[i].hi + 1
       /\ s[i].type # "json" => s[i].lo = s[i].hi + 1
  /\ \A i \in 1..(Len(s) - 1) : s[i + 1].lo = s[i].hi + 1

\* The channel carries the rows sent and not yet received.
Chained(q) == Chain(inbox[q], Received(q), sent[q])

\* A query is run once.
RunOnce(q) ==
  /\ gen[q] \in {"unused", "connecting"} =>
       /\ toWorker[q] = <<>> /\ inbox[q] = <<>> /\ wpc[q] = "idle"
       /\ buffer[q] = <<>> /\ complete[q] = "pending"
  /\ \A i \in 1..Len(toWorker[q]) :
       toWorker[q][i] = "run" => i = 1 /\ wpc[q] = "idle"

\* The worker's counters at each point of the 'run' handler.
Phase(q) ==
  /\ wpc[q] \in {"idle", "executing", "resetting"} =>
       sent[q] = 0 /\ size[q] = 0
  /\ wpc[q] \in {"idle", "executing"} => outstanding[q] = 0
  /\ wpc[q] = "sending" => outstanding[q] < MaxOutstanding
  /\ sent[q] <= size[q]

\* 'done' comes last, and after a report of what went wrong if rows are missing.
DoneLast(q) ==
  /\ \A i, j \in 1..Len(inbox[q]) :
       i < j /\ inbox[q][i].type = "done" => inbox[q][j].type = "cancelled"
  /\ \A i \in 1..Len(inbox[q]) :
       inbox[q][i].type = "done" => wpc[q] = "finished" /\ inbox[q][i].hi = sent[q]
  /\ done[q] => /\ wpc[q] = "finished"
                /\ Received(q) = sent[q]
                /\ \A i \in 1..Len(inbox[q]) : inbox[q][i].type = "cancelled"
  /\ wpc[q] = "finished" /\ sent[q] # size[q] =>
       \/ complete[q] = "rejected"
       \/ \E i \in 1..Len(inbox[q]) : inbox[q][i].type = "error"

\* The generator's flags.
Generator(q) ==
  /\ gen[q] = "waiting" =>
       ~done[q] /\ complete[q] = "pending" /\ Len(buffer[q]) < ChunkSize
  /\ complete[q] = "resolved" => done[q]
  /\ gen[q] \in {"ending", "completed"} =>
       buffer[q] = <<>> /\ done[q] /\ sent[q] = size[q]

Safe(q) == InOrder(q) /\ Chained(q) /\ RunOnce(q) /\ Phase(q) /\ DoneLast(q)
           /\ Generator(q)

IInv == TypeOK /\ \A q \in Queries : Safe(q)

-----------------------------------------------------------------------------
(* Facts about the sequences of rows. *)

LEMMA RowsFacts ==
  ASSUME NEW a \in Nat, NEW b \in Nat, a <= b + 1, 1 <= a
  PROVE  /\ Rows(a, b) \in Seq(Nat)
         /\ Len(Rows(a, b)) = b - a + 1
         /\ \A i \in 1..(b - a + 1) : Rows(a, b)[i] = a + i - 1
BY DEF Rows

\* The rows delivered, and those left in the buffer, when n rows are yielded.
Yielded(d, b, n) == d \o SubSeq(b, 1, n)
Left(b, n) == SubSeq(b, n + 1, Len(b))

\* Splitting a buffer at n loses nothing and keeps the order.
LEMMA SplitFacts ==
  ASSUME NEW d \in Seq(Nat), NEW b \in Seq(Nat),
         NEW n \in Nat, n <= Len(b),
         \A i \in 1..Len(d) : d[i] = i,
         \A i \in 1..Len(b) : b[i] = Len(d) + i
  PROVE  /\ Yielded(d, b, n) \in Seq(Nat) /\ Left(b, n) \in Seq(Nat)
         /\ Len(Yielded(d, b, n)) + Len(Left(b, n)) = Len(d) + Len(b)
         /\ Len(Left(b, n)) = Len(b) - n
         /\ \A i \in 1..Len(Yielded(d, b, n)) : Yielded(d, b, n)[i] = i
         /\ \A i \in 1..Len(Left(b, n)) :
              Left(b, n)[i] = Len(Yielded(d, b, n)) + i
<1> DEFINE x == SubSeq(b, 1, n)
           y == SubSeq(b, n + 1, Len(b))
<1>1. x \in Seq(Nat) /\ Len(x) = n /\ \A i \in 1..n : x[i] = b[i]
  OBVIOUS
<1>2. y \in Seq(Nat) /\ Len(y) = Len(b) - n
      /\ \A i \in 1..(Len(b) - n) : y[i] = b[n + i]
  OBVIOUS
<1>3. /\ d \o x \in Seq(Nat) /\ Len(d \o x) = Len(d) + n
      /\ \A i \in 1..(Len(d) + n) :
           (d \o x)[i] = IF i <= Len(d) THEN d[i] ELSE x[i - Len(d)]
  BY <1>1, ConcatProperties
<1> HIDE DEF x, y
<1>4. ASSUME NEW i \in 1..(Len(d) + n) PROVE (d \o x)[i] = i
  <2>0. Len(d) \in Nat /\ Len(b) \in Nat /\ i \in Int
    OBVIOUS
  <2>1. CASE i <= Len(d)
    BY <1>3, <2>1
  <2>2. CASE i > Len(d)
    <3>1. i - Len(d) \in 1..n /\ i - Len(d) \in 1..Len(b)
      BY <2>2
    <3>2. (d \o x)[i] = b[i - Len(d)]
      BY <1>1, <1>3, <2>2, <3>1
    <3> QED BY <3>1, <3>2
  <2>3. i <= Len(d) \/ i > Len(d)
    BY <2>0
  <2> QED BY <2>1, <2>2, <2>3
<1>5. \A i \in 1..Len(y) : y[i] = Len(d) + n + i
  BY <1>2
<1>6. Yielded(d, b, n) = d \o x /\ Left(b, n) = y
  BY DEF x, y, Yielded, Left
<1>7. Len(Yielded(d, b, n)) + Len(Left(b, n)) = Len(d) + Len(b)
  <2>1. Len(d) \in Nat /\ Len(b) \in Nat
    OBVIOUS
  <2>2. Len(Yielded(d, b, n)) = Len(d) + n /\ Len(Left(b, n)) = Len(b) - n
    BY <1>2, <1>3, <1>6
  <2>3. \A i, j \in Nat : (i + n) + (j - n) = i + j
    OBVIOUS
  <2> QED BY <2>1, <2>2, <2>3
<1> QED BY ZenonT(60), <1>1, <1>2, <1>3, <1>4, <1>5, <1>6, <1>7

\* The buffer when the rows lo..hi have been received.
Extended(b, lo, hi) == b \o Rows(lo, hi)

\* Appending the next rows to a buffer keeps the order.
LEMMA ExtendFacts ==
  ASSUME NEW k \in Nat, NEW b \in Seq(Nat),
         \A i \in 1..Len(b) : b[i] = k + i,
         NEW h \in Nat, k + Len(b) <= h
  PROVE  LET r == Extended(b, k + Len(b) + 1, h)
         IN /\ r \in Seq(Nat) /\ Len(r) = h - k
            /\ \A i \in 1..Len(r) : r[i] = k + i
<1> DEFINE x == Rows(k + Len(b) + 1, h)
<1>1. /\ x \in Seq(Nat) /\ Len(x) = h - k - Len(b)
      /\ \A i \in 1..Len(x) : x[i] = k + Len(b) + i
  <2>1. k + Len(b) + 1 \in Nat /\ k + Len(b) + 1 <= h + 1
        /\ 1 <= k + Len(b) + 1 /\ Len(b) \in Nat
    OBVIOUS
  <2>2. /\ x \in Seq(Nat) /\ Len(x) = h - (k + Len(b) + 1) + 1
        /\ \A i \in 1..(h - (k + Len(b) + 1) + 1) :
             x[i] = (k + Len(b) + 1) + i - 1
    BY <2>1, RowsFacts
  <2> HIDE DEF x
  <2> QED BY <2>1, <2>2
<1>2. /\ b \o x \in Seq(Nat) /\ Len(b \o x) = Len(b) + Len(x)
      /\ \A i \in 1..(Len(b) + Len(x)) :
           (b \o x)[i] = IF i <= Len(b) THEN b[i] ELSE x[i - Len(b)]
  BY <1>1, ConcatProperties
<1> HIDE DEF x
<1>3. \A i \in 1..(Len(b) + Len(x)) : (b \o x)[i] = k + i
  BY <1>1, <1>2
<1> QED BY <1>1, <1>2, <1>3 DEF x, Extended

-----------------------------------------------------------------------------
(* Types, and what sending and receiving do to the channels. *)

LEMMA Names ==
  /\ {"run", "ack", "cancel"} = Requests
  /\ {"none", "starting", "ready", "failed"} = AdapterStates
  /\ {"off", "init", "configuring", "inited", "error", "over", "dead"} = BootStates
  /\ {"null", "open"} = ConnStates
  /\ {"idle", "executing", "sending", "blocked", "resetting", "finished"}
       = RunStates
  /\ {"unused", "connecting", "waiting", "yielded", "ending", "completed",
      "failed", "abandoned"} = GenStates
  /\ {"pending", "resolved", "rejected"} = PromiseStates
BY DEF Requests, AdapterStates, BootStates, ConnStates, RunStates, GenStates,
       PromiseStates

LEMMA NoteFacts ==
  ASSUME NEW t \in MessageTypes, NEW n \in Nat
  PROVE  /\ Note(t, n) \in Message
         /\ Note(t, n).type = t /\ Note(t, n).lo = n + 1 /\ Note(t, n).hi = n
BY DEF Note, Message

\* The main thread posts a request.
LEMMA RequestFacts ==
  ASSUME toWorker \in [Queries -> Seq(Requests)], NEW q \in Queries,
         NEW r \in Requests,
         toWorker' = [toWorker EXCEPT ![q] = Append(@, r)]
  PROVE  /\ toWorker' \in [Queries -> Seq(Requests)]
         /\ \A p \in Queries \ {q} : toWorker'[p] = toWorker[p]
         /\ Len(toWorker'[q]) = Len(toWorker[q]) + 1
         /\ \A i \in 1..Len(toWorker[q]) : toWorker'[q][i] = toWorker[q][i]
         /\ toWorker'[q][Len(toWorker[q]) + 1] = r
<1>1. toWorker[q] \in Seq(Requests) /\ toWorker'[q] = Append(toWorker[q], r)
  OBVIOUS
<1>2. Append(toWorker[q], r) \in Seq(Requests)
  BY <1>1, AppendProperties
<1> QED BY <1>1, <1>2, AppendProperties

\* The worker takes one.
LEMMA TakeFacts ==
  ASSUME toWorker \in [Queries -> Seq(Requests)], NEW q \in Queries, NEW t,
         Take(q, t)
  PROVE  /\ toWorker' \in [Queries -> Seq(Requests)]
         /\ \A p \in Queries \ {q} : toWorker'[p] = toWorker[p]
         /\ toWorker[q] # <<>> /\ toWorker[q][1] = t
         /\ Len(toWorker'[q]) = Len(toWorker[q]) - 1
         /\ \A i \in 1..Len(toWorker'[q]) :
              toWorker'[q][i] = toWorker[q][i + 1]
<1>1. toWorker[q] \in Seq(Requests) /\ toWorker[q] # <<>>
      /\ toWorker'[q] = Tail(toWorker[q]) /\ Head(toWorker[q]) = t
  BY DEF Take
<1>2. Tail(toWorker[q]) \in Seq(Requests)
  BY <1>1
<1> QED BY <1>1, <1>2, HeadTailProperties DEF Take

\* The worker posts messages.
LEMMA PostFacts ==
  ASSUME inbox \in [Queries -> Seq(Message)], NEW q \in Queries,
         NEW msgs \in Seq(Message), Post(q, msgs)
  PROVE  /\ inbox' \in [Queries -> Seq(Message)]
         /\ \A p \in Queries \ {q} : inbox'[p] = inbox[p]
         /\ Len(inbox'[q]) = Len(inbox[q]) + Len(msgs)
         /\ \A i \in 1..Len(inbox'[q]) :
              inbox'[q][i] = IF i <= Len(inbox[q]) THEN inbox[q][i]
                             ELSE msgs[i - Len(inbox[q])]
<1>1. inbox[q] \in Seq(Message) /\ inbox'[q] = inbox[q] \o msgs
  BY DEF Post
<1>2. inbox[q] \o msgs \in Seq(Message)
  BY <1>1, ConcatProperties
<1> QED BY <1>1, <1>2, ConcatProperties DEF Post

\* The main thread receives one.
LEMMA ReceiveFacts ==
  ASSUME inbox \in [Queries -> Seq(Message)], NEW q \in Queries, NEW t,
         Receive(q, t)
  PROVE  /\ inbox' \in [Queries -> Seq(Message)]
         /\ \A p \in Queries \ {q} : inbox'[p] = inbox[p]
         /\ inbox[q] # <<>> /\ inbox[q][1].type = t /\ inbox[q][1] \in Message
         /\ Len(inbox'[q]) = Len(inbox[q]) - 1 /\ Len(inbox[q]) \in Nat \ {0}
         /\ \A i \in 1..Len(inbox'[q]) : inbox'[q][i] = inbox[q][i + 1]
<1>1. inbox[q] \in Seq(Message) /\ inbox[q] # <<>>
      /\ inbox'[q] = Tail(inbox[q]) /\ Head(inbox[q]).type = t
  BY DEF Receive
<1>2. Tail(inbox[q]) \in Seq(Message)
  BY <1>1
<1> QED BY <1>1, <1>2, HeadTailProperties DEF Receive

-----------------------------------------------------------------------------
(* Steps of one query leave the others alone. *)

LEMMA Frame ==
  ASSUME NEW p \in Queries, Safe(p),
         toWorker'[p] = toWorker[p], inbox'[p] = inbox[p], wpc'[p] = wpc[p],
         outstanding'[p] = outstanding[p], size'[p] = size[p],
         sent'[p] = sent[p], gen'[p] = gen[p], buffer'[p] = buffer[p],
         done'[p] = done[p], complete'[p] = complete[p],
         delivered'[p] = delivered[p]
  PROVE  Safe(p)'
<1>1. InOrder(p)'
  BY DEF Safe, InOrder
<1>2. Chained(p)'
  BY DEF Safe, Chained, Received
<1>3. RunOnce(p)'
  BY DEF Safe, RunOnce
<1>4. Phase(p)'
  BY DEF Safe, Phase
<1>5. DoneLast(p)'
  BY ZenonT(60) DEF Safe, DoneLast, Received
<1>6. Generator(p)'
  BY DEF Safe, Generator
<1> QED BY <1>1, <1>2, <1>3, <1>4, <1>5, <1>6 DEF Safe

-----------------------------------------------------------------------------
(* The chain of rows, when a message leaves or messages enter the channel. *)

LEMMA ChainTail ==
  ASSUME NEW s \in Seq(Message), s # <<>>, NEW a \in Nat, NEW b \in Nat,
         Chain(s, a, b)
  PROVE  /\ Chain(Tail(s), s[1].hi, b)
         /\ s[1].lo = a + 1 /\ s[1].hi \in Nat /\ a <= s[1].hi
         /\ s[1].type # "json" => s[1].hi = a
<1> DEFINE r == Tail(s)
<1>1. /\ r \in Seq(Message) /\ Len(r) = Len(s) - 1 /\ Len(s) \in Nat \ {0}
      /\ \A i \in 1..Len(r) : r[i] = s[i + 1]
  BY HeadTailProperties
<1>2. s[1] \in Message
  BY <1>1
<1>3. s[1].lo \in Nat /\ s[1].hi \in Nat
  BY <1>2 DEF Message
<1>4. /\ s[1].lo = a + 1 /\ s[1].lo <= s[1].hi + 1
      /\ s[1].type # "json" => s[1].lo = s[1].hi + 1
  BY <1>1 DEF Chain
<1> HIDE DEF r
<1>5. ASSUME Len(s) = 1 PROVE Chain(r, s[1].hi, b)
  <2>1. r = <<>> /\ Len(r) = 0
    BY <1>1, <1>5
  <2>2. s[1].hi = b
    BY <1>1, <1>5 DEF Chain
  <2> QED BY <2>1, <2>2 DEF Chain
<1>6. ASSUME Len(s) > 1 PROVE Chain(r, s[1].hi, b)
  <2>1. r # <<>> /\ r[1] = s[2] /\ r[Len(r)] = s[Len(s)]
    BY <1>1, <1>6
  <2>2. r[1].lo = s[1].hi + 1 /\ r[Len(r)].hi = b
    BY <1>1, <1>6, <2>1 DEF Chain
  <2>3. \A i \in 1..Len(r) :
          /\ r[i].lo <= r[i].hi + 1
          /\ r[i].type # "json" => r[i].lo = r[i].hi + 1
    BY <1>1 DEF Chain
  <2>4. \A i \in 1..(Len(r) - 1) : r[i + 1].lo = r[i].hi + 1
    BY <1>1, SMTT(40) DEF Chain
  <2> QED BY <2>1, <2>2, <2>3, <2>4 DEF Chain
<1>7. Chain(r, s[1].hi, b)
  BY <1>1, <1>5, <1>6
<1> QED BY <1>3, <1>4, <1>7 DEF r

LEMMA ChainConcat ==
  ASSUME NEW s \in Seq(Message), NEW m \in Seq(Message), m # <<>>,
         NEW a \in Nat, NEW b \in Nat, NEW c \in Nat,
         Chain(s, a, b), Chain(m, b, c)
  PROVE  Chain(s \o m, a, c)
<1> DEFINE r == s \o m
<1>1. /\ r \in Seq(Message) /\ Len(m) \in Nat \ {0} /\ Len(s) \in Nat
      /\ Len(r) = Len(s) + Len(m)
      /\ \A i \in 1..(Len(s) + Len(m)) :
           r[i] = IF i <= Len(s) THEN s[i] ELSE m[i - Len(s)]
  BY ConcatProperties
<1> HIDE DEF r
<1>2. \A i \in 1..Len(s) : r[i] = s[i]
  BY <1>1
<1>3. ASSUME NEW i \in 1..Len(m) PROVE r[Len(s) + i] = m[i]
  <2>1. Len(s) + i \in 1..(Len(s) + Len(m)) /\ ~(Len(s) + i <= Len(s))
        /\ (Len(s) + i) - Len(s) = i
    BY <1>1
  <2> QED BY <1>1, <2>1
<1>4. r # <<>> /\ r[Len(r)].hi = c
  <2>1. Len(m) \in 1..Len(m) /\ r # <<>>
    BY <1>1
  <2> QED BY <1>1, <1>3, <2>1 DEF Chain
<1>5. r[1].lo = a + 1
  <2>1. CASE s = <<>>
    <3>1. r[1] = m[1] /\ a = b
      BY <1>1, <1>3, <2>1 DEF Chain
    <3> QED BY <3>1 DEF Chain
  <2>2. CASE s # <<>>
    <3>1. r[1] = s[1]
      BY <1>1, <1>2, <2>2
    <3> QED BY <3>1, <2>2 DEF Chain
  <2> QED BY <2>1, <2>2
<1>6. ASSUME NEW i \in 1..Len(r)
      PROVE  /\ r[i].lo <= r[i].hi + 1
             /\ r[i].type # "json" => r[i].lo = r[i].hi + 1
  <2>1. CASE i <= Len(s)
    BY <1>1, <1>2, <2>1 DEF Chain
  <2>2. CASE i > Len(s)
    <3>1. i - Len(s) \in 1..Len(m) /\ r[i] = m[i - Len(s)]
      BY <1>1, <2>2
    <3> QED BY <3>1 DEF Chain
  <2> QED BY <1>1, <2>1, <2>2
<1>7. ASSUME NEW i \in 1..(Len(r) - 1) PROVE r[i + 1].lo = r[i].hi + 1
  <2>1. CASE i < Len(s)
    <3>1. i \in 1..(Len(s) - 1) /\ r[i] = s[i] /\ r[i + 1] = s[i + 1]
      BY <1>1, <1>2, <2>1
    <3> QED BY <3>1 DEF Chain
  <2>2. CASE i = Len(s)
    <3>1. r[i] = s[Len(s)] /\ r[i + 1] = m[1] /\ s # <<>>
      BY <1>1, <1>2, <1>3, <2>2
    <3> QED BY <3>1 DEF Chain
  <2>3. CASE i > Len(s)
    <3> DEFINE j == i - Len(s)
    <3>1. j \in 1..(Len(m) - 1) /\ i = Len(s) + j /\ i + 1 = Len(s) + (j + 1)
      BY <1>1, <2>3
    <3>2. r[i] = m[j] /\ r[i + 1] = m[j + 1]
      BY <1>1, <1>3, <3>1
    <3> QED BY <3>1, <3>2 DEF Chain
  <2> QED BY <1>1, <2>1, <2>2, <2>3
<1> QED BY <1>4, <1>5, <1>6, <1>7 DEF Chain, r

\* The main thread receives a message: the rows it carries are the next ones.
LEMMA ChainReceive ==
  ASSUME TypeOK, NEW q \in Queries, Chained(q), NEW t, Receive(q, t)
  PROVE  /\ Chain(inbox'[q], inbox[q][1].hi, sent[q])
         /\ inbox[q][1].lo = Received(q) + 1 /\ inbox[q][1].hi \in Nat
         /\ Received(q) <= inbox[q][1].hi
         /\ t # "json" => inbox[q][1].hi = Received(q)
<1>1. inbox[q] \in Seq(Message) /\ inbox[q] # <<>> /\ inbox'[q] = Tail(inbox[q])
      /\ inbox[q][1].type = t
  BY ReceiveFacts DEF TypeOK, Receive
<1>2. Received(q) \in Nat /\ sent[q] \in Nat
  BY ConstantsAssumption DEF TypeOK, Received
<1> QED BY <1>1, <1>2, ChainTail DEF Chained

\* The worker posts messages that carry the rows after sent[q] up to c.
LEMMA ChainPost ==
  ASSUME TypeOK, NEW q \in Queries, Chained(q), NEW m \in Seq(Message), m # <<>>,
         Post(q, m), NEW c \in Nat, Chain(m, sent[q], c)
  PROVE  Chain(inbox'[q], Received(q), c)
<1>1. inbox[q] \in Seq(Message) /\ inbox'[q] = inbox[q] \o m
  BY DEF TypeOK, Post
<1>2. Received(q) \in Nat /\ sent[q] \in Nat
  BY ConstantsAssumption DEF TypeOK, Received
<1> QED BY <1>1, <1>2, ChainConcat DEF Chained

-----------------------------------------------------------------------------
LEMMA InitIInv == Init => IInv
<1> SUFFICES ASSUME Init PROVE IInv
  OBVIOUS
<1>1. TypeOK
  BY Names, ConstantsAssumption DEF Init, TypeOK
<1>2. ASSUME NEW q \in Queries PROVE Safe(q)
  <2>1. /\ toWorker[q] = <<>> /\ inbox[q] = <<>> /\ buffer[q] = <<>>
        /\ delivered[q] = <<>> /\ wpc[q] = "idle" /\ gen[q] = "unused"
        /\ sent[q] = 0 /\ size[q] = 0 /\ outstanding[q] = 0
        /\ done[q] = FALSE /\ complete[q] = "pending"
    BY DEF Init
  <2>2. InOrder(q) /\ Chained(q)
    BY <2>1 DEF InOrder, Chained, Chain, Received
  <2>3. RunOnce(q) /\ Phase(q)
    BY <2>1 DEF RunOnce, Phase
  <2>4. DoneLast(q) /\ Generator(q)
    BY <2>1 DEF DoneLast, Generator
  <2> QED BY <2>2, <2>3, <2>4 DEF Safe
<1> QED BY <1>1, <1>2 DEF IInv

-----------------------------------------------------------------------------
(* The main thread's steps. *)

LEMMA StartQueryStep ==
  ASSUME IInv, NEW q \in Queries, StartQuery(q)
  PROVE  IInv'
<1>0. TypeOK /\ Safe(q)
  BY DEF IInv
<1>1. gen[q] = "unused" /\ toWorker[q] = <<>>
  BY <1>0 DEF StartQuery, Safe, RunOnce
<1>2. /\ gen' \in [Queries -> GenStates] /\ gen'[q] \in {"connecting", "waiting"}
      /\ \A p \in Queries \ {q} : gen'[p] = gen[p]
      /\ adapter' \in AdapterStates /\ boot' \in BootStates
  BY <1>0, Names DEF TypeOK, StartQuery
<1>3. /\ toWorker' \in [Queries -> Seq(Requests)]
      /\ \A p \in Queries \ {q} : toWorker'[p] = toWorker[p]
      /\ \/ gen'[q] = "connecting" /\ toWorker'[q] = <<>>
         \/ gen'[q] = "waiting" /\ Len(toWorker'[q]) = 1
  <2>1. CASE UNCHANGED toWorker /\ gen' = [gen EXCEPT ![q] = "connecting"]
    BY <1>0, <1>1, <2>1 DEF TypeOK
  <2>2. CASE /\ toWorker' = [toWorker EXCEPT ![q] = Append(@, "run")]
             /\ gen' = [gen EXCEPT ![q] = "waiting"]
    <3>1. "run" \in Requests
      BY Names
    <3> QED BY <1>0, <1>1, <2>2, <3>1, RequestFacts DEF TypeOK
  <2> QED BY <2>1, <2>2 DEF StartQuery
<1>4. UNCHANGED <<conn, inbox, wpc, outstanding, size, sent, buffer, schema,
                  done, complete, delivered, lastFlag, asked>>
  BY DEF StartQuery
<1>5. TypeOK'
  BY <1>0, <1>2, <1>3, <1>4 DEF TypeOK
<1>6. ASSUME NEW p \in Queries, p # q PROVE Safe(p)'
  BY <1>2, <1>3, <1>4, <1>6, Frame DEF IInv
<1>7. Safe(q)'
  <2>1. RunOnce(q)'
    BY <1>0, <1>1, <1>2, <1>3, <1>4 DEF Safe, RunOnce
  <2>2. Generator(q)'
    BY <1>0, <1>1, <1>2, <1>4, ConstantsAssumption
       DEF Safe, Generator, RunOnce, DoneLast
  <2> QED BY <1>0, <1>4, <2>1, <2>2
          DEF Safe, InOrder, Chained, Phase, DoneLast, Received
<1> QED BY <1>5, <1>6, <1>7 DEF IInv

\* The query that connected posts its 'run', or is told that it cannot.
LEMMA ConnectedSafe ==
  ASSUME TypeOK, NEW q \in Queries, Safe(q), gen[q] = "connecting",
         \/ gen'[q] = "waiting" /\ toWorker'[q] = Append(toWorker[q], "run")
         \/ gen'[q] = "failed" /\ toWorker'[q] = toWorker[q],
         UNCHANGED <<inbox, wpc, outstanding, size, sent, buffer, done,
                     complete, delivered>>
  PROVE  Safe(q)'
<1>1. toWorker[q] = <<>> /\ inbox[q] = <<>> /\ wpc[q] = "idle"
      /\ buffer[q] = <<>> /\ complete[q] = "pending"
  BY DEF Safe, RunOnce
<1>2. \A i \in 1..Len(toWorker'[q]) : i = 1
  <2>1. toWorker'[q] = <<"run">> \/ toWorker'[q] = <<>>
    BY <1>1
  <2>2. CASE toWorker'[q] = <<"run">>
    BY <2>2
  <2>3. CASE toWorker'[q] = <<>>
    BY <2>3
  <2> QED BY <2>1, <2>2, <2>3
<1>3. RunOnce(q)'
  BY <1>1, <1>2 DEF RunOnce
<1>4. Generator(q)'
  BY <1>1, ConstantsAssumption DEF Safe, Generator, DoneLast
<1> QED BY <1>3, <1>4 DEF Safe, InOrder, Chained, Phase, DoneLast, Received

LEMMA HandleInitedStep == IInv /\ HandleInited => IInv'
<1> SUFFICES ASSUME IInv, HandleInited PROVE IInv'
  OBVIOUS
<1>0. TypeOK
  BY DEF IInv
<1>1. UNCHANGED <<conn, inbox, wpc, outstanding, size, sent, buffer, schema,
                  done, complete, delivered, lastFlag, asked>>
      /\ adapter' = "ready" /\ boot' = "over"
  BY DEF HandleInited
<1>2. gen' \in [Queries -> GenStates]
  BY <1>0, Names DEF TypeOK, HandleInited
<1>3. toWorker' \in [Queries -> Seq(Requests)]
  <2>1. "run" \in Requests
    BY Names
  <2>2. \A q \in Queries : Append(toWorker[q], "run") \in Seq(Requests)
    BY <1>0, <2>1, AppendProperties DEF TypeOK
  <2> QED BY <1>0, <2>2 DEF TypeOK, HandleInited
<1>4. TypeOK'
  BY <1>0, <1>1, <1>2, <1>3, Names DEF TypeOK
<1>5. ASSUME NEW q \in Queries PROVE Safe(q)'
  <2>1. CASE gen[q] = "connecting"
    BY <1>0, <1>1, <2>1, ConnectedSafe DEF IInv, HandleInited
  <2>2. CASE gen[q] # "connecting"
    BY <1>1, <2>2, Frame DEF IInv, HandleInited
  <2> QED BY <2>1, <2>2
<1> QED BY <1>4, <1>5 DEF IInv

\* The two ways in which the start of the worker fails.
Rejects == HandleInitError \/ HandleWorkerError

LEMMA RejectsStep == IInv /\ Rejects => IInv'
<1> SUFFICES ASSUME IInv, Rejects PROVE IInv'
  OBVIOUS
<1>0. TypeOK
  BY DEF IInv
<1>1. UNCHANGED <<conn, toWorker, inbox, wpc, outstanding, size, sent, buffer,
                  schema, done, complete, delivered, lastFlag, asked>>
      /\ adapter' = "failed" /\ boot' \in {"over", "dead"}
  BY DEF Rejects, HandleInitError, HandleWorkerError, RejectInit
<1>2. gen' \in [Queries -> GenStates]
  BY <1>0, Names DEF TypeOK, Rejects, HandleInitError,
       HandleWorkerError, RejectInit
<1>3. TypeOK'
  BY <1>0, <1>1, <1>2, Names DEF TypeOK
<1>4. ASSUME NEW q \in Queries PROVE Safe(q)'
  <2>1. CASE gen[q] = "connecting"
    BY <1>0, <1>1, <2>1, ConnectedSafe DEF IInv, Rejects, HandleInitError,
       HandleWorkerError, RejectInit
  <2>2. CASE gen[q] # "connecting"
    BY <1>1, <2>2, Frame DEF IInv, Rejects, HandleInitError,
       HandleWorkerError, RejectInit
  <2> QED BY <2>1, <2>2
<1> QED BY <1>3, <1>4 DEF IInv

\* What the generator yields from its buffer are the next rows.
LEMMA YieldFacts ==
  ASSUME TypeOK, NEW q \in Queries, InOrder(q), NEW n \in Nat,
         n <= Len(buffer[q]),
         NEW flag \in BOOLEAN, Yield(q, n, flag)
  PROVE  /\ InOrder(q)' /\ Received(q)' = Received(q)
         /\ Len(buffer'[q]) = Len(buffer[q]) - n
         /\ gen' \in [Queries -> GenStates] /\ gen'[q] = "yielded"
         /\ buffer' \in [Queries -> Seq(Nat)]
         /\ delivered' \in [Queries -> Seq(Nat)]
         /\ lastFlag' \in [Queries -> BOOLEAN]
         /\ \A p \in Queries \ {q} : gen'[p] = gen[p] /\ buffer'[p] = buffer[p]
                                     /\ delivered'[p] = delivered[p]
<1> DEFINE d2 == Yielded(delivered[q], buffer[q], n)
           b2 == Left(buffer[q], n)
<1>1. delivered[q] \in Seq(Nat) /\ buffer[q] \in Seq(Nat)
  BY DEF TypeOK
<1>2. /\ d2 \in Seq(Nat) /\ b2 \in Seq(Nat)
      /\ Len(d2) + Len(b2) = Len(delivered[q]) + Len(buffer[q])
      /\ Len(b2) = Len(buffer[q]) - n
      /\ \A i \in 1..Len(d2) : d2[i] = i
      /\ \A i \in 1..Len(b2) : b2[i] = Len(d2) + i
  BY ZenonT(60), <1>1, SplitFacts DEF InOrder
<1>3. delivered' = [delivered EXCEPT ![q] = d2]
      /\ buffer' = [buffer EXCEPT ![q] = b2]
      /\ lastFlag' = [lastFlag EXCEPT ![q] = flag]
      /\ gen' = [gen EXCEPT ![q] = "yielded"]
  BY DEF Yield, Yielded, Left
<1> HIDE DEF d2, b2
<1>4. delivered'[q] = d2 /\ buffer'[q] = b2
  BY <1>3 DEF TypeOK
<1>5. InOrder(q)'
  BY <1>2, <1>4 DEF InOrder
<1>6. Received(q)' = Received(q) /\ Len(buffer[q])' = Len(buffer[q]) - n
  BY <1>2, <1>4 DEF Received
<1>7. delivered' \in [Queries -> Seq(Nat)] /\ buffer' \in [Queries -> Seq(Nat)]
  BY <1>2, <1>3 DEF TypeOK
<1>8. gen' \in [Queries -> GenStates] /\ lastFlag' \in [Queries -> BOOLEAN]
  BY <1>3, Names DEF TypeOK
<1> QED BY <1>3, <1>5, <1>6, <1>7, <1>8 DEF TypeOK

\* Going on without a yield.
LEMMA GoToFacts ==
  ASSUME TypeOK, NEW q \in Queries, NEW g \in GenStates, GoTo(q, g)
  PROVE  /\ InOrder(q) => InOrder(q)'
         /\ Received(q)' = Received(q)
         /\ gen' \in [Queries -> GenStates] /\ gen'[q] = g
         /\ UNCHANGED <<buffer, delivered, lastFlag>>
         /\ \A p \in Queries \ {q} : gen'[p] = gen[p]
<1>1. UNCHANGED <<buffer, delivered, lastFlag>> /\ gen' = [gen EXCEPT ![q] = g]
  BY DEF GoTo
<1>2. InOrder(q) => InOrder(q)'
  BY <1>1 DEF InOrder
<1> QED BY <1>1, <1>2 DEF TypeOK, Received

\* The end of the generator's loop: by then the channel holds no rows, and if
\* some are missing an error has been reported.
LEMMA FinishFacts ==
  ASSUME TypeOK, NEW q \in Queries, Safe(q), Finish(q), buffer[q] = <<>>,
         wpc[q] = "finished", complete[q] # "rejected" => sent[q] = size[q]
  PROVE  /\ InOrder(q)' /\ Received(q)' = Received(q)
         /\ gen' \in [Queries -> GenStates]
         /\ UNCHANGED <<buffer, delivered>>
         /\ lastFlag' \in [Queries -> BOOLEAN]
         /\ \A p \in Queries \ {q} : gen'[p] = gen[p]
         /\ \/ gen'[q] = "failed"
            \/ gen'[q] \in {"ending", "completed"} /\ sent[q] = size[q]
<1>1. UNCHANGED <<buffer, delivered>>
      /\ lastFlag' \in [Queries -> BOOLEAN]
  BY DEF Finish, GoTo, TypeOK
<1>2. PICK g \in {"failed", "ending", "completed"} :
        /\ gen' = [gen EXCEPT ![q] = g]
        /\ g = "failed" \/ sent[q] = size[q]
  BY DEF Finish, GoTo
<1>3. gen' \in [Queries -> GenStates] /\ gen'[q] = g
      /\ \A p \in Queries \ {q} : gen'[p] = gen[p]
  BY <1>2, Names DEF TypeOK
<1>4. InOrder(q)' /\ Received(q)' = Received(q)
  BY <1>1 DEF Safe, InOrder, Received
<1> QED BY <1>1, <1>2, <1>3, <1>4

\* A move of the generator keeps what is not about the generator.
LEMMA MoveSafe ==
  ASSUME TypeOK, NEW q \in Queries, Safe(q), InOrder(q)',
         Received(q)' = Received(q), Generator(q)',
         gen[q] \notin {"unused", "connecting"},
         gen'[q] \notin {"unused", "connecting"},
         UNCHANGED <<toWorker, inbox, wpc, outstanding, size, sent, done,
                     complete>>
  PROVE  Safe(q)'
<1>1. Chained(q)'
  BY DEF Safe, Chained
<1>2. RunOnce(q)'
  BY DEF Safe, RunOnce
<1>3. Phase(q)'
  BY DEF Safe, Phase
<1>4. DoneLast(q)'
  BY DEF Safe, DoneLast
<1> QED BY <1>1, <1>2, <1>3, <1>4 DEF Safe

LEMMA PullStep ==
  ASSUME IInv, NEW q \in Queries, Pull(q)
  PROVE  IInv'
<1>0. TypeOK /\ Safe(q) /\ InOrder(q) /\ Generator(q)
  BY DEF IInv, Safe
<1>1. UNCHANGED <<adapter, boot, conn, toWorker, inbox, wpc, outstanding, size,
                  sent, schema, done, complete, asked>>
      /\ gen[q] \in {"yielded", "ending"}
  BY DEF Pull
<1>t. gen \in [Queries -> GenStates] /\ buffer \in [Queries -> Seq(Nat)]
      /\ delivered \in [Queries -> Seq(Nat)] /\ lastFlag \in [Queries -> BOOLEAN]
  BY <1>0 DEF TypeOK
<1> DEFINE Goal == /\ InOrder(q)' /\ Received(q)' = Received(q)
                   /\ gen' \in [Queries -> GenStates]
                   /\ buffer' \in [Queries -> Seq(Nat)]
                   /\ delivered' \in [Queries -> Seq(Nat)]
                   /\ lastFlag' \in [Queries -> BOOLEAN]
                   /\ \A p \in Queries \ {q} :
                        /\ gen'[p] = gen[p] /\ buffer'[p] = buffer[p]
                        /\ delivered'[p] = delivered[p]
                   /\ Generator(q)'
                   /\ gen'[q] \notin {"unused", "connecting"}
<1>2. ASSUME NEW n \in Nat, n <= Len(buffer[q]), NEW flag \in BOOLEAN,
             Yield(q, n, flag)
      PROVE  Goal
  <2>1. gen'[q] = "yielded"
    BY <1>0, <1>2, YieldFacts
  <2>2. Generator(q)'
    BY <1>0, <1>1, <2>1 DEF Generator
  <2> QED BY <1>0, <1>2, <2>1, <2>2, YieldFacts
<1>3. ASSUME gen[q] = "yielded", Len(buffer[q]) < ChunkSize, ~done[q],
             GoTo(q, IF complete[q] = "rejected" THEN "failed" ELSE "waiting")
      PROVE  Goal
  <2>1. PICK g \in {"failed", "waiting"} :
          GoTo(q, g) /\ (g = "waiting" => complete[q] # "rejected")
    BY <1>3
  <2>2. g \in GenStates
    BY Names
  <2>3. gen'[q] = g /\ UNCHANGED buffer
    BY <1>0, <2>1, <2>2, GoToFacts
  <2>4. complete[q] \in {"pending", "resolved", "rejected"}
    BY <1>0, Names DEF TypeOK
  <2>5. Generator(q)'
    BY <1>0, <1>1, <1>3, <2>1, <2>3, <2>4 DEF Generator
  <2>6. /\ InOrder(q)' /\ Received(q)' = Received(q)
        /\ gen' \in [Queries -> GenStates]
        /\ UNCHANGED <<buffer, delivered, lastFlag>>
        /\ \A p \in Queries \ {q} : gen'[p] = gen[p]
    BY <1>0, <2>1, <2>2, GoToFacts
  <2> QED BY <1>t, <2>1, <2>3, <2>5, <2>6
<1>4. ASSUME gen[q] = "yielded", buffer[q] = <<>>, done[q], Finish(q)
      PROVE  Goal
  <2>1. wpc[q] = "finished" /\ (complete[q] # "rejected" => sent[q] = size[q])
    BY <1>0, <1>4 DEF Safe, DoneLast
  <2>2. \/ gen'[q] = "failed"
        \/ gen'[q] \in {"ending", "completed"} /\ sent[q] = size[q]
    BY <1>0, <1>4, <2>1, FinishFacts
  <2>3. UNCHANGED <<buffer, delivered>>
    BY <1>0, <1>4, <2>1, FinishFacts
  <2>4. Generator(q)'
    BY <1>0, <1>1, <1>4, <2>2, <2>3 DEF Generator
  <2>5. /\ InOrder(q)' /\ Received(q)' = Received(q)
        /\ gen' \in [Queries -> GenStates]
        /\ lastFlag' \in [Queries -> BOOLEAN]
        /\ \A p \in Queries \ {q} : gen'[p] = gen[p]
    BY <1>0, <1>4, <2>1, FinishFacts
  <2> QED BY <1>t, <2>2, <2>3, <2>4, <2>5
<1>5. ASSUME gen[q] = "ending", GoTo(q, "completed")
      PROVE  Goal
  <2>1. "completed" \in GenStates
    BY Names
  <2>2. gen'[q] = "completed" /\ UNCHANGED buffer
    BY <1>0, <1>5, <2>1, GoToFacts
  <2>3. Generator(q)'
    BY <1>0, <1>1, <1>5, <2>2 DEF Generator
  <2>4. /\ InOrder(q)' /\ Received(q)' = Received(q)
        /\ gen' \in [Queries -> GenStates]
        /\ UNCHANGED <<buffer, delivered, lastFlag>>
        /\ \A p \in Queries \ {q} : gen'[p] = gen[p]
    BY <1>0, <1>5, <2>1, GoToFacts
  <2> QED BY <1>t, <2>2, <2>3, <2>4
<1>6. Goal
  <2>1. Len(buffer[q]) \in Nat /\ Len(buffer[q]) <= Len(buffer[q])
        /\ TRUE \in BOOLEAN /\ FALSE \in BOOLEAN
    BY <1>0 DEF TypeOK
  <2> HIDE DEF Goal
  <2>2. CASE Yield(q, Len(buffer[q]), FALSE) \/ Yield(q, Len(buffer[q]), TRUE)
    BY <1>2, <2>1, <2>2
  <2> QED BY <1>3, <1>4, <1>5, <2>2 DEF Pull
<1>7. TypeOK'
  BY <1>0, <1>1, <1>6 DEF TypeOK
<1>8. ASSUME NEW p \in Queries, p # q PROVE Safe(p)'
  BY <1>1, <1>6, <1>8, Frame DEF IInv
<1>9. Safe(q)'
  BY <1>0, <1>1, <1>6, MoveSafe
<1> QED BY <1>7, <1>8, <1>9 DEF IInv

LEMMA AbandonStep ==
  ASSUME IInv, NEW q \in Queries, Abandon(q)
  PROVE  IInv'
<1>0. TypeOK /\ Safe(q) /\ InOrder(q) /\ Generator(q)
  BY DEF IInv, Safe
<1>1. UNCHANGED <<adapter, boot, conn, toWorker, inbox, wpc, outstanding, size,
                  sent, schema, done, complete, asked>>
      /\ gen[q] \in {"yielded", "ending"} /\ GoTo(q, "abandoned")
  BY DEF Abandon
<1>2. "abandoned" \in GenStates
  BY Names
<1>3. /\ InOrder(q)' /\ Received(q)' = Received(q)
      /\ gen' \in [Queries -> GenStates] /\ gen'[q] = "abandoned"
      /\ UNCHANGED <<buffer, delivered, lastFlag>>
      /\ \A p \in Queries \ {q} : gen'[p] = gen[p]
  BY <1>0, <1>1, <1>2, GoToFacts
<1>4. TypeOK'
  BY <1>0, <1>1, <1>3 DEF TypeOK
<1>5. ASSUME NEW p \in Queries, p # q PROVE Safe(p)'
  BY <1>1, <1>3, <1>5, Frame DEF IInv
<1>6. Generator(q)'
  BY <1>0, <1>1, <1>3 DEF Generator
<1>7. Safe(q)'
  BY <1>0, <1>1, <1>3, <1>6, MoveSafe
<1> QED BY <1>4, <1>5, <1>7 DEF IInv

\* A request other than 'run' leaves the query as it is.
LEMMA RequestSafe ==
  ASSUME TypeOK, NEW q \in Queries, Safe(q), NEW r \in {"ack", "cancel"},
         toWorker' = [toWorker EXCEPT ![q] = Append(@, r)]
  PROVE  /\ toWorker' \in [Queries -> Seq(Requests)]
         /\ \A p \in Queries \ {q} : toWorker'[p] = toWorker[p]
         /\ \A i \in 1..Len(toWorker'[q]) :
              toWorker'[q][i] = "run" => i = 1 /\ wpc[q] = "idle"
<1>1. toWorker \in [Queries -> Seq(Requests)] /\ r \in Requests
  BY Names DEF TypeOK
<1>2. /\ toWorker' \in [Queries -> Seq(Requests)]
      /\ \A p \in Queries \ {q} : toWorker'[p] = toWorker[p]
      /\ Len(toWorker'[q]) = Len(toWorker[q]) + 1
      /\ \A i \in 1..Len(toWorker[q]) : toWorker'[q][i] = toWorker[q][i]
      /\ toWorker'[q][Len(toWorker[q]) + 1] = r
  BY <1>1, RequestFacts
<1>3. \A i \in 1..Len(toWorker[q]) :
        toWorker[q][i] = "run" => i = 1 /\ wpc[q] = "idle"
  BY DEF Safe, RunOnce
<1>4. Len(toWorker[q]) \in Nat
  BY <1>1
<1>5. ASSUME NEW i \in 1..Len(toWorker'[q]), toWorker'[q][i] = "run"
      PROVE  i = 1 /\ wpc[q] = "idle"
  <2>1. i # Len(toWorker[q]) + 1
    BY <1>2, <1>5
  <2>2. i \in 1..Len(toWorker[q])
    BY <1>2, <1>4, <2>1
  <2> QED BY <1>2, <1>3, <1>5, <2>2
<1> QED BY <1>2, <1>5

LEMMA CancelStep ==
  ASSUME IInv, NEW q \in Queries, Cancel(q)
  PROVE  IInv'
<1>0. TypeOK /\ Safe(q)
  BY DEF IInv
<1>1. UNCHANGED <<adapter, inbox, boot, conn, wpc, outstanding, size, sent, gen,
                  buffer, schema, done, complete, delivered, lastFlag>>
      /\ gen[q] \notin {"unused", "connecting"}
      /\ asked' \in [Queries -> BOOLEAN]
  BY <1>0 DEF Cancel, workerVars, mainVars, TypeOK
<1>2. /\ toWorker' \in [Queries -> Seq(Requests)]
      /\ \A p \in Queries \ {q} : toWorker'[p] = toWorker[p]
      /\ \A i \in 1..Len(toWorker'[q]) :
           toWorker'[q][i] = "run" => i = 1 /\ wpc[q] = "idle"
  BY <1>0, RequestSafe DEF Cancel
<1>3. TypeOK'
  BY <1>0, <1>1, <1>2 DEF TypeOK
<1>4. ASSUME NEW p \in Queries, p # q PROVE Safe(p)'
  BY <1>1, <1>2, <1>4, Frame DEF IInv
<1>5. RunOnce(q)'
  BY <1>1, <1>2 DEF RunOnce
<1>6. Safe(q)'
  BY <1>0, <1>1, <1>5
     DEF Safe, InOrder, Chained, Phase, DoneLast, Generator, Received
<1> QED BY <1>3, <1>4, <1>6 DEF IInv

\* What the messages that stay in the channel say when one is received.
LEMMA ReceiveKeeps ==
  ASSUME TypeOK, NEW q \in Queries, Safe(q), NEW t, Receive(q, t)
  PROVE  /\ gen[q] \notin {"unused", "connecting"}
         /\ t # "cancelled" => ~done[q]
         /\ \A i, j \in 1..Len(inbox'[q]) :
              i < j /\ inbox'[q][i].type = "done"
                => inbox'[q][j].type = "cancelled"
         /\ \A i \in 1..Len(inbox'[q]) :
              inbox'[q][i].type = "done"
                => wpc[q] = "finished" /\ inbox'[q][i].hi = sent[q]
         /\ done[q] =>
              \A i \in 1..Len(inbox'[q]) : inbox'[q][i].type = "cancelled"
         /\ t = "done" =>
              /\ wpc[q] = "finished" /\ inbox[q][1].hi = sent[q]
              /\ \A i \in 1..Len(inbox'[q]) : inbox'[q][i].type = "cancelled"
              /\ complete[q] # "rejected" => sent[q] = size[q]
         /\ t # "error" /\ (\E i \in 1..Len(inbox[q]) : inbox[q][i].type = "error")
              => \E i \in 1..Len(inbox'[q]) : inbox'[q][i].type = "error"
<1> DEFINE s == inbox[q]
           r == inbox'[q]
<1>1. /\ s # <<>> /\ s[1].type = t
      /\ Len(r) = Len(s) - 1 /\ Len(s) \in Nat \ {0}
      /\ \A i \in 1..Len(r) : r[i] = s[i + 1]
  BY ReceiveFacts DEF TypeOK
<1>2. gen[q] \notin {"unused", "connecting"}
  BY <1>1 DEF Safe, RunOnce
<1>3. /\ \A i, j \in 1..Len(s) :
           i < j /\ s[i].type = "done" => s[j].type = "cancelled"
      /\ \A i \in 1..Len(s) :
           s[i].type = "done" => wpc[q] = "finished" /\ s[i].hi = sent[q]
      /\ done[q] => \A i \in 1..Len(s) : s[i].type = "cancelled"
      /\ wpc[q] = "finished" /\ sent[q] # size[q] =>
           \/ complete[q] = "rejected"
           \/ \E i \in 1..Len(s) : s[i].type = "error"
  BY DEF Safe, DoneLast
<1> HIDE DEF s, r
<1>4. /\ \A i \in 1..Len(r) : i + 1 \in 1..Len(s) /\ r[i] = s[i + 1]
      /\ 1 \in 1..Len(s) /\ \A i \in 1..Len(r) : 1 < i + 1
  BY <1>1
<1>5. t # "cancelled" => ~done[q]
  BY <1>1, <1>3, <1>4
<1>6. ASSUME NEW i \in 1..Len(r), NEW j \in 1..Len(r), i < j,
             r[i].type = "done"
      PROVE  r[j].type = "cancelled"
  <2>1. i + 1 < j + 1
    BY <1>6
  <2> QED BY <1>3, <1>4, <1>6, <2>1
<1>7. \A i \in 1..Len(r) :
        r[i].type = "done" => wpc[q] = "finished" /\ r[i].hi = sent[q]
  BY <1>3, <1>4
<1>8. done[q] => \A i \in 1..Len(r) : r[i].type = "cancelled"
  BY <1>3, <1>4
<1>9. ASSUME t = "done"
      PROVE  /\ wpc[q] = "finished" /\ s[1].hi = sent[q]
             /\ \A i \in 1..Len(r) : r[i].type = "cancelled"
             /\ complete[q] # "rejected" => sent[q] = size[q]
  <2>1. wpc[q] = "finished" /\ s[1].hi = sent[q]
    BY <1>1, <1>3, <1>4, <1>9
  <2>2. \A i \in 1..Len(r) : r[i].type = "cancelled"
    BY <1>1, <1>3, <1>4, <1>9
  <2>3. \A i \in 1..Len(s) : i = 1 \/ i - 1 \in 1..Len(r)
    BY <1>1
  <2>4. \A i \in 1..Len(s) : s[i].type # "error"
    <3>1. ASSUME NEW i \in 1..Len(s), i # 1 PROVE s[i].type = "cancelled"
      <4>1. 1 < i
        BY <3>1
      <4> QED BY <1>1, <1>3, <1>4, <1>9, <4>1
    <3> QED BY <1>1, <1>9, <3>1
  <2> QED BY <1>3, <2>1, <2>2, <2>4
<1>10. ASSUME t # "error", NEW i \in 1..Len(s), s[i].type = "error"
       PROVE  \E k \in 1..Len(r) : r[k].type = "error"
  <2>1. i # 1
    BY <1>1, <1>10
  <2>2. i - 1 \in 1..Len(r) /\ (i - 1) + 1 = i
    BY <1>1, <2>1
  <2> QED BY <1>4, <1>10, <2>2
<1> QED BY <1>2, <1>5, <1>6, <1>7, <1>8, <1>9, <1>10 DEF s, r

\* A message without rows that does not touch the generator's flags.
LEMMA PlainReceiveSafe ==
  ASSUME TypeOK, NEW q \in Queries, Safe(q), NEW t, t \notin {"json", "error"},
         Receive(q, t),
         \A i \in 1..Len(toWorker'[q]) :
           toWorker'[q][i] = "run" => i = 1 /\ wpc[q] = "idle",
         UNCHANGED <<wpc, outstanding, size, sent, gen, buffer, done, complete,
                     delivered>>
  PROVE  Safe(q)'
<1>1. /\ gen[q] \notin {"unused", "connecting"}
      /\ \A i, j \in 1..Len(inbox'[q]) :
           i < j /\ inbox'[q][i].type = "done" => inbox'[q][j].type = "cancelled"
      /\ \A i \in 1..Len(inbox'[q]) :
           inbox'[q][i].type = "done"
             => wpc[q] = "finished" /\ inbox'[q][i].hi = sent[q]
      /\ done[q] => \A i \in 1..Len(inbox'[q]) : inbox'[q][i].type = "cancelled"
      /\ (\E i \in 1..Len(inbox[q]) : inbox[q][i].type = "error")
           => \E i \in 1..Len(inbox'[q]) : inbox'[q][i].type = "error"
  BY ReceiveKeeps
<1>2. Chained(q)
  BY DEF Safe
<1>3. Chain(inbox'[q], inbox[q][1].hi, sent[q]) /\ inbox[q][1].hi = Received(q)
  BY <1>2, ChainReceive
<1>4. Received(q)' = Received(q)
  BY DEF Received
<1>5. Chained(q)'
  BY <1>3, <1>4 DEF Chained
<1>6. DoneLast(q)'
  BY <1>1, <1>4 DEF Safe, DoneLast
<1>7. RunOnce(q)'
  BY <1>1 DEF RunOnce
<1> QED BY <1>5, <1>6, <1>7 DEF Safe, InOrder, Phase, Generator

LEMMA HandleSchemaStep ==
  ASSUME IInv, NEW q \in Queries, HandleSchema(q)
  PROVE  IInv'
<1>0. TypeOK /\ Safe(q)
  BY DEF IInv
<1>1. UNCHANGED <<adapter, boot, conn, wpc, outstanding, size, sent, gen,
                  buffer, done, complete, delivered, lastFlag, asked>>
      /\ schema' \in [Queries -> BOOLEAN] /\ Receive(q, "json-schema")
  BY <1>0 DEF HandleSchema, workerVars, TypeOK
<1>2. /\ toWorker' \in [Queries -> Seq(Requests)]
      /\ \A p \in Queries \ {q} : toWorker'[p] = toWorker[p]
      /\ \A i \in 1..Len(toWorker'[q]) :
           toWorker'[q][i] = "run" => i = 1 /\ wpc[q] = "idle"
  BY <1>0, RequestSafe DEF HandleSchema, PostAck
<1>3. /\ inbox' \in [Queries -> Seq(Message)]
      /\ \A p \in Queries \ {q} : inbox'[p] = inbox[p]
  BY <1>0, <1>1, ReceiveFacts DEF TypeOK
<1>4. TypeOK'
  BY <1>0, <1>1, <1>2, <1>3 DEF TypeOK
<1>5. ASSUME NEW p \in Queries, p # q PROVE Safe(p)'
  BY <1>1, <1>2, <1>3, <1>5, Frame DEF IInv
<1>6. Safe(q)'
  BY <1>0, <1>1, <1>2, PlainReceiveSafe
<1> QED BY <1>4, <1>5, <1>6 DEF IInv

LEMMA HandleStatsStep ==
  ASSUME IInv, NEW q \in Queries, HandleStats(q)
  PROVE  IInv'
<1>0. TypeOK /\ Safe(q)
  BY DEF IInv
<1>1. UNCHANGED <<adapter, toWorker, boot, conn, wpc, outstanding, size, sent,
                  gen, buffer, schema, done, complete, delivered, lastFlag,
                  asked>>
      /\ Receive(q, "query-stats")
  BY DEF HandleStats, workerVars, mainVars
<1>2. /\ inbox' \in [Queries -> Seq(Message)]
      /\ \A p \in Queries \ {q} : inbox'[p] = inbox[p]
  BY <1>0, <1>1, ReceiveFacts DEF TypeOK
<1>3. TypeOK'
  BY <1>0, <1>1, <1>2 DEF TypeOK
<1>4. ASSUME NEW p \in Queries, p # q PROVE Safe(p)'
  BY <1>1, <1>2, <1>4, Frame DEF IInv
<1>5. \A i \in 1..Len(toWorker'[q]) :
        toWorker'[q][i] = "run" => i = 1 /\ wpc[q] = "idle"
  BY <1>0, <1>1 DEF Safe, RunOnce
<1>6. Safe(q)'
  BY <1>0, <1>1, <1>5, PlainReceiveSafe
<1> QED BY <1>3, <1>4, <1>6 DEF IInv

LEMMA HandleRowsStep ==
  ASSUME IInv, NEW q \in Queries, HandleRows(q)
  PROVE  IInv'
<1> DEFINE d == delivered[q]
           b == buffer[q]
           h == inbox[q][1].hi
           rows == Extended(b, inbox[q][1].lo, h)
<1>0. TypeOK /\ Safe(q) /\ Receive(q, "json")
  BY DEF IInv, HandleRows
<1>1. UNCHANGED <<adapter, boot, conn, wpc, outstanding, size, sent, schema,
                  done, complete, asked>>
  BY DEF HandleRows, workerVars
<1>2. /\ toWorker' \in [Queries -> Seq(Requests)]
      /\ \A p \in Queries \ {q} : toWorker'[p] = toWorker[p]
      /\ \A i \in 1..Len(toWorker'[q]) :
           toWorker'[q][i] = "run" => i = 1 /\ wpc[q] = "idle"
  BY <1>0, RequestSafe DEF HandleRows, PostAck
<1>3. /\ inbox' \in [Queries -> Seq(Message)]
      /\ \A p \in Queries \ {q} : inbox'[p] = inbox[p]
  BY <1>0, ReceiveFacts DEF TypeOK
<1>4. /\ Chain(inbox'[q], h, sent[q])
      /\ inbox[q][1].lo = Len(d) + Len(b) + 1 /\ h \in Nat
      /\ Len(d) + Len(b) <= h
  BY <1>0, ChainReceive DEF Safe, Received
<1>5. d \in Seq(Nat) /\ b \in Seq(Nat) /\ Len(d) \in Nat
      /\ ChunkSize \in Nat
  BY <1>0, ConstantsAssumption DEF TypeOK
<1>6. /\ \A i \in 1..Len(d) : d[i] = i
      /\ \A i \in 1..Len(b) : b[i] = Len(d) + i
  BY <1>0 DEF Safe, InOrder
<1> HIDE DEF d, b, h
<1>7. /\ rows \in Seq(Nat) /\ Len(rows) = h - Len(d)
      /\ \A i \in 1..Len(rows) : rows[i] = Len(d) + i
  <2>1. rows = Extended(b, Len(d) + Len(b) + 1, h)
    BY <1>4
  <2> HIDE DEF rows
  <2>2. /\ Extended(b, Len(d) + Len(b) + 1, h) \in Seq(Nat)
        /\ Len(Extended(b, Len(d) + Len(b) + 1, h)) = h - Len(d)
        /\ \A i \in 1..Len(Extended(b, Len(d) + Len(b) + 1, h)) :
             Extended(b, Len(d) + Len(b) + 1, h)[i] = Len(d) + i
    BY <1>4, <1>5, <1>6, ExtendFacts
  <2> QED BY <2>1, <2>2
<1> DEFINE d2 == Yielded(d, rows, ChunkSize)
           b2 == Left(rows, ChunkSize)
<1> HIDE DEF rows
<1>8. \/ /\ gen[q] = "waiting" /\ Len(rows) >= ChunkSize
         /\ delivered' = [delivered EXCEPT ![q] = d2]
         /\ buffer' = [buffer EXCEPT ![q] = b2]
         /\ lastFlag' = [lastFlag EXCEPT ![q] = FALSE]
         /\ gen' = [gen EXCEPT ![q] = "yielded"]
      \/ /\ ~(gen[q] = "waiting" /\ Len(rows) >= ChunkSize)
         /\ buffer' = [buffer EXCEPT ![q] = rows]
         /\ UNCHANGED <<delivered, lastFlag, gen>>
  <2>1. Head(inbox[q]) = inbox[q][1]
    BY <1>0 DEF TypeOK
  <2> QED BY <2>1 DEF HandleRows, rows, h, d, b, Yielded, Left, Extended
<1>9. Len(d) + Len(rows) = h
  BY <1>4, <1>5, <1>7
<1>a. /\ gen[q] \notin {"unused", "connecting"} /\ ~done[q]
      /\ \A i, j \in 1..Len(inbox'[q]) :
           i < j /\ inbox'[q][i].type = "done" => inbox'[q][j].type = "cancelled"
      /\ \A i \in 1..Len(inbox'[q]) :
           inbox'[q][i].type = "done"
             => wpc[q] = "finished" /\ inbox'[q][i].hi = sent[q]
      /\ (\E i \in 1..Len(inbox[q]) : inbox[q][i].type = "error")
           => \E i \in 1..Len(inbox'[q]) : inbox'[q][i].type = "error"
  BY <1>0, ReceiveKeeps
<1>b. /\ \A p \in Queries \ {q} : gen'[p] = gen[p] /\ buffer'[p] = buffer[p]
                                    /\ delivered'[p] = delivered[p]
      /\ InOrder(q)' /\ Received(q)' = h
      /\ gen' \in [Queries -> GenStates]
      /\ buffer' \in [Queries -> Seq(Nat)]
      /\ delivered' \in [Queries -> Seq(Nat)]
      /\ lastFlag' \in [Queries -> BOOLEAN]
      /\ gen'[q] \notin {"unused", "connecting"}
      /\ Generator(q)'
  <2>0. /\ gen \in [Queries -> GenStates] /\ buffer \in [Queries -> Seq(Nat)]
        /\ delivered \in [Queries -> Seq(Nat)]
        /\ lastFlag \in [Queries -> BOOLEAN] /\ "yielded" \in GenStates
    BY <1>0, Names DEF TypeOK
  <2>1. CASE /\ gen[q] = "waiting" /\ Len(rows) >= ChunkSize
             /\ delivered' = [delivered EXCEPT ![q] = d2]
             /\ buffer' = [buffer EXCEPT ![q] = b2]
             /\ lastFlag' = [lastFlag EXCEPT ![q] = FALSE]
             /\ gen' = [gen EXCEPT ![q] = "yielded"]
    <3>1. /\ d2 \in Seq(Nat) /\ b2 \in Seq(Nat)
          /\ Len(d2) + Len(b2) = h
          /\ \A i \in 1..Len(d2) : d2[i] = i
          /\ \A i \in 1..Len(b2) : b2[i] = Len(d2) + i
      <4>1. ChunkSize <= Len(rows)
        BY <2>1, <1>4, <1>5, <1>7
      <4>2. /\ d2 \in Seq(Nat) /\ b2 \in Seq(Nat)
            /\ Len(d2) + Len(b2) = Len(d) + Len(rows)
            /\ \A i \in 1..Len(d2) : d2[i] = i
            /\ \A i \in 1..Len(b2) : b2[i] = Len(d2) + i
        <5>1. /\ rows \in Seq(Nat) /\ d \in Seq(Nat) /\ ChunkSize \in Nat
              /\ \A i \in 1..Len(d) : d[i] = i
              /\ \A i \in 1..Len(rows) : rows[i] = Len(d) + i
          BY <1>5, <1>6, <1>7
        <5> QED BY ZenonT(60), <5>1, <4>1, SplitFacts
      <4> QED BY <1>9, <4>2
    <3> HIDE DEF d2, b2
    <3>2. delivered'[q] = d2 /\ buffer'[q] = b2 /\ gen'[q] = "yielded"
      BY <2>0, <2>1
    <3>3. InOrder(q)' /\ Received(q)' = h
      BY <3>1, <3>2 DEF InOrder, Received
    <3>4. Generator(q)'
      BY <1>0, <1>1, <3>2 DEF Safe, Generator
    <3>5. buffer' \in [Queries -> Seq(Nat)] /\ delivered' \in [Queries -> Seq(Nat)]
      BY <2>0, <2>1, <3>1
    <3>6. gen' \in [Queries -> GenStates] /\ lastFlag' \in [Queries -> BOOLEAN]
      BY <2>0, <2>1
    <3> QED BY <2>0, <2>1, <3>2, <3>3, <3>4, <3>5, <3>6
  <2>2. CASE /\ ~(gen[q] = "waiting" /\ Len(rows) >= ChunkSize)
             /\ buffer' = [buffer EXCEPT ![q] = rows]
             /\ UNCHANGED <<delivered, lastFlag, gen>>
    <3>1. delivered'[q] = d /\ buffer'[q] = rows /\ gen'[q] = gen[q]
      BY <2>0, <2>2 DEF d
    <3>2. InOrder(q)' /\ Received(q)' = h
      BY <1>6, <1>7, <1>9, <3>1 DEF InOrder, Received
    <3>3. Generator(q)'
      BY <1>0, <1>1, <1>a, <1>5, <1>7, <2>2, <3>1 DEF Safe, Generator
    <3>4. buffer' \in [Queries -> Seq(Nat)]
      BY <2>0, <2>2, <1>7
    <3> QED BY <1>a, <2>0, <2>2, <3>1, <3>2, <3>3, <3>4
  <2> QED BY <1>8, <2>1, <2>2
<1>c. TypeOK'
  BY <1>0, <1>1, <1>2, <1>3, <1>b DEF TypeOK
<1>d. ASSUME NEW p \in Queries, p # q PROVE Safe(p)'
  BY <1>1, <1>2, <1>3, <1>b, <1>d, Frame DEF IInv
<1>e. Safe(q)'
  <2>1. Chained(q)'
    BY <1>1, <1>4, <1>b DEF Chained
  <2>2. RunOnce(q)'
    BY <1>1, <1>2, <1>b DEF RunOnce
  <2>3. Phase(q)'
    BY <1>0, <1>1 DEF Safe, Phase
  <2>4. DoneLast(q)'
    BY <1>0, <1>1, <1>a DEF Safe, DoneLast
  <2> QED BY <1>b, <2>1, <2>2, <2>3, <2>4 DEF Safe
<1> QED BY <1>c, <1>d, <1>e DEF IInv

LEMMA HandleDoneStep ==
  ASSUME IInv, NEW q \in Queries, HandleDone(q)
  PROVE  IInv'
<1>0. TypeOK /\ Safe(q) /\ InOrder(q) /\ Generator(q) /\ Chained(q)
      /\ Receive(q, "done")
  BY DEF IInv, Safe, HandleDone
<1>1. UNCHANGED <<adapter, boot, conn, toWorker, wpc, outstanding, size, sent,
                  schema, asked>>
      /\ done' = [done EXCEPT ![q] = TRUE]
      /\ complete' = [complete EXCEPT
                        ![q] = IF @ = "pending" THEN "resolved" ELSE @]
  BY DEF HandleDone, workerVars
<1>t. /\ gen \in [Queries -> GenStates] /\ buffer \in [Queries -> Seq(Nat)]
      /\ delivered \in [Queries -> Seq(Nat)]
      /\ lastFlag \in [Queries -> BOOLEAN]
      /\ done \in [Queries -> BOOLEAN] /\ complete \in [Queries -> PromiseStates]
  BY <1>0 DEF TypeOK
<1>2. /\ done' \in [Queries -> BOOLEAN] /\ complete' \in [Queries -> PromiseStates]
      /\ done'[q] = TRUE
      /\ complete'[q] = "rejected" <=> complete[q] = "rejected"
      /\ \A p \in Queries \ {q} : done'[p] = done[p] /\ complete'[p] = complete[p]
  BY <1>t, <1>1, Names
<1>3. /\ inbox' \in [Queries -> Seq(Message)]
      /\ \A p \in Queries \ {q} : inbox'[p] = inbox[p]
  BY <1>0, ReceiveFacts DEF TypeOK
<1>4. /\ gen[q] \notin {"unused", "connecting"}
      /\ wpc[q] = "finished" /\ inbox[q][1].hi = sent[q]
      /\ \A i \in 1..Len(inbox'[q]) : inbox'[q][i].type = "cancelled"
      /\ complete[q] # "rejected" => sent[q] = size[q]
  BY <1>0, ReceiveKeeps
<1>5. Chain(inbox'[q], Received(q), sent[q]) /\ Received(q) = sent[q]
  BY <1>0, <1>4, ChainReceive
<1> DEFINE Goal == /\ InOrder(q)' /\ Received(q)' = Received(q)
                   /\ gen' \in [Queries -> GenStates]
                   /\ buffer' \in [Queries -> Seq(Nat)]
                   /\ delivered' \in [Queries -> Seq(Nat)]
                   /\ lastFlag' \in [Queries -> BOOLEAN]
                   /\ \A p \in Queries \ {q} :
                        /\ gen'[p] = gen[p] /\ buffer'[p] = buffer[p]
                        /\ delivered'[p] = delivered[p]
                   /\ Generator(q)'
                   /\ gen'[q] \notin {"unused", "connecting"}
<1>6. ASSUME Yield(q, Len(buffer[q]), FALSE)
      PROVE  Goal
  <2>1. Len(buffer[q]) \in Nat /\ Len(buffer[q]) <= Len(buffer[q])
        /\ FALSE \in BOOLEAN
    BY <1>t
  <2>2. gen'[q] = "yielded"
    BY <1>0, <1>6, <2>1, YieldFacts
  <2>3. Generator(q)'
    BY <1>2, <2>2 DEF Generator
  <2> QED BY <1>0, <1>6, <2>1, <2>2, <2>3, YieldFacts
<1>7. ASSUME gen[q] = "waiting", buffer[q] = <<>>, Finish(q)
      PROVE  Goal
  <2>1. \/ gen'[q] = "failed"
        \/ gen'[q] \in {"ending", "completed"} /\ sent[q] = size[q]
    BY <1>0, <1>4, <1>7, FinishFacts
  <2>2. /\ InOrder(q)' /\ Received(q)' = Received(q)
        /\ gen' \in [Queries -> GenStates] /\ UNCHANGED <<buffer, delivered>>
        /\ lastFlag' \in [Queries -> BOOLEAN]
        /\ \A p \in Queries \ {q} : gen'[p] = gen[p]
    BY <1>0, <1>4, <1>7, FinishFacts
  <2>3. Generator(q)'
    BY <1>1, <1>2, <1>7, <2>1, <2>2 DEF Generator
  <2> QED BY <1>t, <2>1, <2>2, <2>3
<1>8. ASSUME gen[q] # "waiting", UNCHANGED <<gen, buffer, delivered, lastFlag>>
      PROVE  Goal
  <2>1. InOrder(q)' /\ Received(q)' = Received(q)
    BY <1>0, <1>8 DEF InOrder, Received
  <2>2. Generator(q)'
    BY <1>0, <1>1, <1>2, <1>8 DEF Generator
  <2> QED BY <1>t, <1>4, <1>8, <2>1, <2>2
<1>9. Goal
  <2> HIDE DEF Goal
  <2> QED BY <1>6, <1>7, <1>8 DEF HandleDone
<1>a. TypeOK'
  BY <1>0, <1>1, <1>2, <1>3, <1>9 DEF TypeOK
<1>b. ASSUME NEW p \in Queries, p # q PROVE Safe(p)'
  BY <1>1, <1>2, <1>3, <1>9, <1>b, Frame DEF IInv
<1>c. Safe(q)'
  <2>1. Chained(q)'
    BY <1>1, <1>5, <1>9 DEF Chained
  <2>2. RunOnce(q)'
    BY <1>0, <1>1, <1>9 DEF Safe, RunOnce
  <2>3. Phase(q)'
    BY <1>0, <1>1 DEF Safe, Phase
  <2>4. DoneLast(q)'
    BY <1>1, <1>2, <1>4, <1>5, <1>9 DEF DoneLast
  <2> QED BY <1>9, <2>1, <2>2, <2>3, <2>4 DEF Safe
<1> QED BY <1>a, <1>b, <1>c DEF IInv

LEMMA HandleErrorStep ==
  ASSUME IInv, NEW q \in Queries, HandleError(q)
  PROVE  IInv'
<1>0. TypeOK /\ Safe(q) /\ InOrder(q) /\ Generator(q) /\ Chained(q)
  BY DEF IInv, Safe
<1>1. UNCHANGED <<adapter, toWorker, boot, conn, wpc, outstanding, size, sent,
                  buffer, schema, done, delivered, lastFlag, asked>>
      /\ complete' = [complete EXCEPT
                        ![q] = IF @ = "pending" THEN "rejected" ELSE @]
      /\ gen' = [gen EXCEPT ![q] = IF @ = "waiting" THEN "failed" ELSE @]
  BY DEF HandleError, workerVars, FailWaiting
<1>2. PICK t \in {"error", "cancelled"} : Receive(q, t)
  BY DEF HandleError
<1>t. gen \in [Queries -> GenStates] /\ complete \in [Queries -> PromiseStates]
  BY <1>0 DEF TypeOK
<1>3. /\ gen' \in [Queries -> GenStates] /\ complete' \in [Queries -> PromiseStates]
      /\ gen'[q] = IF gen[q] = "waiting" THEN "failed" ELSE gen[q]
      /\ complete'[q] = IF complete[q] = "pending" THEN "rejected" ELSE complete[q]
      /\ \A p \in Queries \ {q} : gen'[p] = gen[p] /\ complete'[p] = complete[p]
  BY <1>t, <1>1, Names
<1>4. /\ inbox' \in [Queries -> Seq(Message)]
      /\ \A p \in Queries \ {q} : inbox'[p] = inbox[p]
  BY <1>0, <1>2, ReceiveFacts DEF TypeOK
<1>5. /\ gen[q] \notin {"unused", "connecting"}
      /\ t # "cancelled" => ~done[q]
      /\ \A i, j \in 1..Len(inbox'[q]) :
           i < j /\ inbox'[q][i].type = "done" => inbox'[q][j].type = "cancelled"
      /\ \A i \in 1..Len(inbox'[q]) :
           inbox'[q][i].type = "done"
             => wpc[q] = "finished" /\ inbox'[q][i].hi = sent[q]
      /\ done[q] => \A i \in 1..Len(inbox'[q]) : inbox'[q][i].type = "cancelled"
  BY <1>0, <1>2, ReceiveKeeps
<1>6. Received(q)' = Received(q) /\ InOrder(q)'
  BY <1>0, <1>1 DEF Received, InOrder
<1>7. Chained(q)'
  BY <1>0, <1>1, <1>2, <1>6, ChainReceive DEF Chained
<1>8. complete'[q] # "rejected" => complete[q] = "resolved" /\ done[q]
  BY <1>0, <1>t, <1>3, Names DEF Generator
<1>9. DoneLast(q)'
  <2>1. sent[q] # size[q] /\ wpc[q] = "finished" => complete'[q] = "rejected"
    <3>1. ASSUME complete'[q] # "rejected", wpc[q] = "finished",
                 sent[q] # size[q]
          PROVE  FALSE
      <4>1. done[q] /\ complete[q] = "resolved"
        BY <1>8, <3>1
      <4>2. \E i \in 1..Len(inbox[q]) : inbox[q][i].type = "error"
        BY <1>0, <3>1, <4>1 DEF Safe, DoneLast
      <4> QED BY <1>0, <4>1, <4>2 DEF Safe, DoneLast
    <3> QED BY <3>1
  <2>2. done[q] => wpc[q] = "finished" /\ Received(q) = sent[q]
    BY <1>0 DEF Safe, DoneLast
  <2> QED BY <1>1, <1>5, <1>6, <2>1, <2>2 DEF DoneLast
<1>a. RunOnce(q)'
  BY <1>0, <1>1, <1>3, <1>5 DEF Safe, RunOnce
<1>b. Generator(q)'
  BY <1>0, <1>1, <1>3, <1>8 DEF Generator
<1>c. Safe(q)'
  BY <1>0, <1>1, <1>6, <1>7, <1>9, <1>a, <1>b DEF Safe, Phase
<1>d. TypeOK'
  BY <1>0, <1>1, <1>3, <1>4 DEF TypeOK
<1>e. ASSUME NEW p \in Queries, p # q PROVE Safe(p)'
  BY <1>1, <1>3, <1>4, <1>e, Frame DEF IInv
<1> QED BY <1>c, <1>d, <1>e DEF IInv

-----------------------------------------------------------------------------
(* The worker's steps. *)

LEMMA BootsStep == IInv /\ Boots => IInv'
<1> SUFFICES ASSUME IInv, Boots PROVE IInv'
  OBVIOUS
<1>0. TypeOK
  BY DEF IInv
<1>1. /\ UNCHANGED <<adapter, toWorker, inbox, asked, wpc, outstanding, size,
                     sent, gen, buffer, schema, done, complete, delivered,
                     lastFlag>>
      /\ boot' \in BootStates /\ conn' \in ConnStates
  BY <1>0, Names DEF Boots, OpenConnection, FailInit, PostInited, mainVars, TypeOK
<1>2. TypeOK'
  BY <1>0, <1>1 DEF TypeOK
<1>3. ASSUME NEW p \in Queries PROVE Safe(p)'
  BY <1>1, Frame DEF IInv
<1> QED BY <1>2, <1>3 DEF IInv

\* The messages that report a failure after n rows, and those that follow the
\* rows a..n when the result is complete.
Failure(n) == <<Note("error", n), Note("done", n)>>
Closing(a, n) ==
  (IF a = n + 1 THEN <<>> ELSE <<[type |-> "json", lo |-> a, hi |-> n]>>)
  \o <<Note("query-stats", n), Note("done", n)>>

LEMMA FailureFacts ==
  ASSUME NEW n \in Nat
  PROVE  /\ Failure(n) \in Seq(Message) /\ Failure(n) # <<>>
         /\ Len(Failure(n)) = 2 /\ Chain(Failure(n), n, n)
         /\ Failure(n)[1].type = "error" /\ Failure(n)[2].type = "done"
         /\ Failure(n)[2].hi = n
<1> DEFINE e == Note("error", n)
           f == Note("done", n)
<1>1. /\ e \in Message /\ e.type = "error" /\ e.lo = n + 1 /\ e.hi = n
      /\ f \in Message /\ f.type = "done" /\ f.lo = n + 1 /\ f.hi = n
  BY DEF Note, Message, MessageTypes
<1> HIDE DEF e, f
<1>2. Failure(n) = <<e, f>>
  BY DEF Failure, e, f
<1> QED BY <1>1, <1>2 DEF Chain

\* The error, 'done' and the cleared count of a failed run.
LEMMA PostFailureSafe ==
  ASSUME TypeOK, NEW q \in Queries, Safe(q), PostFailure(q),
         wpc[q] # "finished", gen[q] \notin {"unused", "connecting"},
         \A i \in 1..Len(toWorker'[q]) : toWorker'[q][i] # "run",
         UNCHANGED <<size, sent, gen, buffer, done, complete, delivered>>
  PROVE  /\ Safe(q)' /\ inbox' \in [Queries -> Seq(Message)]
         /\ wpc' \in [Queries -> RunStates]
         /\ outstanding' \in [Queries -> 0..MaxOutstanding]
         /\ \A p \in Queries \ {q} :
              /\ inbox'[p] = inbox[p] /\ wpc'[p] = wpc[p]
              /\ outstanding'[p] = outstanding[p]
<1> DEFINE m == Failure(sent[q])
           s == inbox[q]
           r == inbox'[q]
<1>0. inbox \in [Queries -> Seq(Message)] /\ sent[q] \in Nat
      /\ wpc \in [Queries -> RunStates]
      /\ outstanding \in [Queries -> 0..MaxOutstanding]
  BY ConstantsAssumption DEF TypeOK
<1>1. /\ m \in Seq(Message) /\ m # <<>> /\ Len(m) = 2
      /\ Chain(m, sent[q], sent[q])
      /\ m[1].type = "error" /\ m[2].type = "done" /\ m[2].hi = sent[q]
  BY <1>0, FailureFacts
<1>2. Post(q, m) /\ outstanding' = [outstanding EXCEPT ![q] = 0]
      /\ wpc' = [wpc EXCEPT ![q] = "finished"]
  BY DEF PostFailure, Failure
<1> HIDE DEF m
<1>3. /\ inbox' \in [Queries -> Seq(Message)]
      /\ \A p \in Queries \ {q} : inbox'[p] = inbox[p]
      /\ Len(r) = Len(s) + 2
      /\ \A i \in 1..Len(r) :
           r[i] = IF i <= Len(s) THEN s[i] ELSE m[i - Len(s)]
  BY <1>0, <1>1, <1>2, PostFacts
<1>4. /\ wpc' \in [Queries -> RunStates] /\ wpc'[q] = "finished"
      /\ outstanding' \in [Queries -> 0..MaxOutstanding]
      /\ outstanding'[q] = 0
      /\ \A p \in Queries \ {q} : wpc'[p] = wpc[p]
                                  /\ outstanding'[p] = outstanding[p]
  BY <1>0, <1>2, Names, ConstantsAssumption
<1>5. Chain(r, Received(q), sent[q])
  BY <1>0, <1>1, <1>2, ChainPost DEF Safe
<1>6. \A i \in 1..Len(s) : s[i].type # "done"
  BY DEF Safe, DoneLast
<1>7. ~done[q]
  BY DEF Safe, DoneLast
<1>8. Len(s) \in Nat
  BY <1>0
<1> HIDE DEF s, r
<1>9. /\ \A i \in 1..Len(s) : r[i].type # "done"
      /\ r[Len(s) + 1].type = "error"
      /\ r[Len(s) + 2].type = "done" /\ r[Len(s) + 2].hi = sent[q]
      /\ Len(s) + 1 \in 1..Len(r)
  <2>1. \A i \in 1..Len(s) : i \in 1..Len(r) /\ i <= Len(s)
    BY <1>3, <1>8
  <2>2. /\ Len(s) + 1 \in 1..Len(r) /\ Len(s) + 2 \in 1..Len(r)
        /\ ~(Len(s) + 1 <= Len(s)) /\ ~(Len(s) + 2 <= Len(s))
        /\ (Len(s) + 1) - Len(s) = 1 /\ (Len(s) + 2) - Len(s) = 2
    BY <1>3, <1>8
  <2>3. \A i \in 1..Len(s) : r[i] = s[i]
    BY <1>3, <2>1
  <2>4. r[Len(s) + 1] = m[1] /\ r[Len(s) + 2] = m[2]
    BY <1>3, <2>2
  <2> QED BY <1>1, <1>6, <2>2, <2>3, <2>4
<1>10. \A i \in 1..Len(r) : r[i].type = "done" => i = Len(s) + 2
  <2>1. \A i \in 1..Len(r) : i \in 1..Len(s) \/ i = Len(s) + 1 \/ i = Len(s) + 2
    BY <1>3, <1>8
  <2> QED BY <1>9, <2>1
<1>11. DoneLast(q)'
  <2>1. \A i, j \in 1..Len(r) :
          i < j /\ r[i].type = "done" => r[j].type = "cancelled"
    BY <1>3, <1>8, <1>10
  <2>2. \A i \in 1..Len(r) : r[i].type = "done" => r[i].hi = sent[q]
    BY <1>9, <1>10
  <2>3. \E i \in 1..Len(r) : r[i].type = "error"
    BY <1>9
  <2> QED BY <1>4, <1>7, <2>1, <2>2, <2>3 DEF DoneLast, r
<1>12. Chained(q)'
  BY <1>5 DEF Chained, Received, r
<1>13. RunOnce(q)'
  BY DEF RunOnce
<1>14. Phase(q)'
  BY <1>4 DEF Safe, Phase
<1>15. InOrder(q)' /\ Generator(q)'
  BY DEF Safe, InOrder, Generator
<1>16. Safe(q)'
  BY <1>11, <1>12, <1>13, <1>14, <1>15 DEF Safe
<1> QED BY <1>3, <1>4, <1>16

\* A failure closes the run that is in progress.
LEMMA FailingStep ==
  ASSUME IInv, NEW q \in Queries, PostFailure(q),
         wpc[q] \in {"executing", "resetting", "sending"},
         UNCHANGED <<adapter, boot, toWorker, size, sent, asked, gen, buffer,
                     schema, done, complete, delivered, lastFlag>>,
         conn' \in ConnStates
  PROVE  IInv'
<1>0. TypeOK /\ Safe(q)
  BY DEF IInv
<1>1. /\ gen[q] \notin {"unused", "connecting"}
      /\ \A i \in 1..Len(toWorker'[q]) : toWorker'[q][i] # "run"
      /\ wpc[q] # "finished"
  BY <1>0 DEF Safe, RunOnce
<1>2. /\ Safe(q)' /\ inbox' \in [Queries -> Seq(Message)]
      /\ wpc' \in [Queries -> RunStates]
      /\ outstanding' \in [Queries -> 0..MaxOutstanding]
      /\ \A p \in Queries \ {q} :
           /\ inbox'[p] = inbox[p] /\ wpc'[p] = wpc[p]
           /\ outstanding'[p] = outstanding[p]
  BY <1>0, <1>1, PostFailureSafe
<1>3. TypeOK'
  BY <1>0, <1>2 DEF TypeOK
<1>4. ASSUME NEW p \in Queries, p # q PROVE Safe(p)'
  BY <1>2, <1>4, Frame DEF IInv
<1> QED BY <1>2, <1>3, <1>4 DEF IInv

LEMMA FailStep ==
  ASSUME IInv, NEW q \in Queries,
         QueryThrows(q) \/ ResetDone(q) \/ SendFails(q)
  PROVE  IInv'
<1>1. /\ PostFailure(q) /\ wpc[q] \in {"executing", "resetting", "sending"}
      /\ UNCHANGED <<adapter, boot, toWorker, size, sent, asked, gen, buffer,
                     schema, done, complete, delivered, lastFlag>>
      /\ conn' \in ConnStates
  BY Names DEF QueryThrows, ResetDone, SendFails, mainVars, IInv, TypeOK
<1> QED BY <1>1, FailingStep

\* A message other than 'done' is posted: what the channel says then.
LEMMA PostOneFacts ==
  ASSUME TypeOK, NEW q \in Queries, Safe(q), NEW m \in Message, Post(q, <<m>>),
         m.lo = sent[q] + 1, sent[q] <= m.hi,
         m.type # "json" => m.hi = sent[q],
         m.type # "done", wpc[q] = "finished" => m.type = "cancelled"
  PROVE  /\ inbox' \in [Queries -> Seq(Message)]
         /\ \A p \in Queries \ {q} : inbox'[p] = inbox[p]
         /\ Chain(inbox'[q], Received(q), m.hi)
         /\ \A i, j \in 1..Len(inbox'[q]) :
              i < j /\ inbox'[q][i].type = "done"
                => inbox'[q][j].type = "cancelled"
         /\ \A i \in 1..Len(inbox'[q]) :
              inbox'[q][i].type = "done"
                => wpc[q] = "finished" /\ inbox'[q][i].hi = sent[q]
         /\ done[q] =>
              \A i \in 1..Len(inbox'[q]) : inbox'[q][i].type = "cancelled"
         /\ (\E i \in 1..Len(inbox[q]) : inbox[q][i].type = "error")
              => \E i \in 1..Len(inbox'[q]) : inbox'[q][i].type = "error"
<1> DEFINE s == inbox[q]
           r == inbox'[q]
<1>0. /\ inbox \in [Queries -> Seq(Message)] /\ sent[q] \in Nat
      /\ m.lo \in Nat /\ m.hi \in Nat /\ Len(s) \in Nat
      /\ <<m>> \in Seq(Message) /\ <<m>> # <<>> /\ Len(<<m>>) = 1 /\ <<m>>[1] = m
  <2>1. inbox \in [Queries -> Seq(Message)] /\ sent[q] \in Nat
    BY ConstantsAssumption DEF TypeOK
  <2>2. m.lo \in Nat /\ m.hi \in Nat
    BY DEF Message
  <2>3. <<m>> \in Seq(Message) /\ <<m>> # <<>> /\ Len(<<m>>) = 1 /\ <<m>>[1] = m
    OBVIOUS
  <2> QED BY <2>1, <2>2, <2>3
<1>1. Chain(<<m>>, sent[q], m.hi)
  BY <1>0 DEF Chain
<1>2. /\ inbox' \in [Queries -> Seq(Message)]
      /\ \A p \in Queries \ {q} : inbox'[p] = inbox[p]
      /\ Len(r) = Len(s) + 1
      /\ \A i \in 1..Len(r) :
           r[i] = IF i <= Len(s) THEN s[i] ELSE <<m>>[i - Len(s)]
  BY <1>0, PostFacts
<1>3. Chain(r, Received(q), m.hi)
  BY <1>0, <1>1, ChainPost DEF Safe
<1>4. /\ \A i, j \in 1..Len(s) :
           i < j /\ s[i].type = "done" => s[j].type = "cancelled"
      /\ \A i \in 1..Len(s) :
           s[i].type = "done" => wpc[q] = "finished" /\ s[i].hi = sent[q]
      /\ done[q] => /\ wpc[q] = "finished"
                    /\ \A i \in 1..Len(s) : s[i].type = "cancelled"
  BY DEF Safe, DoneLast
<1> HIDE DEF s, r
<1>5. /\ \A i \in 1..Len(s) : r[i] = s[i] /\ i \in 1..Len(r)
      /\ r[Len(s) + 1] = m
  <2>1. \A i \in 1..Len(s) : i \in 1..Len(r) /\ i <= Len(s)
    BY <1>0, <1>2
  <2>2. Len(s) + 1 \in 1..Len(r) /\ ~(Len(s) + 1 <= Len(s))
        /\ (Len(s) + 1) - Len(s) = 1
    BY <1>0, <1>2
  <2> QED BY <1>0, <1>2, <2>1, <2>2
<1>6. \A i \in 1..Len(r) : i \in 1..Len(s) \/ i = Len(s) + 1
  BY <1>0, <1>2
<1>7. ASSUME NEW i \in 1..Len(r), NEW j \in 1..Len(r), i < j, r[i].type = "done"
      PROVE  r[j].type = "cancelled"
  <2>1. i \in 1..Len(s) /\ s[i].type = "done"
    BY <1>5, <1>6, <1>7
  <2>2. CASE j \in 1..Len(s)
    BY <1>4, <1>5, <1>7, <2>1, <2>2
  <2>3. CASE j = Len(s) + 1
    BY <1>4, <1>5, <2>1, <2>3
  <2> QED BY <1>6, <2>2, <2>3
<1>8. \A i \in 1..Len(r) :
        r[i].type = "done" => wpc[q] = "finished" /\ r[i].hi = sent[q]
  BY <1>4, <1>5, <1>6
<1>9. done[q] => \A i \in 1..Len(r) : r[i].type = "cancelled"
  BY <1>4, <1>5, <1>6
<1>10. (\E i \in 1..Len(s) : s[i].type = "error")
         => \E i \in 1..Len(r) : r[i].type = "error"
  BY <1>5
<1> QED BY <1>2, <1>3, <1>7, <1>8, <1>9, <1>10 DEF s, r

LEMMA HandleCancelStep ==
  ASSUME IInv, NEW q \in Queries, HandleCancel(q)
  PROVE  IInv'
<1> DEFINE m == Note("cancelled", sent[q])
<1>0. TypeOK /\ Safe(q) /\ sent[q] \in Nat
  BY ConstantsAssumption, SMTT(40) DEF IInv, TypeOK
<1>1. UNCHANGED <<adapter, boot, conn, wpc, outstanding, size, sent, gen, buffer,
                  schema, done, complete, delivered, lastFlag, asked>>
      /\ Take(q, "cancel") /\ Post(q, <<m>>)
  BY DEF HandleCancel, workerVars, mainVars
<1>2. /\ m \in Message /\ m.type = "cancelled" /\ m.lo = sent[q] + 1
      /\ m.hi = sent[q]
  BY <1>0, NoteFacts DEF MessageTypes
<1> HIDE DEF m
<1>3. /\ inbox' \in [Queries -> Seq(Message)]
      /\ \A p \in Queries \ {q} : inbox'[p] = inbox[p]
      /\ Chain(inbox'[q], Received(q), sent[q])
      /\ \A i, j \in 1..Len(inbox'[q]) :
           i < j /\ inbox'[q][i].type = "done" => inbox'[q][j].type = "cancelled"
      /\ \A i \in 1..Len(inbox'[q]) :
           inbox'[q][i].type = "done"
             => wpc[q] = "finished" /\ inbox'[q][i].hi = sent[q]
      /\ done[q] => \A i \in 1..Len(inbox'[q]) : inbox'[q][i].type = "cancelled"
      /\ (\E i \in 1..Len(inbox[q]) : inbox[q][i].type = "error")
           => \E i \in 1..Len(inbox'[q]) : inbox'[q][i].type = "error"
  BY <1>0, <1>1, <1>2, PostOneFacts
<1>4. /\ toWorker' \in [Queries -> Seq(Requests)]
      /\ \A p \in Queries \ {q} : toWorker'[p] = toWorker[p]
      /\ toWorker[q] # <<>> /\ Len(toWorker[q]) \in Nat
      /\ Len(toWorker'[q]) = Len(toWorker[q]) - 1
      /\ \A i \in 1..Len(toWorker'[q]) : toWorker'[q][i] = toWorker[q][i + 1]
  BY <1>0, <1>1, TakeFacts DEF TypeOK
<1>5. RunOnce(q)'
  <2>1. \A i \in 1..Len(toWorker'[q]) : i + 1 \in 1..Len(toWorker[q])
                                        /\ i + 1 # 1
    BY <1>4
  <2> QED BY <1>0, <1>1, <1>4, <2>1 DEF Safe, RunOnce
<1>6. Received(q)' = Received(q)
  BY <1>1 DEF Received
<1>7. Chained(q)'
  BY <1>1, <1>3, <1>6 DEF Chained
<1>8. DoneLast(q)'
  BY <1>0, <1>1, <1>3, <1>6 DEF Safe, DoneLast
<1>9. Safe(q)'
  BY <1>0, <1>1, <1>5, <1>7, <1>8 DEF Safe, InOrder, Phase, Generator
<1>10. TypeOK'
  BY <1>0, <1>1, <1>3, <1>4 DEF TypeOK
<1>11. ASSUME NEW p \in Queries, p # q PROVE Safe(p)'
  BY <1>1, <1>3, <1>4, <1>11, Frame DEF IInv
<1> QED BY <1>9, <1>10, <1>11 DEF IInv

LEMMA HandleAckStep ==
  ASSUME IInv, NEW q \in Queries, HandleAck(q)
  PROVE  IInv'
<1>0. TypeOK /\ Safe(q)
  BY DEF IInv
<1>1. UNCHANGED <<adapter, inbox, boot, conn, wpc, size, sent, gen, buffer,
                  schema, done, complete, delivered, lastFlag, asked>>
      /\ Take(q, "ack")
      /\ outstanding' = [outstanding EXCEPT ![q] = Credit(@)]
  BY DEF HandleAck, mainVars
<1>2. outstanding \in [Queries -> 0..MaxOutstanding] /\ MaxOutstanding \in Nat
  BY <1>0, ConstantsAssumption DEF TypeOK
<1>3. /\ outstanding' \in [Queries -> 0..MaxOutstanding]
      /\ outstanding'[q] <= outstanding[q]
      /\ outstanding[q] = 0 => outstanding'[q] = 0
      /\ \A p \in Queries \ {q} : outstanding'[p] = outstanding[p]
  <2>1. Credit(outstanding[q]) \in 0..MaxOutstanding
        /\ Credit(outstanding[q]) <= outstanding[q]
        /\ (outstanding[q] = 0 => Credit(outstanding[q]) = 0)
    BY <1>2 DEF Credit
  <2> QED BY <1>1, <1>2, <2>1
<1>4. /\ toWorker' \in [Queries -> Seq(Requests)]
      /\ \A p \in Queries \ {q} : toWorker'[p] = toWorker[p]
      /\ toWorker[q] # <<>> /\ Len(toWorker[q]) \in Nat
      /\ Len(toWorker'[q]) = Len(toWorker[q]) - 1
      /\ \A i \in 1..Len(toWorker'[q]) : toWorker'[q][i] = toWorker[q][i + 1]
  BY <1>0, <1>1, TakeFacts DEF TypeOK
<1>5. RunOnce(q)'
  <2>1. \A i \in 1..Len(toWorker'[q]) : i + 1 \in 1..Len(toWorker[q])
                                        /\ i + 1 # 1
    BY <1>4
  <2> QED BY <1>0, <1>1, <1>4, <2>1 DEF Safe, RunOnce
<1>6. Phase(q)'
  BY <1>0, <1>1, <1>2, <1>3 DEF Safe, Phase
<1>7. Safe(q)'
  BY <1>0, <1>1, <1>5, <1>6
     DEF Safe, InOrder, Chained, Received, DoneLast, Generator
<1>8. TypeOK'
  BY <1>0, <1>1, <1>3, <1>4 DEF TypeOK
<1>9. ASSUME NEW p \in Queries, p # q PROVE Safe(p)'
  BY <1>1, <1>3, <1>4, <1>9, Frame DEF IInv
<1> QED BY <1>7, <1>8, <1>9 DEF IInv

LEMMA HandleRunStep ==
  ASSUME IInv, NEW q \in Queries, HandleRun(q)
  PROVE  IInv'
<1>0. TypeOK /\ Safe(q) /\ Take(q, "run")
  BY DEF IInv, HandleRun
<1>1. UNCHANGED <<adapter, boot, conn, size, sent, gen, buffer, schema, done,
                  complete, delivered, lastFlag, asked>>
  BY DEF HandleRun, mainVars
<1>2. /\ toWorker' \in [Queries -> Seq(Requests)]
      /\ \A p \in Queries \ {q} : toWorker'[p] = toWorker[p]
      /\ toWorker[q] # <<>> /\ toWorker[q][1] = "run"
      /\ Len(toWorker[q]) \in Nat
      /\ Len(toWorker'[q]) = Len(toWorker[q]) - 1
      /\ \A i \in 1..Len(toWorker'[q]) : toWorker'[q][i] = toWorker[q][i + 1]
  BY <1>0, TakeFacts DEF TypeOK
<1>3. /\ wpc[q] = "idle" /\ gen[q] \notin {"unused", "connecting"}
      /\ \A i \in 1..Len(toWorker'[q]) : toWorker'[q][i] # "run"
  <2>1. \A i \in 1..Len(toWorker'[q]) : i + 1 \in 1..Len(toWorker[q])
                                        /\ i + 1 # 1
    BY <1>2
  <2>2. 1 \in 1..Len(toWorker[q])
    BY <1>2, <1>0 DEF TypeOK
  <2> QED BY <1>0, <1>2, <2>1, <2>2 DEF Safe, RunOnce
<1>4. CASE PostFailure(q)
  <2>1. /\ Safe(q)' /\ inbox' \in [Queries -> Seq(Message)]
        /\ wpc' \in [Queries -> RunStates]
        /\ outstanding' \in [Queries -> 0..MaxOutstanding]
        /\ \A p \in Queries \ {q} :
             /\ inbox'[p] = inbox[p] /\ wpc'[p] = wpc[p]
             /\ outstanding'[p] = outstanding[p]
    BY <1>0, <1>1, <1>3, <1>4, PostFailureSafe
  <2>2. TypeOK'
    BY <1>0, <1>1, <1>2, <2>1 DEF TypeOK
  <2>3. ASSUME NEW p \in Queries, p # q PROVE Safe(p)'
    BY <1>1, <1>2, <2>1, <2>3, Frame DEF IInv
  <2> QED BY <2>1, <2>2, <2>3 DEF IInv
<1>5. CASE /\ wpc' = [wpc EXCEPT ![q] = "executing"]
           /\ outstanding' = [outstanding EXCEPT ![q] = 0]
           /\ UNCHANGED inbox
  <2>1. wpc \in [Queries -> RunStates]
        /\ outstanding \in [Queries -> 0..MaxOutstanding]
        /\ MaxOutstanding \in Nat
    BY <1>0, ConstantsAssumption DEF TypeOK
  <2>2. /\ wpc' \in [Queries -> RunStates] /\ wpc'[q] = "executing"
        /\ outstanding' \in [Queries -> 0..MaxOutstanding]
        /\ outstanding'[q] = 0
        /\ \A p \in Queries \ {q} : /\ wpc'[p] = wpc[p]
                                    /\ outstanding'[p] = outstanding[p]
    BY <1>5, <2>1, Names
  <2>3. TypeOK'
    BY <1>0, <1>1, <1>2, <1>5, <2>2 DEF TypeOK
  <2>4. ASSUME NEW p \in Queries, p # q PROVE Safe(p)'
    BY <1>1, <1>2, <1>5, <2>2, <2>4, Frame DEF IInv
  <2>5. RunOnce(q)' /\ Phase(q)'
    BY <1>0, <1>1, <1>3, <2>2 DEF Safe, RunOnce, Phase
  <2>6. DoneLast(q)'
    BY <1>0, <1>1, <1>3, <1>5, <2>2 DEF Safe, DoneLast
  <2>7. Safe(q)'
    BY <1>0, <1>1, <1>5, <2>5, <2>6 DEF Safe, InOrder, Chained, Received, Generator
  <2> QED BY <2>3, <2>4, <2>7 DEF IInv
<1> QED BY <1>4, <1>5 DEF HandleRun

LEMMA QueryReturnsStep ==
  ASSUME IInv, NEW q \in Queries, QueryReturns(q)
  PROVE  IInv'
<1> DEFINE m == Note("json-schema", 0)
<1>0. TypeOK /\ Safe(q) /\ MaxRows \in Nat /\ MaxOutstanding \in Nat \ {0}
      /\ wpc \in [Queries -> RunStates] /\ size \in [Queries -> 0..MaxRows]
  BY ConstantsAssumption DEF IInv, TypeOK
<1>1. UNCHANGED <<adapter, boot, conn, toWorker, outstanding, sent, asked, gen,
                  buffer, schema, done, complete, delivered, lastFlag>>
      /\ wpc[q] = "executing"
      /\ wpc' = [wpc EXCEPT ![q] = "sending"]
  BY DEF QueryReturns, mainVars
<1>2. PICK n \in 0..MaxRows : size' = [size EXCEPT ![q] = n]
  BY DEF QueryReturns
<1>3. Post(q, <<m>>) \/ UNCHANGED inbox
  BY DEF QueryReturns
<1>4. sent[q] = 0 /\ size[q] = 0 /\ outstanding[q] = 0
      /\ gen[q] \notin {"unused", "connecting"} /\ ~done[q]
  BY <1>0, <1>1 DEF Safe, Phase, RunOnce, DoneLast
<1>5. m \in Message /\ m.type = "json-schema" /\ m.lo = 1 /\ m.hi = 0
  BY NoteFacts DEF MessageTypes
<1> HIDE DEF m
<1>6. /\ inbox' \in [Queries -> Seq(Message)]
      /\ \A p \in Queries \ {q} : inbox'[p] = inbox[p]
      /\ Chain(inbox'[q], Received(q), sent[q])
      /\ \A i \in 1..Len(inbox'[q]) : inbox'[q][i].type # "done"
  <2>1. CASE Post(q, <<m>>)
    <3>1. /\ inbox' \in [Queries -> Seq(Message)]
          /\ \A p \in Queries \ {q} : inbox'[p] = inbox[p]
          /\ Chain(inbox'[q], Received(q), 0)
          /\ \A i \in 1..Len(inbox'[q]) :
               inbox'[q][i].type = "done" => wpc[q] = "finished"
      BY <1>0, <1>1, <1>4, <1>5, <2>1, PostOneFacts
    <3> QED BY <1>1, <1>4, <3>1
  <2>2. CASE UNCHANGED inbox
    BY <1>0, <1>1, <2>2 DEF Safe, Chained, DoneLast, TypeOK
  <2> QED BY <1>3, <2>1, <2>2
<1>7. /\ wpc' \in [Queries -> RunStates] /\ wpc'[q] = "sending"
      /\ size' \in [Queries -> 0..MaxRows] /\ size'[q] = n
      /\ \A p \in Queries \ {q} : wpc'[p] = wpc[p] /\ size'[p] = size[p]
  BY <1>0, <1>1, <1>2, Names
<1>8. TypeOK'
  BY <1>0, <1>1, <1>6, <1>7 DEF TypeOK
<1>9. ASSUME NEW p \in Queries, p # q PROVE Safe(p)'
  BY <1>1, <1>6, <1>7, <1>9, Frame DEF IInv
<1>10. RunOnce(q)' /\ Phase(q)'
  BY <1>0, <1>1, <1>4, <1>7 DEF Safe, RunOnce, Phase
<1>11. DoneLast(q)' /\ Chained(q)'
  BY <1>1, <1>4, <1>6, <1>7 DEF DoneLast, Chained, Received
<1>12. InOrder(q)' /\ Generator(q)'
  BY <1>0, <1>1, <1>4 DEF Safe, InOrder, Generator
<1> QED BY <1>8, <1>9, <1>10, <1>11, <1>12 DEF IInv, Safe

\* The steps that only move the 'run' handler: fatal error, timer.
LEMMA WorkerMoveStep ==
  ASSUME IInv, NEW q \in Queries, QueryFatal(q) \/ Unblock(q)
  PROVE  IInv'
<1>0. TypeOK /\ Safe(q) /\ wpc \in [Queries -> RunStates]
      /\ outstanding[q] \in Nat /\ MaxOutstanding \in Nat
  BY ConstantsAssumption DEF IInv, TypeOK
<1>1. UNCHANGED <<adapter, boot, conn, toWorker, inbox, outstanding, size, sent,
                  asked, gen, buffer, schema, done, complete, delivered,
                  lastFlag>>
  BY DEF QueryFatal, Unblock, mainVars
<1>2. PICK w \in {"resetting", "sending"} :
        /\ wpc' = [wpc EXCEPT ![q] = w]
        /\ w = "resetting" => wpc[q] = "executing"
        /\ w = "sending" => wpc[q] = "blocked" /\ outstanding[q] < MaxOutstanding
  BY <1>0 DEF QueryFatal, Unblock, MustWait
<1>3. /\ wpc' \in [Queries -> RunStates] /\ wpc'[q] = w
      /\ \A p \in Queries \ {q} : wpc'[p] = wpc[p]
  BY <1>0, <1>2, Names
<1>4. TypeOK'
  BY <1>0, <1>1, <1>3 DEF TypeOK
<1>5. ASSUME NEW p \in Queries, p # q PROVE Safe(p)'
  BY <1>1, <1>3, <1>5, Frame DEF IInv
<1>6. RunOnce(q)' /\ Phase(q)'
  BY <1>0, <1>1, <1>2, <1>3 DEF Safe, RunOnce, Phase
<1>7. DoneLast(q)'
  BY <1>0, <1>1, <1>2, <1>3 DEF Safe, DoneLast, Received
<1>8. InOrder(q)' /\ Generator(q)' /\ Chained(q)'
  BY <1>0, <1>1 DEF Safe, InOrder, Generator, Chained, Received
<1> QED BY <1>4, <1>5, <1>6, <1>7, <1>8 DEF IInv, Safe

LEMMA SendChunkStep ==
  ASSUME IInv, NEW q \in Queries, SendChunk(q)
  PROVE  IInv'
<1>0. /\ TypeOK /\ Safe(q) /\ MaxRows \in Nat /\ MaxOutstanding \in Nat
      /\ WorkerChunk \in Nat
      /\ wpc \in [Queries -> RunStates] /\ sent \in [Queries -> 0..MaxRows]
      /\ outstanding \in [Queries -> 0..MaxOutstanding]
      /\ size[q] \in 0..MaxRows
  BY ConstantsAssumption DEF IInv, TypeOK
<1>1. UNCHANGED <<adapter, boot, conn, toWorker, size, asked, gen, buffer,
                  schema, done, complete, delivered, lastFlag>>
      /\ wpc[q] = "sending"
      /\ outstanding' = [outstanding EXCEPT ![q] = @ + 1]
      /\ wpc' = [wpc EXCEPT ![q] = IF MustWait(outstanding'[q]) THEN "blocked"
                                                               ELSE "sending"]
  BY DEF SendChunk, mainVars
<1>2. PICK k \in 1..WorkerChunk :
        /\ sent[q] + k < size[q]
        /\ Post(q, <<[type |-> "json", lo |-> sent[q] + 1, hi |-> sent[q] + k]>>)
        /\ sent' = [sent EXCEPT ![q] = @ + k]
  BY DEF SendChunk
<1> DEFINE m == [type |-> "json", lo |-> sent[q] + 1, hi |-> sent[q] + k]
<1>3. k \in Nat /\ sent[q] \in Nat /\ size[q] \in Nat
  BY <1>0
<1>4. /\ m \in Message /\ m.type = "json" /\ m.lo = sent[q] + 1
      /\ m.hi = sent[q] + k
  BY <1>3 DEF Message, MessageTypes
<1>5. Post(q, <<m>>)
  BY <1>2
<1> HIDE DEF m
<1>6. gen[q] \notin {"unused", "connecting"} /\ ~done[q]
      /\ outstanding[q] < MaxOutstanding
  BY <1>0, <1>1 DEF Safe, Phase, RunOnce, DoneLast
<1>7. /\ inbox' \in [Queries -> Seq(Message)]
      /\ \A p \in Queries \ {q} : inbox'[p] = inbox[p]
      /\ Chain(inbox'[q], Received(q), sent[q] + k)
      /\ \A i \in 1..Len(inbox'[q]) : inbox'[q][i].type # "done"
  <2>1. /\ sent[q] <= m.hi /\ (m.type # "json" => m.hi = sent[q])
        /\ m.type # "done" /\ (wpc[q] = "finished" => m.type = "cancelled")
    BY <1>1, <1>3, <1>4
  <2>2. /\ inbox' \in [Queries -> Seq(Message)]
        /\ \A p \in Queries \ {q} : inbox'[p] = inbox[p]
        /\ Chain(inbox'[q], Received(q), m.hi)
        /\ \A i \in 1..Len(inbox'[q]) :
             inbox'[q][i].type = "done" => wpc[q] = "finished"
    BY <1>0, <1>4, <1>5, <2>1, PostOneFacts
  <2> QED BY <1>1, <1>4, <2>2
<1>8. /\ outstanding' \in [Queries -> 0..MaxOutstanding]
      /\ outstanding'[q] = outstanding[q] + 1
      /\ \A p \in Queries \ {q} : outstanding'[p] = outstanding[p]
  BY <1>0, <1>1, <1>6
<1>9. /\ sent' \in [Queries -> 0..MaxRows] /\ sent'[q] = sent[q] + k
      /\ \A p \in Queries \ {q} : sent'[p] = sent[p]
  BY <1>0, <1>2, <1>3
<1>10. /\ wpc' \in [Queries -> RunStates] /\ wpc'[q] \in {"blocked", "sending"}
       /\ wpc'[q] = "sending" => outstanding'[q] < MaxOutstanding
       /\ \A p \in Queries \ {q} : wpc'[p] = wpc[p]
  <2>1. MustWait(outstanding'[q]) <=> outstanding'[q] >= MaxOutstanding
    BY DEF MustWait
  <2>2. outstanding'[q] \in Nat
    BY <1>0, <1>8
  <2> QED BY <1>0, <1>1, <2>1, <2>2, Names
<1>11. TypeOK'
  BY <1>0, <1>1, <1>7, <1>8, <1>9, <1>10 DEF TypeOK
<1>12. ASSUME NEW p \in Queries, p # q PROVE Safe(p)'
  BY <1>1, <1>7, <1>8, <1>9, <1>10, <1>12, Frame DEF IInv
<1>13. RunOnce(q)'
  BY <1>0, <1>1, <1>6, <1>10 DEF Safe, RunOnce
<1>14. Phase(q)'
  BY <1>1, <1>2, <1>3, <1>9, <1>10 DEF Phase
<1>15. DoneLast(q)' /\ Chained(q)'
  BY <1>1, <1>6, <1>7, <1>9, <1>10 DEF DoneLast, Chained, Received
<1>16. InOrder(q)' /\ Generator(q)'
  BY <1>0, <1>1, <1>6 DEF Safe, InOrder, Generator
<1> QED BY <1>11, <1>12, <1>13, <1>14, <1>15, <1>16 DEF IInv, Safe

\* What SendLast posts.
LEMMA ClosingFacts ==
  ASSUME NEW a \in Nat, NEW n \in Nat, a <= n
  PROVE  LET m == Closing(a + 1, n)
         IN /\ m \in Seq(Message) /\ m # <<>> /\ Chain(m, a, n)
            /\ Len(m) \in Nat
            /\ \A i \in 1..Len(m) :
                 m[i].type = "done" => i = Len(m) /\ m[i].hi = n
<1> DEFINE j == [type |-> "json", lo |-> a + 1, hi |-> n]
           e == Note("query-stats", n)
           f == Note("done", n)
           m == Closing(a + 1, n)
<1>1. /\ e \in Message /\ e.type = "query-stats" /\ e.lo = n + 1 /\ e.hi = n
      /\ f \in Message /\ f.type = "done" /\ f.lo = n + 1 /\ f.hi = n
      /\ j \in Message /\ j.type = "json" /\ j.lo = a + 1 /\ j.hi = n
  BY DEF Note, Message, MessageTypes
<1>2. CASE a = n
  <2>1. m = <<>> \o <<e, f>>
    BY <1>2 DEF Closing
  <2> HIDE DEF e, f, j
  <2>2. m = <<e, f>>
    BY <2>1, <1>1
  <2> HIDE DEF m
  <2>3. m \in Seq(Message) /\ Len(m) = 2 /\ m[1] = e /\ m[2] = f
    BY <1>1, <2>2
  <2>4. \A i \in 1..Len(m) : i = 1 \/ i = 2
    BY <2>3
  <2>5. \A i \in 1..Len(m) :
          /\ m[i].lo <= m[i].hi + 1
          /\ m[i].type # "json" => m[i].lo = m[i].hi + 1
          /\ m[i].type = "done" => i = Len(m) /\ m[i].hi = n
    BY <1>1, <1>2, <2>3, <2>4
  <2>6. \A i \in 1..(Len(m) - 1) : m[i + 1].lo = m[i].hi + 1
    <3>1. \A i \in 1..(Len(m) - 1) : i = 1
      BY <2>3
    <3> QED BY <1>1, <1>2, <2>3, <3>1
  <2>7. m # <<>> /\ m[1].lo = a + 1 /\ m[Len(m)].hi = n
    <3>1. m # <<>>
      BY <2>3
    <3>2. m[1].lo = a + 1
      BY <1>1, <1>2, <2>3
    <3>3. m[Len(m)].hi = n
      BY <1>1, <2>3
    <3> QED BY <3>1, <3>2, <3>3
  <2>8. Chain(m, a, n)
    BY <2>5, <2>6, <2>7 DEF Chain
  <2> QED BY <2>3, <2>5, <2>7, <2>8 DEF m
<1>3. CASE a < n
  <2>1. m = <<j>> \o <<e, f>>
    BY <1>3 DEF Closing
  <2> HIDE DEF e, f, j
  <2>2. m = <<j, e, f>>
    BY <2>1, <1>1
  <2> HIDE DEF m
  <2>3. m \in Seq(Message) /\ Len(m) = 3 /\ m[1] = j /\ m[2] = e /\ m[3] = f
    BY <1>1, <2>2
  <2>4. \A i \in 1..Len(m) : i = 1 \/ i = 2 \/ i = 3
    BY <2>3
  <2>5. \A i \in 1..Len(m) :
          /\ m[i].lo <= m[i].hi + 1
          /\ m[i].type # "json" => m[i].lo = m[i].hi + 1
          /\ m[i].type = "done" => i = Len(m) /\ m[i].hi = n
    BY <1>1, <1>3, <2>3, <2>4
  <2>6. \A i \in 1..(Len(m) - 1) : m[i + 1].lo = m[i].hi + 1
    <3>1. \A i \in 1..(Len(m) - 1) : i = 1 \/ i = 2
      BY <2>3
    <3> QED BY <1>1, <1>3, <2>3, <3>1
  <2>7. m # <<>> /\ m[1].lo = a + 1 /\ m[Len(m)].hi = n
    <3>1. m # <<>>
      BY <2>2
    <3>2. m[1].lo = a + 1
      BY <1>1, <1>3, <2>3
    <3>3. m[Len(m)].hi = n
      BY <1>1, <2>3
    <3> QED BY <3>1, <3>2, <3>3
  <2>8. Chain(m, a, n)
    BY <2>5, <2>6, <2>7 DEF Chain
  <2> QED BY <2>3, <2>5, <2>7, <2>8 DEF m
<1> QED BY <1>2, <1>3

LEMMA SendLastStep ==
  ASSUME IInv, NEW q \in Queries, SendLast(q)
  PROVE  IInv'
<1> DEFINE n == size[q]
           m == Closing(sent[q] + 1, n)
           s == inbox[q]
           r == inbox'[q]
<1>0. /\ TypeOK /\ Safe(q) /\ MaxRows \in Nat /\ MaxOutstanding \in Nat
      /\ wpc \in [Queries -> RunStates] /\ sent \in [Queries -> 0..MaxRows]
      /\ outstanding \in [Queries -> 0..MaxOutstanding]
      /\ inbox \in [Queries -> Seq(Message)]
      /\ n \in 0..MaxRows
  BY ConstantsAssumption DEF IInv, TypeOK
<1>1. UNCHANGED <<adapter, boot, conn, toWorker, size, asked, gen, buffer,
                  schema, done, complete, delivered, lastFlag>>
      /\ wpc[q] = "sending"
      /\ outstanding' = [outstanding EXCEPT ![q] = 0]
      /\ wpc' = [wpc EXCEPT ![q] = "finished"]
      /\ sent' = [sent EXCEPT ![q] = n]
  BY DEF SendLast, mainVars
<1>2. sent[q] \in Nat /\ n \in Nat /\ sent[q] <= n
  BY <1>0 DEF Safe, Phase
<1>3. Post(q, m)
  <2>1. sent[q] = size[q] <=> sent[q] + 1 = n + 1
    BY <1>2
  <2> QED BY <2>1 DEF SendLast, Closing
<1>4. /\ m \in Seq(Message) /\ m # <<>> /\ Chain(m, sent[q], n)
      /\ Len(m) \in Nat
      /\ \A i \in 1..Len(m) : m[i].type = "done" => i = Len(m) /\ m[i].hi = n
  BY <1>2, ClosingFacts
<1> HIDE DEF m
<1>5. gen[q] \notin {"unused", "connecting"} /\ ~done[q]
      /\ \A i \in 1..Len(s) : s[i].type # "done"
  BY <1>0, <1>1 DEF Safe, RunOnce, DoneLast
<1>6. /\ inbox' \in [Queries -> Seq(Message)]
      /\ \A p \in Queries \ {q} : inbox'[p] = inbox[p]
      /\ Len(r) = Len(s) + Len(m)
      /\ \A i \in 1..Len(r) :
           r[i] = IF i <= Len(s) THEN s[i] ELSE m[i - Len(s)]
  BY <1>0, <1>3, <1>4, PostFacts
<1>7. Chain(r, Received(q), n)
  BY <1>0, <1>2, <1>3, <1>4, ChainPost DEF Safe
<1>8. Len(s) \in Nat
  BY <1>0
<1> HIDE DEF s, r, n
<1>9. \A i \in 1..Len(r) : r[i].type = "done" => i = Len(r) /\ r[i].hi = n
  <2>1. ASSUME NEW i \in 1..Len(r), r[i].type = "done"
        PROVE  i = Len(r) /\ r[i].hi = n
    <3>1. CASE i <= Len(s)
      BY <1>5, <1>6, <1>8, <2>1, <3>1
    <3>2. CASE i > Len(s)
      <4>1. i - Len(s) \in 1..Len(m) /\ r[i] = m[i - Len(s)]
        BY <1>4, <1>6, <1>8, <3>2
      <4>2. i - Len(s) = Len(m) /\ r[i].hi = n
        BY <1>4, <2>1, <4>1
      <4> QED BY <1>4, <1>6, <1>8, <4>2
    <3> QED BY <1>8, <3>1, <3>2
  <2> QED BY <2>1
<1>10. /\ outstanding' \in [Queries -> 0..MaxOutstanding]
       /\ outstanding'[q] = 0
       /\ wpc' \in [Queries -> RunStates] /\ wpc'[q] = "finished"
       /\ sent' \in [Queries -> 0..MaxRows] /\ sent'[q] = n
       /\ \A p \in Queries \ {q} :
            outstanding'[p] = outstanding[p] /\ wpc'[p] = wpc[p] /\ sent'[p] = sent[p]
  BY <1>0, <1>1, Names
<1>11. TypeOK'
  BY <1>0, <1>1, <1>6, <1>10 DEF TypeOK
<1>12. ASSUME NEW p \in Queries, p # q PROVE Safe(p)'
  BY <1>1, <1>6, <1>10, <1>12, Frame DEF IInv
<1>13. RunOnce(q)'
  BY <1>0, <1>1, <1>5, <1>10 DEF Safe, RunOnce
<1>14. Phase(q)'
  BY <1>1, <1>2, <1>10 DEF Phase, n
<1>15. DoneLast(q)'
  <2>1. \A i, j \in 1..Len(r) :
          i < j /\ r[i].type = "done" => r[j].type = "cancelled"
    <3>1. ASSUME NEW i \in 1..Len(r), NEW j \in 1..Len(r), i < j,
                 r[i].type = "done"
          PROVE  FALSE
      BY <1>9, <3>1, <1>6, <1>8, <1>4
    <3> QED BY <3>1
  <2> QED BY <1>1, <1>5, <1>9, <1>10, <2>1 DEF DoneLast, n, r
<1>16. Chained(q)'
  BY <1>1, <1>7, <1>10 DEF Chained, Received, r
<1>17. InOrder(q)' /\ Generator(q)'
  BY <1>0, <1>1, <1>5 DEF Safe, InOrder, Generator
<1> QED BY <1>11, <1>12, <1>13, <1>14, <1>15, <1>16, <1>17 DEF IInv, Safe

-----------------------------------------------------------------------------
(* The theorems. *)

LEMMA NextIInv == IInv /\ [Next]_vars => IInv'
<1> SUFFICES ASSUME IInv, [Next]_vars PROVE IInv'
  OBVIOUS
<1>1. CASE UNCHANGED vars
  <2>1. UNCHANGED <<adapter, toWorker, inbox, asked, boot, conn, wpc,
                    outstanding, size, sent, gen, buffer, schema, done,
                    complete, delivered, lastFlag>>
    BY <1>1 DEF vars, workerVars, mainVars
  <2>2. TypeOK'
    BY <2>1 DEF IInv, TypeOK
  <2>3. ASSUME NEW p \in Queries PROVE Safe(p)'
    BY <2>1, Frame DEF IInv
  <2> QED BY <2>2, <2>3 DEF IInv
<1>2. CASE Boots \/ Connects \/ HandleWorkerError
  BY <1>2, BootsStep, HandleInitedStep, RejectsStep DEF Connects, Rejects
<1>3. ASSUME NEW q \in Queries,
             StartQuery(q) \/ Pull(q) \/ Abandon(q) \/ Cancel(q)
      PROVE  IInv'
  BY <1>3, StartQueryStep, PullStep, AbandonStep, CancelStep
<1>4. ASSUME NEW q \in Queries, MainHandles(q)
      PROVE  IInv'
  BY <1>4, HandleSchemaStep, HandleRowsStep, HandleStatsStep, HandleDoneStep,
     HandleErrorStep DEF MainHandles
<1>5. ASSUME NEW q \in Queries, WorkerHandles(q)
      PROVE  IInv'
  BY <1>5, HandleRunStep, HandleAckStep, HandleCancelStep DEF WorkerHandles
<1>6. ASSUME NEW q \in Queries,
             EngineAnswers(q) \/ ResetDone(q) \/ Sends(q) \/ Unblock(q)
      PROVE  IInv'
  BY <1>6, QueryReturnsStep, WorkerMoveStep, FailStep, SendChunkStep,
     SendLastStep DEF EngineAnswers, Sends
<1> QED BY <1>1, <1>2, <1>3, <1>4, <1>5, <1>6 DEF Next

\* IInv is an inductive invariant of the protocol.
THEOREM Invariance == Spec => []IInv
BY InitIInv, NextIInv, PTL DEF Spec

\* Every variable keeps its type: in particular a worker never counts more
\* than MAX_OUTSTANDING chunks as unacknowledged, nor fewer than none.
THEOREM TypeCorrectness == Spec => []TypeOK
<1>1. IInv => TypeOK
  BY DEF IInv
<1> QED BY <1>1, Invariance, PTL

\* The consumer is handed the rows in order, each once, for any result, any
\* number of queries and any chunk sizes.
THEOREM OrderIsKept == Spec => []RowsInOrder
<1>1. IInv => RowsInOrder
  <2> SUFFICES ASSUME IInv, NEW q \in Queries
               PROVE  delivered[q] \o buffer[q]
                        = Rows(1, Len(delivered[q]) + Len(buffer[q]))
    BY DEF RowsInOrder
  <2> DEFINE d == delivered[q]
             b == buffer[q]
  <2>1. d \in Seq(Nat) /\ b \in Seq(Nat) /\ Len(d) \in Nat /\ Len(b) \in Nat
    BY DEF IInv, TypeOK
  <2>2. /\ \A i \in 1..Len(d) : d[i] = i
        /\ \A i \in 1..Len(b) : b[i] = Len(d) + i
    BY DEF IInv, Safe, InOrder
  <2> HIDE DEF d, b
  <2>3. /\ d \o b \in Seq(Nat) /\ Len(d \o b) = Len(d) + Len(b)
        /\ \A i \in 1..(Len(d) + Len(b)) :
             (d \o b)[i] = IF i <= Len(d) THEN d[i] ELSE b[i - Len(d)]
    BY <2>1, ConcatProperties
  <2>4. \A i \in 1..(Len(d) + Len(b)) : (d \o b)[i] = i
    <3>1. ASSUME NEW i \in 1..(Len(d) + Len(b)) PROVE (d \o b)[i] = i
      <4>1. CASE i <= Len(d)
        BY <2>1, <2>2, <2>3, <4>1
      <4>2. CASE i > Len(d)
        <5>1. i - Len(d) \in 1..Len(b) /\ Len(d) + (i - Len(d)) = i
          BY <2>1, <4>2
        <5> QED BY <2>2, <2>3, <4>2, <5>1
      <4> QED BY <2>1, <4>1, <4>2
    <3> QED BY <3>1
  <2>5. /\ Rows(1, Len(d) + Len(b)) \in Seq(Nat)
        /\ Len(Rows(1, Len(d) + Len(b))) = Len(d) + Len(b)
        /\ \A i \in 1..(Len(d) + Len(b)) : Rows(1, Len(d) + Len(b))[i] = i
    BY <2>1 DEF Rows
  <2>6. d \o b = Rows(1, Len(d) + Len(b))
    BY <2>1, <2>3, <2>4, <2>5, SeqEqual
  <2> QED BY <2>6 DEF d, b
<1> QED BY <1>1, Invariance, PTL

\* A generator that ends normally has yielded the whole result.
THEOREM WholeResult == Spec => []CompleteIsWhole
<1>1. IInv => CompleteIsWhole
  <2> SUFFICES ASSUME IInv, NEW q \in Queries, gen[q] \in {"ending", "completed"}
               PROVE  delivered[q] = Rows(1, size[q])
    BY DEF CompleteIsWhole
  <2> DEFINE d == delivered[q]
  <2>1. d \in Seq(Nat) /\ Len(d) \in Nat
    BY DEF IInv, TypeOK
  <2>2. buffer[q] = <<>> /\ done[q] /\ sent[q] = size[q]
    BY DEF IInv, Safe, Generator
  <2>3. Received(q) = sent[q]
    BY <2>2 DEF IInv, Safe, DoneLast
  <2>4. Len(d) = size[q]
    BY <2>1, <2>2, <2>3 DEF Received
  <2>5. \A i \in 1..Len(d) : d[i] = i
    BY DEF IInv, Safe, InOrder
  <2> HIDE DEF d
  <2>6. /\ Rows(1, Len(d)) \in Seq(Nat) /\ Len(Rows(1, Len(d))) = Len(d)
        /\ \A i \in 1..Len(d) : Rows(1, Len(d))[i] = i
    BY <2>1 DEF Rows
  <2>7. d = Rows(1, Len(d))
    BY <2>1, <2>5, <2>6, SeqEqual
  <2> QED BY <2>4, <2>7 DEF d
<1> QED BY <1>1, Invariance, PTL

\* A generator that waits has not missed what it waits for.
THEOREM NoWakeupLost == Spec => []NoLostWakeup
<1>1. IInv => NoLostWakeup
  BY DEF IInv, Safe, Generator, NoLostWakeup
<1> QED BY <1>1, Invariance, PTL

\* Only the answer to a cancel follows 'done' in the channel of a query.
THEOREM DoneCloses == Spec => []NothingAfterDone
<1>1. IInv => NothingAfterDone
  BY DEF IInv, Safe, DoneLast, NothingAfterDone
<1> QED BY <1>1, Invariance, PTL

\* duckdb-connector.ts and index.ts: what a consumer gets is the result, row by
\* row, and all of it if the generator ends normally.
THEOREM ExactStream == Spec => []StreamIsExact
<1>1. RowsInOrder /\ CompleteIsWhole => StreamIsExact
  BY DEF StreamIsExact
<1> QED BY <1>1, OrderIsKept, WholeResult, PTL

-----------------------------------------------------------------------------
(* The stream that the consumer sees.  Each step of the protocol is a step *)
(* of QueryStream or leaves what the consumer sees as it is.               *)

\* The least of a set of numbers.
Below == {p \in Nat \X Nat : p[1] < p[2]}

LEMMA BelowIsWellFounded == IsWellFoundedOn(Below, Nat)
BY NatLessThanWellFounded DEF OpToRel, Below

LEMMA Least ==
  ASSUME NEW S, S # {}, S \subseteq Nat
  PROVE  \E x \in S : \A y \in S : x <= y
<1>1. PICK x \in S : \A y \in S : ~(<<y, x>> \in Below)
  BY BelowIsWellFounded, WFMin
<1>2. ASSUME NEW y \in S PROVE x <= y
  <2>1. x \in Nat /\ y \in Nat /\ <<y, x>> \in Nat \X Nat
    OBVIOUS
  <2>2. ~(<<y, x>>[1] < <<y, x>>[2])
    BY <1>1, <2>1 DEF Below
  <2> QED
    BY <2>1, <2>2
<1> QED
  BY <1>2

\* A channel only carries rows that follow those already received.
LEMMA ChainMonotone ==
  ASSUME NEW s \in Seq(Message), NEW a \in Nat, NEW b \in Nat, Chain(s, a, b)
  PROVE  a <= b
<1> DEFINE Early == {i \in 1..Len(s) : s[i].hi < a}
<1>0. \A i \in 1..Len(s) : s[i].hi \in Nat /\ s[i].lo \in Nat
  <2>1. \A i \in 1..Len(s) : s[i] \in Message
    OBVIOUS
  <2> QED BY <2>1 DEF Message
<1>1. ASSUME Early # {} PROVE FALSE
  <2>1. PICK i \in Early : \A j \in Early : i <= j
    <3>1. Early \subseteq Nat
      OBVIOUS
    <3> QED BY <1>1, <3>1, Least
  <2>2. i \in 1..Len(s) /\ s[i].hi < a /\ s[i].lo <= s[i].hi + 1
    BY DEF Chain
  <2>3. CASE i = 1
    <3>1. s # <<>>
      BY <2>2, <2>3
    <3>2. s[1].lo = a + 1
      BY <3>1 DEF Chain
    <3> QED BY <1>0, <2>2, <2>3, <3>2
  <2>4. CASE i # 1
    <3>1. i - 1 \in 1..Len(s) /\ i - 1 \in 1..(Len(s) - 1) /\ (i - 1) + 1 = i
      BY <2>2, <2>4
    <3>2. ~(s[i - 1].hi < a)
      BY <2>1, <3>1
    <3>3. s[i].lo = s[i - 1].hi + 1
      BY <3>1 DEF Chain
    <3> QED BY <1>0, <2>2, <3>1, <3>2, <3>3
  <2> QED BY <2>3, <2>4
<1>2. CASE s = <<>>
  BY <1>2 DEF Chain
<1>3. CASE s # <<>>
  <2>1. Len(s) \in 1..Len(s) /\ s[Len(s)].hi = b
    BY <1>3 DEF Chain
  <2>2. ~(s[Len(s)].hi < a)
    BY <1>1, <2>1
  <2> QED BY <1>0, <2>1, <2>2
<1> QED BY <1>2, <1>3

\* What has been received has been sent, and belongs to the result.
WithinResult ==
  \A q \in Queries : Len(delivered[q]) <= Received(q) /\ Received(q) <= size[q]

LEMMA ReceivedBelowSize == IInv => WithinResult
<1> SUFFICES ASSUME IInv, NEW q \in Queries
             PROVE  Len(delivered[q]) <= Received(q) /\ Received(q) <= size[q]
  BY DEF WithinResult
<1>1. /\ inbox[q] \in Seq(Message) /\ delivered[q] \in Seq(Nat)
      /\ buffer[q] \in Seq(Nat) /\ sent[q] \in Nat /\ size[q] \in Nat
      /\ Len(delivered[q]) \in Nat /\ Len(buffer[q]) \in Nat
  BY ConstantsAssumption DEF IInv, TypeOK
<1>2. Received(q) \in Nat /\ Len(delivered[q]) <= Received(q)
  <2>1. \A i, j \in Nat : i + j \in Nat /\ i <= i + j
    OBVIOUS
  <2> QED BY Zenon, <1>1, <2>1 DEF Received
<1>3. Chain(inbox[q], Received(q), sent[q]) /\ sent[q] <= size[q]
  BY DEF IInv, Safe, Chained, Phase
<1>4. Received(q) <= sent[q]
  BY <1>1, <1>2, <1>3, ChainMonotone
<1> QED BY <1>1, <1>2, <1>3, <1>4

\* The generators of WorkerProtocol: one at a time connects.
OneConnects ==
  /\ adapter = "none" => \A q \in Queries : gen[q] # "connecting"
  /\ \A p, q \in Queries :
       gen[p] = "connecting" /\ gen[q] = "connecting" => p = q

SInv == IInv /\ OneConnects

\* A step that starts no adapter makes no query connect.
LEMMA NoneConnects ==
  ASSUME OneConnects, adapter' = "none" => adapter = "none",
         \A q \in Queries : gen'[q] = "connecting" => gen[q] = "connecting"
  PROVE  OneConnects'
BY DEF OneConnects

LEMMA OneConnectsStep == SInv /\ [Next]_vars => OneConnects'
<1> SUFFICES ASSUME SInv, [Next]_vars PROVE OneConnects'
  OBVIOUS
<1>0. TypeOK /\ OneConnects /\ gen \in [Queries -> GenStates]
  BY DEF SInv, IInv, TypeOK
<1>1. CASE UNCHANGED vars
  BY <1>0, <1>1, NoneConnects DEF vars, mainVars
<1>2. CASE Boots
  BY <1>0, <1>2, NoneConnects
     DEF Boots, OpenConnection, FailInit, PostInited, mainVars
<1>3. CASE Connects \/ HandleWorkerError
  <2>1. adapter' # "none"
    BY <1>3 DEF Connects, HandleInited, HandleInitError, HandleWorkerError,
                RejectInit
  <2>2. \A q \in Queries : gen'[q] # "connecting"
    BY <1>0, <1>3 DEF Connects, HandleInited, HandleInitError,
                      HandleWorkerError, RejectInit
  <2> QED BY <1>0, <2>1, <2>2, NoneConnects
<1>4. ASSUME NEW q \in Queries, StartQuery(q) PROVE OneConnects'
  <2>1. CASE adapter = "none" /\ adapter' = "starting"
             /\ gen' = [gen EXCEPT ![q] = "connecting"]
    <3>1. \A p \in Queries : gen'[p] = "connecting" => p = q
      BY <1>0, <2>1 DEF OneConnects
    <3> QED BY <2>1, <3>1 DEF OneConnects
  <2>2. CASE adapter # "none" /\ adapter' = adapter
             /\ gen' = [gen EXCEPT ![q] = "waiting"]
    BY <1>0, <2>2, NoneConnects
  <2> QED BY <1>4, <2>1, <2>2 DEF StartQuery
<1>5. ASSUME NEW q \in Queries, Pull(q) \/ Abandon(q) \/ Cancel(q)
      PROVE  OneConnects'
  <2>1. adapter' = adapter
    BY <1>5 DEF Pull, Abandon, Cancel
  <2>2. gen' = gen \/ \E g \in GenStates \ {"connecting"} :
                        gen' = [gen EXCEPT ![q] = g]
    BY <1>5, Names DEF Pull, Abandon, Cancel, Yield, GoTo, Finish, mainVars
  <2> QED BY <1>0, <2>1, <2>2, NoneConnects
<1>6. ASSUME NEW q \in Queries, MainHandles(q) PROVE OneConnects'
  <2>1. adapter' = adapter
    BY <1>6 DEF MainHandles, HandleSchema, HandleRows, HandleStats, HandleDone,
                HandleError
  <2>2. \A p \in Queries : gen'[p] = "connecting" => gen[p] = "connecting"
    <3>1. CASE HandleSchema(q) \/ HandleStats(q)
      BY <3>1 DEF HandleSchema, HandleStats, mainVars
    <3>2. CASE HandleRows(q)
      BY <1>0, <3>2 DEF HandleRows
    <3>3. CASE HandleDone(q)
      BY <1>0, <3>3 DEF HandleDone, Yield, GoTo, Finish
    <3>4. CASE HandleError(q)
      BY <1>0, <3>4 DEF HandleError, FailWaiting
    <3> QED BY <1>6, <3>1, <3>2, <3>3, <3>4 DEF MainHandles
  <2> QED BY <1>0, <2>1, <2>2, NoneConnects
<1>7. ASSUME NEW q \in Queries,
             WorkerHandles(q) \/ EngineAnswers(q) \/ ResetDone(q) \/ Sends(q)
             \/ Unblock(q)
      PROVE  OneConnects'
  <2>1. adapter' = adapter /\ gen' = gen
    BY <1>7 DEF WorkerHandles, HandleRun, HandleAck, HandleCancel,
       EngineAnswers, QueryReturns, QueryThrows, QueryFatal, ResetDone, Sends,
       SendChunk, SendLast, SendFails, Unblock, mainVars
  <2> QED BY <1>0, <2>1, NoneConnects
<1> QED BY <1>1, <1>2, <1>3, <1>4, <1>5, <1>6, <1>7 DEF Next

LEMMA StreamInvariance == Spec => []SInv
<1>1. Init => SInv
  BY InitIInv DEF Init, SInv, OneConnects
<1>2. SInv /\ [Next]_vars => SInv'
  BY NextIInv, OneConnectsStep DEF SInv
<1> QED BY <1>1, <1>2, PTL DEF Spec

-----------------------------------------------------------------------------
(* What a step shows of a query. *)

LEMMA StatusFacts ==
  /\ StatusOf("unused") = "new" /\ StatusOf("completed") = "complete"
  /\ StatusOf("failed") = "failed" /\ StatusOf("abandoned") = "left"
  /\ StatusOf("connecting") = "open" /\ StatusOf("waiting") = "open"
  /\ StatusOf("yielded") = "open" /\ StatusOf("ending") = "open"
BY DEF StatusOf

LEMMA StatusMoves ==
  ASSUME TypeOK, NEW q \in Queries, NEW g, gen' = [gen EXCEPT ![q] = g]
  PROVE  StreamStatus' = [StreamStatus EXCEPT ![q] = StatusOf(g)]
BY DEF StreamStatus, TypeOK

LEMMA StatusStays ==
  ASSUME TypeOK, NEW q \in Queries, NEW g, gen' = [gen EXCEPT ![q] = g],
         StatusOf(g) = StatusOf(gen[q])
  PROVE  UNCHANGED StreamStatus
BY DEF StreamStatus, TypeOK

\* A step the consumer does not see.
LEMMA Unseen ==
  ASSUME UNCHANGED <<StreamStatus, size, delivered>>
  PROVE  [Stream!Next]_(Stream!vars)
BY DEF Stream!vars

\* The rows handed out by a step are the next rows of the result.
LEMMA DeliverMoves ==
  ASSUME IInv, IInv', NEW q \in Queries, gen[q] \in {"waiting", "yielded"},
         UNCHANGED <<StreamStatus, size>>, NEW d,
         delivered' = [delivered EXCEPT ![q] = d], Len(d) > Len(delivered[q])
  PROVE  Stream!Deliver(q)
<1> DEFINE o == delivered[q]
           m == Len(o)
           n == Len(d)
<1>1. delivered'[q] = d
  BY DEF IInv, TypeOK
<1>2. d \in Seq(Nat) /\ n \in Nat /\ o \in Seq(Nat) /\ m \in Nat
      /\ size[q] \in Nat
  BY <1>1, ConstantsAssumption DEF IInv, TypeOK
<1>3. WithinResult'
  BY ReceivedBelowSize, PTL
<1>4. n <= size[q] /\ n \in (m + 1)..size[q]
  <2>1. Len(delivered'[q]) <= Received(q)' /\ Received(q)' <= size'[q]
    BY <1>3 DEF WithinResult
  <2>2. Received(q)' \in Nat
    BY ConstantsAssumption DEF IInv, TypeOK, Received
  <2> QED BY <1>1, <1>2, <2>1, <2>2
<1>5. (\A i \in 1..m : o[i] = i) /\ (\A i \in 1..n : d[i] = i)
  BY <1>1 DEF IInv, Safe, InOrder
<1> DEFINE r == Stream!RowRange(m + 1, n)
<1> HIDE DEF o, m, n
<1>6. r \in Seq(Nat) /\ Len(r) = n - m /\ \A i \in 1..(n - m) : r[i] = m + i
  BY <1>2, <1>4 DEF Stream!RowRange
<1>7. o \o r = d
  <2> HIDE DEF r
  <2>1. /\ o \o r \in Seq(Nat) /\ Len(o \o r) = n
        /\ \A i \in 1..n : (o \o r)[i] = IF i <= m THEN o[i] ELSE r[i - m]
    <3>1. o \in Seq(Nat) /\ Len(o) = m
      BY <1>2 DEF m
    <3>2. /\ o \o r \in Seq(Nat) /\ Len(o \o r) = Len(o) + Len(r)
          /\ \A i \in 1..Len(o) + Len(r) :
               (o \o r)[i] = IF i <= Len(o) THEN o[i] ELSE r[i - Len(o)]
      BY <1>6, <3>1, ConcatProperties
    <3>3. m + (n - m) = n
      BY <1>2, <1>4
    <3> QED BY <1>6, <3>1, <3>2, <3>3
  <2>2. ASSUME NEW i \in 1..n PROVE (o \o r)[i] = d[i]
    <3>1. CASE i <= m
      BY <1>2, <1>5, <2>1, <3>1
    <3>2. CASE i > m
      <4>1. i - m \in 1..(n - m) /\ m + (i - m) = i /\ ~(i <= m)
        BY <1>2, <1>4, <3>2
      <4> QED BY <1>5, <1>6, <2>1, <4>1
    <3>3. i <= m \/ i > m
      <4>1. i \in Int /\ m \in Int
        BY <1>2
      <4> QED BY <4>1
    <3> QED BY Zenon, <3>1, <3>2, <3>3
  <2> QED BY <1>2, <2>1, <2>2, SeqEqual DEF n
<1>8. delivered' = [delivered EXCEPT ![q] = @ \o Stream!RowRange(Len(@) + 1, n)]
  BY <1>7 DEF o, m
<1>9. StreamStatus[q] = "open"
  BY StatusFacts DEF StreamStatus
<1>10. n \in (Len(delivered[q]) + 1)..size[q]
  BY <1>4 DEF o, m
<1> QED BY <1>8, <1>9, <1>10 DEF Stream!Deliver

-----------------------------------------------------------------------------
(* The steps. *)

\* The generator yields the first rows of its buffer.
LEMMA YieldSeen ==
  ASSUME IInv, IInv', NEW q \in Queries, gen[q] \in {"waiting", "yielded"},
         NEW n \in Nat, 1 <= n, n <= Len(buffer[q]), NEW flag \in BOOLEAN,
         Yield(q, n, flag), UNCHANGED size
  PROVE  Stream!Deliver(q)
<1> DEFINE d == Yielded(delivered[q], buffer[q], n)
<1>0. TypeOK /\ delivered[q] \in Seq(Nat) /\ buffer[q] \in Seq(Nat)
  BY DEF IInv, TypeOK
<1>1. delivered' = [delivered EXCEPT ![q] = d]
      /\ gen' = [gen EXCEPT ![q] = "yielded"]
  BY DEF Yield, Yielded
<1>2. UNCHANGED StreamStatus
  BY <1>0, <1>1, StatusFacts, StatusStays
<1>3. Len(d) = Len(delivered[q]) + n
  <2>1. SubSeq(buffer[q], 1, n) \in Seq(Nat) /\ Len(SubSeq(buffer[q], 1, n)) = n
    BY <1>0
  <2> HIDE DEF d
  <2> QED BY <1>0, <2>1, ConcatProperties DEF Yielded, d
<1>4. Len(d) > Len(delivered[q])
  <2>1. Len(delivered[q]) \in Nat
    BY <1>0
  <2> QED BY <1>3, <2>1
<1> HIDE DEF d
<1> QED BY <1>1, <1>2, <1>4, DeliverMoves

\* The end of the generator's loop: only a whole result completes.
LEMMA EndSeen ==
  ASSUME IInv, IInv', NEW q \in Queries, StatusOf(gen[q]) = "open",
         NEW g \in {"failed", "completed", "abandoned"},
         gen' = [gen EXCEPT ![q] = g],
         UNCHANGED <<size, delivered>>
  PROVE  Stream!Complete(q) \/ Stream!Fail(q) \/ Stream!Leave(q)
<1>0. TypeOK /\ StreamStatus[q] = "open"
  BY DEF IInv, StreamStatus
<1>1. StreamStatus' = [StreamStatus EXCEPT ![q] = StatusOf(g)]
  BY <1>0, StatusMoves
<1>2. CASE g = "completed"
  <2>1. gen'[q] = "completed"
    BY <1>0, <1>2 DEF TypeOK
  <2>2. buffer'[q] = <<>> /\ done'[q] /\ sent'[q] = size'[q]
    BY <2>1 DEF IInv, Safe, Generator
  <2>3. Len(delivered'[q]) + Len(buffer'[q]) = sent'[q]
    BY <2>2 DEF IInv, Safe, DoneLast, Received
  <2>4. Len(delivered'[q]) = size'[q]
    <3>1. Len(delivered'[q]) \in Nat
      BY DEF IInv, TypeOK
    <3> QED BY <2>2, <2>3, <3>1
  <2> QED BY <1>0, <1>1, <1>2, <2>4, StatusFacts DEF Stream!Complete
<1>3. CASE g = "failed"
  BY <1>0, <1>1, <1>3, StatusFacts DEF Stream!Fail
<1>4. CASE g = "abandoned"
  BY <1>0, <1>1, <1>4, StatusFacts DEF Stream!Leave
<1> QED BY <1>2, <1>3, <1>4

LEMMA StreamSteps ==
  ASSUME NEW q \in Queries,
         \/ Stream!Open(q) \/ Stream!Answer(q) \/ Stream!Deliver(q)
         \/ Stream!Complete(q) \/ Stream!Fail(q) \/ Stream!Leave(q)
  PROVE  [Stream!Next]_(Stream!vars)
BY DEF Stream!Next

LEMMA FinishSeen ==
  ASSUME IInv, IInv', NEW q \in Queries, gen[q] \in {"waiting", "yielded"},
         Finish(q), UNCHANGED size
  PROVE  [Stream!Next]_(Stream!vars)
<1>0. StatusOf(gen[q]) = "open" /\ TypeOK /\ UNCHANGED delivered
  BY StatusFacts DEF IInv, Finish, GoTo
<1>1. CASE \E g \in {"failed", "completed"} : gen' = [gen EXCEPT ![q] = g]
  BY <1>0, <1>1, EndSeen, StreamSteps
<1>2. CASE gen' = [gen EXCEPT ![q] = "ending"]
  BY <1>0, <1>2, StatusFacts, StatusStays, Unseen
<1> QED BY <1>1, <1>2 DEF Finish, GoTo

LEMMA StartQuerySeen ==
  ASSUME IInv, NEW q \in Queries, StartQuery(q)
  PROVE  Stream!Open(q)
<1>0. TypeOK /\ StreamStatus[q] = "new" /\ UNCHANGED <<size, delivered>>
  BY StatusFacts DEF IInv, StartQuery, StreamStatus
<1>1. PICK g \in {"connecting", "waiting"} : gen' = [gen EXCEPT ![q] = g]
  BY DEF StartQuery
<1>2. StreamStatus' = [StreamStatus EXCEPT ![q] = "open"]
  <2>1. StatusOf(g) = "open"
    BY StatusFacts
  <2>2. StreamStatus' = [StreamStatus EXCEPT ![q] = StatusOf(g)]
    BY <1>0, <1>1, StatusMoves
  <2> QED BY <2>1, <2>2
<1> QED BY <1>0, <1>2 DEF Stream!Open

LEMMA ConnectsSeen ==
  ASSUME SInv, IInv', HandleInited \/ Rejects
  PROVE  [Stream!Next]_(Stream!vars)
<1>0. TypeOK /\ IInv /\ gen \in [Queries -> GenStates]
      /\ UNCHANGED <<size, delivered>>
  BY DEF SInv, IInv, TypeOK, HandleInited, Rejects, HandleInitError,
         HandleWorkerError, RejectInit
<1>1. CASE HandleInited
  <2>1. UNCHANGED StreamStatus
    BY <1>0, <1>1, StatusFacts DEF HandleInited, StreamStatus
  <2> QED BY <1>0, <2>1, Unseen
<1>2. CASE Rejects /\ \A q \in Queries : gen[q] # "connecting"
  <2>1. UNCHANGED StreamStatus
    BY <1>0, <1>2 DEF Rejects, HandleInitError, HandleWorkerError, RejectInit,
                      StreamStatus
  <2> QED BY <1>0, <2>1, Unseen
<1>3. ASSUME Rejects, NEW q \in Queries, gen[q] = "connecting"
      PROVE  [Stream!Next]_(Stream!vars)
  <2>1. \A p \in Queries : gen[p] = "connecting" => p = q
    BY <1>3 DEF SInv, OneConnects
  <2>2. gen' = [gen EXCEPT ![q] = "failed"]
    BY <1>0, <1>3, <2>1 DEF Rejects, HandleInitError, HandleWorkerError,
                            RejectInit
  <2> QED BY <1>0, <1>3, <2>2, StatusFacts, EndSeen, StreamSteps
<1> QED BY <1>1, <1>2, <1>3

LEMMA PullSeen ==
  ASSUME IInv, IInv', NEW q \in Queries, Pull(q)
  PROVE  [Stream!Next]_(Stream!vars)
<1>0. TypeOK /\ UNCHANGED size /\ buffer[q] \in Seq(Nat) /\ Len(buffer[q]) \in Nat
      /\ ChunkSize \in Nat \ {0}
  BY ConstantsAssumption DEF IInv, TypeOK, Pull
<1>1. ASSUME gen[q] = "yielded", NEW f \in BOOLEAN, Len(buffer[q]) >= 1,
             Yield(q, Len(buffer[q]), f)
      PROVE  [Stream!Next]_(Stream!vars)
  BY <1>0, <1>1, YieldSeen, StreamSteps
<1>2. ASSUME gen[q] = "yielded",
             GoTo(q, IF complete[q] = "rejected" THEN "failed" ELSE "waiting")
      PROVE  [Stream!Next]_(Stream!vars)
  <2>0. StatusOf(gen[q]) = "open" /\ UNCHANGED delivered
    BY <1>2, StatusFacts DEF GoTo
  <2>1. CASE gen' = [gen EXCEPT ![q] = "failed"]
    BY <1>0, <2>0, <2>1, EndSeen, StreamSteps
  <2>2. CASE gen' = [gen EXCEPT ![q] = "waiting"]
    BY <1>0, <2>0, <2>2, StatusFacts, StatusStays, Unseen
  <2> QED BY <1>2, <2>1, <2>2 DEF GoTo
<1>3. ASSUME gen[q] = "ending", GoTo(q, "completed")
      PROVE  [Stream!Next]_(Stream!vars)
  BY <1>0, <1>3, StatusFacts, EndSeen, StreamSteps DEF GoTo
<1>4. ASSUME gen[q] = "yielded", Finish(q)
      PROVE  [Stream!Next]_(Stream!vars)
  BY <1>0, <1>4, FinishSeen
<1>5. CASE /\ gen[q] = "yielded" /\ Len(buffer[q]) >= ChunkSize
           /\ Yield(q, Len(buffer[q]), FALSE)
  <2>1. Len(buffer[q]) >= 1 /\ FALSE \in BOOLEAN
    BY <1>0, <1>5
  <2> QED BY <1>1, <1>5, <2>1
<1>6. CASE /\ gen[q] = "yielded" /\ Len(buffer[q]) \in 1..(ChunkSize - 1)
           /\ Yield(q, Len(buffer[q]), TRUE)
  <2>1. Len(buffer[q]) >= 1 /\ TRUE \in BOOLEAN
    BY <1>6
  <2> QED BY <1>1, <1>6, <2>1
<1> QED BY Zenon, <1>2, <1>3, <1>4, <1>5, <1>6 DEF Pull

LEMMA HandleRowsSeen ==
  ASSUME IInv, IInv', NEW q \in Queries, HandleRows(q)
  PROVE  [Stream!Next]_(Stream!vars)
<1> DEFINE m == Head(inbox[q])
           rows == buffer[q] \o Rows(m.lo, m.hi)
           x == SubSeq(rows, 1, ChunkSize)
           d == delivered[q] \o x
<1>0. TypeOK /\ UNCHANGED size /\ ChunkSize \in Nat \ {0}
      /\ delivered[q] \in Seq(Nat) /\ buffer[q] \in Seq(Nat)
  BY ConstantsAssumption DEF IInv, TypeOK, HandleRows, workerVars
<1>1. CASE UNCHANGED <<delivered, gen>>
  <2>1. UNCHANGED StreamStatus
    BY <1>1 DEF StreamStatus
  <2> QED BY <1>0, <1>1, <2>1, Unseen
<1>2. ASSUME gen[q] = "waiting", Len(rows) >= ChunkSize,
             delivered' = [delivered EXCEPT ![q] = d],
             gen' = [gen EXCEPT ![q] = "yielded"]
      PROVE  [Stream!Next]_(Stream!vars)
  <2>1. Rows(m.lo, m.hi) \in Seq(Nat)
    <3>1. inbox[q] # <<>> /\ inbox[q] \in Seq(Message)
      BY <1>0 DEF HandleRows, Receive, TypeOK
    <3>2. m \in Message /\ m = inbox[q][1]
      BY <3>1
    <3>3. Chain(inbox[q], Received(q), sent[q]) /\ Received(q) \in Nat
      BY DEF IInv, TypeOK, Safe, Chained, Received
    <3>4. m.lo \in Nat /\ m.hi \in Nat
      BY <3>2 DEF Message
    <3>5. m.lo = Received(q) + 1 /\ m.lo <= m.hi + 1
      BY <3>1, <3>2, <3>3 DEF Chain
    <3> HIDE DEF m
    <3>6. 1 <= m.lo
      BY <3>3, <3>5
    <3> QED BY <3>4, <3>5, <3>6, RowsFacts
  <2>2. rows \in Seq(Nat)
    BY <1>0, <2>1, ConcatProperties
  <2> HIDE DEF rows
  <2>3. x \in Seq(Nat) /\ Len(x) = ChunkSize
    BY <1>0, <1>2, <2>2
  <2> HIDE DEF x
  <2>4. Len(d) = Len(delivered[q]) + ChunkSize
    BY <1>0, <2>3, ConcatProperties
  <2> HIDE DEF d
  <2>5. Len(d) > Len(delivered[q])
    <3>1. Len(delivered[q]) \in Nat
      BY <1>0
    <3> QED BY <1>0, <2>4, <3>1
  <2>6. UNCHANGED StreamStatus
    BY <1>0, <1>2, StatusFacts, StatusStays
  <2>7. Stream!Deliver(q)
    BY <1>0, <1>2, <2>5, <2>6, DeliverMoves
  <2> QED BY <2>7, StreamSteps
<1> QED BY <1>1, <1>2 DEF HandleRows

LEMMA MainHandlesSeen ==
  ASSUME IInv, IInv', NEW q \in Queries, MainHandles(q)
  PROVE  [Stream!Next]_(Stream!vars)
<1>0. TypeOK /\ UNCHANGED size
  BY DEF IInv, MainHandles, HandleSchema, HandleRows, HandleStats, HandleDone,
         HandleError, workerVars
<1>1. CASE HandleSchema(q) \/ HandleStats(q)
  <2>1. UNCHANGED <<gen, delivered>>
    BY <1>1 DEF HandleSchema, HandleStats, mainVars
  <2>2. UNCHANGED StreamStatus
    BY <2>1 DEF StreamStatus
  <2> QED BY <1>0, <2>1, <2>2, Unseen
<1>2. CASE HandleDone(q)
  <2>1. CASE UNCHANGED <<gen, delivered>>
    <3>1. UNCHANGED StreamStatus
      BY <2>1 DEF StreamStatus
    <3> QED BY <1>0, <2>1, <3>1, Unseen
  <2>2. CASE gen[q] = "waiting" /\ buffer[q] # <<>>
             /\ Yield(q, Len(buffer[q]), FALSE)
    <3>1. Len(buffer[q]) \in Nat /\ 1 <= Len(buffer[q])
      BY <1>0, <2>2 DEF TypeOK
    <3>2. Stream!Deliver(q)
      <4>1. FALSE \in BOOLEAN /\ Len(buffer[q]) <= Len(buffer[q])
            /\ gen[q] \in {"waiting", "yielded"} /\ UNCHANGED size
        BY <1>0, <2>2, <3>1
      <4> QED BY <2>2, <3>1, <4>1, YieldSeen
    <3> QED BY <3>2, StreamSteps
  <2>3. CASE gen[q] = "waiting" /\ Finish(q)
    BY <1>0, <2>3, FinishSeen
  <2> QED BY <1>2, <2>1, <2>2, <2>3 DEF HandleDone
<1>3. CASE HandleError(q)
  <2>0. UNCHANGED delivered
    BY <1>3 DEF HandleError
  <2>1. CASE gen[q] = "waiting"
    <3>1. gen' = [gen EXCEPT ![q] = "failed"]
      BY <1>3, <2>1 DEF HandleError, FailWaiting
    <3> QED BY <1>0, <2>0, <2>1, <3>1, StatusFacts, EndSeen, StreamSteps
  <2>2. CASE gen[q] # "waiting"
    <3>1. gen' = gen
      BY <1>0, <1>3, <2>2 DEF HandleError, FailWaiting, TypeOK
    <3>2. UNCHANGED StreamStatus
      BY <3>1 DEF StreamStatus
    <3> QED BY <1>0, <2>0, <3>2, Unseen
  <2> QED BY <2>1, <2>2
<1> QED BY <1>1, <1>2, <1>3, HandleRowsSeen DEF MainHandles

\* The engine answers a query that has been opened and has delivered nothing.
LEMMA QueryReturnsSeen ==
  ASSUME IInv, NEW q \in Queries, QueryReturns(q)
  PROVE  Stream!Answer(q)
<1>0. TypeOK /\ UNCHANGED <<gen, delivered>> /\ wpc[q] = "executing"
  BY DEF IInv, QueryReturns, mainVars
<1>1. UNCHANGED StreamStatus
  BY <1>0 DEF StreamStatus
<1>2. gen[q] # "unused"
  BY <1>0 DEF IInv, Safe, RunOnce
<1>3. gen[q] # "completed"
  BY <1>0 DEF IInv, Safe, Generator, DoneLast
<1>4. StreamStatus[q] \notin {"new", "complete"}
  BY <1>0, <1>2, <1>3, StatusFacts DEF StreamStatus, StatusOf
<1>5. delivered[q] = <<>>
  <2>1. WithinResult /\ size[q] = 0
    BY <1>0, ReceivedBelowSize DEF IInv, Safe, Phase
  <2>2. delivered[q] \in Seq(Nat) /\ buffer[q] \in Seq(Nat)
        /\ Len(delivered[q]) \in Nat /\ Len(buffer[q]) \in Nat
    BY <1>0 DEF TypeOK
  <2>3. Len(delivered[q]) = 0
    <3>1. Len(delivered[q]) + Len(buffer[q]) <= 0
      BY <2>1 DEF WithinResult, Received
    <3>2. \A i, j \in Nat : i + j <= 0 => i = 0
      OBVIOUS
    <3> QED BY <2>2, <3>1, <3>2
  <2> QED BY <2>2, <2>3
<1>6. \E n \in 0..MaxRows : size' = [size EXCEPT ![q] = n]
  BY DEF QueryReturns
<1> QED BY <1>0, <1>1, <1>4, <1>5, <1>6 DEF Stream!Answer

\* The worker's other steps, the boot and the requests do not show.
LEMMA HiddenSteps ==
  ASSUME IInv, NEW q \in Queries,
         \/ Boots \/ Cancel(q) \/ WorkerHandles(q) \/ QueryThrows(q)
         \/ QueryFatal(q) \/ ResetDone(q) \/ Sends(q) \/ Unblock(q)
  PROVE  [Stream!Next]_(Stream!vars)
<1>1. UNCHANGED <<gen, size, delivered>>
  BY DEF Boots, OpenConnection, FailInit, PostInited, Cancel, WorkerHandles,
     HandleRun, HandleAck, HandleCancel, QueryThrows, QueryFatal, ResetDone,
     Sends, SendChunk, SendLast, SendFails, Unblock, workerVars, mainVars
<1>2. UNCHANGED StreamStatus
  BY <1>1 DEF StreamStatus
<1> QED BY <1>1, <1>2, Unseen

LEMMA StreamStep == SInv /\ IInv' /\ [Next]_vars => [Stream!Next]_(Stream!vars)
<1> SUFFICES ASSUME SInv, IInv', [Next]_vars
             PROVE  [Stream!Next]_(Stream!vars)
  OBVIOUS
<1>0. IInv /\ TypeOK
  BY DEF SInv, IInv
<1>1. CASE UNCHANGED vars
  <2>1. UNCHANGED <<gen, size, delivered>>
    BY <1>1 DEF vars, workerVars, mainVars
  <2>2. UNCHANGED StreamStatus
    BY <2>1 DEF StreamStatus
  <2> QED BY <2>1, <2>2, Unseen
<1>2. CASE Boots
  <2>1. UNCHANGED <<gen, size, delivered>>
    BY <1>2 DEF Boots, OpenConnection, FailInit, PostInited, mainVars
  <2>2. UNCHANGED StreamStatus
    BY <2>1 DEF StreamStatus
  <2> QED BY <2>1, <2>2, Unseen
<1>3. CASE Connects \/ HandleWorkerError
  BY <1>3, ConnectsSeen DEF Connects, Rejects
<1>4. ASSUME NEW q \in Queries, StartQuery(q)
      PROVE  [Stream!Next]_(Stream!vars)
  BY <1>0, <1>4, StartQuerySeen, StreamSteps
<1>5. ASSUME NEW q \in Queries, Abandon(q)
      PROVE  [Stream!Next]_(Stream!vars)
  BY <1>0, <1>5, StatusFacts, EndSeen, StreamSteps DEF Abandon, GoTo
<1>6. ASSUME NEW q \in Queries, Pull(q) \/ MainHandles(q)
      PROVE  [Stream!Next]_(Stream!vars)
  BY <1>0, <1>6, PullSeen, MainHandlesSeen
<1>7. ASSUME NEW q \in Queries, QueryReturns(q)
      PROVE  [Stream!Next]_(Stream!vars)
  BY <1>0, <1>7, QueryReturnsSeen, StreamSteps
<1>8. ASSUME NEW q \in Queries,
             \/ Cancel(q) \/ WorkerHandles(q) \/ QueryThrows(q)
             \/ QueryFatal(q) \/ ResetDone(q) \/ Sends(q) \/ Unblock(q)
      PROVE  [Stream!Next]_(Stream!vars)
  BY <1>0, <1>8, HiddenSteps
<1> QED BY <1>1, <1>2, <1>3, <1>4, <1>5, <1>6, <1>7, <1>8
        DEF Next, EngineAnswers

\* index.ts and duckdb-connector.ts: what the consumer of a query sees, through
\* the worker, its channels and the flow control, is a QueryStream.
THEOREM StreamImplemented == Spec => ImplementsStream
<1>1. Init => Stream!Init
  <2> SUFFICES ASSUME Init PROVE Stream!Init
    OBVIOUS
  <2>1. StreamStatus = [q \in Queries |-> "new"]
    BY StatusFacts DEF Init, StreamStatus
  <2> QED BY <2>1 DEF Init, Stream!Init
<1>2. SInv /\ SInv' /\ [Next]_vars => [Stream!Next]_(Stream!vars)
  BY StreamStep DEF SInv
<1> QED BY <1>1, <1>2, StreamInvariance, PTL DEF Spec, ImplementsStream, Stream!Spec

-----------------------------------------------------------------------------
(* Flow control.  What is counted in a channel. *)

Places(s, T) == {i \in 1..Len(s) : s[i] \in T}
CountIn(s, T) == Cardinality(Places(s, T))

LEMMA CountFacts ==
  ASSUME NEW S, NEW s \in Seq(S), NEW T
  PROVE  /\ IsFiniteSet(Places(s, T)) /\ CountIn(s, T) \in Nat
         /\ CountIn(s, T) = 0 <=> \A i \in 1..Len(s) : s[i] \notin T
<1>1. Len(s) \in Nat /\ IsFiniteSet(1..Len(s))
  BY FS_Interval
<1>2. Places(s, T) \in SUBSET (1..Len(s))
  BY DEF Places
<1>3. IsFiniteSet(Places(s, T))
  BY <1>1, <1>2, FS_Subset
<1>4. CountIn(s, T) \in Nat
  BY <1>3, FS_CardinalityType DEF CountIn
<1>5. CountIn(s, T) = 0 <=> Places(s, T) = {}
  BY <1>3, FS_EmptySet DEF CountIn
<1>6. Places(s, T) = {} <=> \A i \in 1..Len(s) : s[i] \notin T
  BY DEF Places
<1> QED BY <1>3, <1>4, <1>5, <1>6

LEMMA CountSubset ==
  ASSUME NEW S, NEW s \in Seq(S), NEW T, NEW U, T \subseteq U
  PROVE  CountIn(s, T) <= CountIn(s, U)
<1>1. IsFiniteSet(Places(s, U)) /\ Places(s, T) \in SUBSET Places(s, U)
  BY CountFacts DEF Places
<1> QED BY <1>1, FS_Subset DEF CountIn

\* An element more at the end.
LEMMA CountAppend ==
  ASSUME NEW S, NEW s \in Seq(S), NEW e \in S, NEW T
  PROVE  CountIn(Append(s, e), T)
           = IF e \in T THEN CountIn(s, T) + 1 ELSE CountIn(s, T)
<1> DEFINE r == Append(s, e)
           n == Len(s)
<1>1. /\ n \in Nat /\ Len(r) = n + 1 /\ r[n + 1] = e
      /\ \A i \in 1..n : r[i] = s[i]
  BY AppendProperties
<1> HIDE DEF r, n
<1>2. 1..(n + 1) = (1..n) \cup {n + 1} /\ n + 1 \notin 1..n
  BY <1>1
<1>3. n + 1 \notin Places(s, T) /\ IsFiniteSet(Places(s, T))
  BY <1>2, CountFacts DEF Places, n
<1>4. CASE e \in T
  <2>1. Places(r, T) = Places(s, T) \cup {n + 1}
    BY <1>1, <1>2, <1>4 DEF Places, n
  <2> QED BY <1>3, <1>4, <2>1, FS_AddElement DEF CountIn, r
<1>5. CASE e \notin T
  <2>1. Places(r, T) = Places(s, T)
    BY <1>1, <1>2, <1>5 DEF Places, n
  <2> QED BY <1>5, <2>1 DEF CountIn, r
<1> QED BY <1>4, <1>5

\* The first element leaves.
LEMMA CountTail ==
  ASSUME NEW S, NEW s \in Seq(S), s # <<>>, NEW T
  PROVE  CountIn(s, T)
           = IF s[1] \in T THEN CountIn(Tail(s), T) + 1 ELSE CountIn(Tail(s), T)
<1> DEFINE r == Tail(s)
           n == Len(s)
           P == Places(r, T)
           Q == {i + 1 : i \in P}
           f == [i \in P |-> i + 1]
<1>1. /\ n \in Nat \ {0} /\ Len(r) = n - 1 /\ r \in Seq(S)
      /\ \A i \in 1..(n - 1) : r[i] = s[i + 1]
  BY HeadTailProperties
<1>2. IsFiniteSet(P) /\ P \subseteq 1..(n - 1)
  BY <1>1, CountFacts DEF Places
<1>3. IsFiniteSet(Q) /\ Cardinality(Q) = CountIn(r, T)
  <2>1. f \in [P -> Q] /\ (\A a, b \in P : f[a] = f[b] => a = b)
        /\ \A t \in Q : \E a \in P : f[a] = t
    <3>1. \A i \in P : i \in Int
      BY <1>2
    <3> HIDE DEF P
    <3> QED BY <3>1
  <2>2. ExistsBijection(P, Q)
    <3>1. f \in Injection(P, Q)
      BY <2>1 DEF Injection, IsInjective
    <3>2. f \in Surjection(P, Q)
      BY <2>1 DEF Surjection
    <3> QED BY <3>1, <3>2 DEF ExistsBijection, Bijection
  <2> QED BY <1>2, <2>2, FS_Bijection DEF CountIn
<1>4. \A i \in 1..n : i = 1 \/ i - 1 \in 1..(n - 1)
  BY <1>1
<1>5. Places(s, T) = Q \cup (IF s[1] \in T THEN {1} ELSE {})
  <2>1. ASSUME NEW i \in Places(s, T)
        PROVE  i \in Q \cup (IF s[1] \in T THEN {1} ELSE {})
    <3>1. i \in 1..n /\ s[i] \in T
      BY DEF Places
    <3>2. CASE i = 1
      BY <3>1, <3>2
    <3>3. CASE i - 1 \in 1..(n - 1)
      <4>1. r[i - 1] = s[i] /\ (i - 1) + 1 = i
        BY <1>1, <3>1, <3>3
      <4>2. i - 1 \in P
        BY <1>1, <3>1, <3>3, <4>1 DEF Places
      <4> QED BY <4>1, <4>2
    <3> QED BY <1>4, <3>1, <3>2, <3>3
  <2>2. ASSUME NEW i \in Q PROVE i \in Places(s, T)
    <3>1. PICK k \in P : i = k + 1
      OBVIOUS
    <3>2. k \in 1..(n - 1) /\ r[k] \in T
      BY <1>1 DEF Places
    <3>3. i \in 1..n /\ s[i] \in T
      BY <1>1, <3>1, <3>2
    <3> QED BY <3>3 DEF Places
  <2>3. s[1] \in T => 1 \in Places(s, T)
    BY <1>1 DEF Places
  <2> QED BY <2>1, <2>2, <2>3
<1>6. 1 \notin Q
  BY <1>2
<1> HIDE DEF Q, P
<1>7. CASE s[1] \in T
  BY <1>3, <1>5, <1>6, <1>7, FS_AddElement DEF CountIn
<1>8. CASE s[1] \notin T
  <2>1. Places(s, T) = Q
    BY <1>5, <1>8
  <2> QED BY <1>3, <1>8, <2>1 DEF CountIn
<1> QED BY <1>7, <1>8

-----------------------------------------------------------------------------
(* The invariant: a message that is not acknowledged is on its way to the  *)
(* main thread, or its ACK is on its way back; all but one are counted.    *)

Chunks == {m \in Message : m.type = "json"}
Acked == {m \in Message : m.type \in {"json", "json-schema"}}

ChunksTo(q) == CountIn(inbox[q], Chunks)
AckedTo(q) == CountIn(inbox[q], Acked)
AcksFrom(q) == CountIn(toWorker[q], {"ack"})

Window(q) ==
  /\ wpc[q] \in {"idle", "executing", "resetting"} =>
       AckedTo(q) + AcksFrom(q) = 0
  /\ wpc[q] \in {"sending", "blocked"} =>
       AckedTo(q) + AcksFrom(q) <= outstanding[q] + 1
  /\ ChunksTo(q) <= MaxOutstanding + 1

FInv == IInv /\ \A q \in Queries : Window(q)

CountsOK ==
  \A q \in Queries :
    /\ ChunksTo(q) \in Nat /\ AckedTo(q) \in Nat /\ AcksFrom(q) \in Nat
    /\ outstanding[q] \in 0..MaxOutstanding /\ MaxOutstanding \in Nat \ {0}
    /\ ChunksTo(q) <= AckedTo(q)
    /\ inbox[q] \in Seq(Message) /\ toWorker[q] \in Seq(Requests)

LEMMA CountsType == TypeOK => CountsOK
<1> SUFFICES ASSUME TypeOK, NEW q \in Queries
             PROVE  /\ ChunksTo(q) \in Nat /\ AckedTo(q) \in Nat
                    /\ AcksFrom(q) \in Nat
                    /\ outstanding[q] \in 0..MaxOutstanding
                    /\ MaxOutstanding \in Nat \ {0}
                    /\ ChunksTo(q) <= AckedTo(q)
                    /\ inbox[q] \in Seq(Message) /\ toWorker[q] \in Seq(Requests)
  BY DEF CountsOK
<1>1. inbox[q] \in Seq(Message) /\ toWorker[q] \in Seq(Requests)
      /\ outstanding[q] \in 0..MaxOutstanding /\ MaxOutstanding \in Nat \ {0}
  BY ConstantsAssumption DEF TypeOK
<1>2. Chunks \subseteq Acked
  BY DEF Chunks, Acked
<1>3. ChunksTo(q) \in Nat /\ AckedTo(q) \in Nat /\ AcksFrom(q) \in Nat
  BY <1>1, CountFacts DEF ChunksTo, AckedTo, AcksFrom
<1>4. ChunksTo(q) <= AckedTo(q)
  BY <1>1, <1>2, CountSubset DEF ChunksTo, AckedTo
<1> QED BY <1>1, <1>3, <1>4

LEMMA FTypes ==
  ASSUME FInv
  PROVE  /\ TypeOK /\ CountsOK
         /\ inbox \in [Queries -> Seq(Message)]
         /\ toWorker \in [Queries -> Seq(Requests)]
         /\ wpc \in [Queries -> RunStates]
         /\ outstanding \in [Queries -> 0..MaxOutstanding]
         /\ \A q \in Queries : /\ sent[q] \in Nat /\ size[q] \in Nat
                               /\ Safe(q) /\ Window(q)
<1>1. TypeOK /\ \A q \in Queries : Safe(q) /\ Window(q)
  BY DEF FInv, IInv
<1>2. CountsOK
  BY <1>1, CountsType
<1>3. MaxRows \in Nat
  BY ConstantsAssumption
<1> QED BY <1>1, <1>2, <1>3 DEF TypeOK

\* A step that adds nothing to what is unacknowledged.
LEMMA WindowKept ==
  ASSUME CountsOK, CountsOK', NEW q \in Queries, Window(q),
         ChunksTo(q)' <= ChunksTo(q),
         AckedTo(q)' + AcksFrom(q)' <= AckedTo(q) + AcksFrom(q),
         UNCHANGED <<wpc, outstanding>>
  PROVE  Window(q)'
<1>1. /\ ChunksTo(q) \in Nat /\ AckedTo(q) \in Nat /\ AcksFrom(q) \in Nat
      /\ outstanding[q] \in Nat /\ MaxOutstanding \in Nat
      /\ ChunksTo(q)' \in Nat /\ AckedTo(q)' \in Nat /\ AcksFrom(q)' \in Nat
  BY DEF CountsOK
<1> QED BY <1>1 DEF Window

\* A query whose channels and whose run stay as they are.
LEMMA WindowFrame ==
  ASSUME NEW p \in Queries, Window(p), inbox'[p] = inbox[p],
         toWorker'[p] = toWorker[p], wpc'[p] = wpc[p],
         outstanding'[p] = outstanding[p]
  PROVE  Window(p)'
BY DEF Window, ChunksTo, AckedTo, AcksFrom

\* A request that is not an ACK is posted, or taken.
LEMMA RequestWindow ==
  ASSUME CountsOK, CountsOK', NEW q \in Queries, Window(q),
         NEW r \in Requests, r # "ack",
         \/ toWorker'[q] = Append(toWorker[q], r)
         \/ toWorker[q] # <<>> /\ Head(toWorker[q]) = r
            /\ toWorker'[q] = Tail(toWorker[q])
  PROVE  AcksFrom(q)' = AcksFrom(q)
<1>0. toWorker[q] \in Seq(Requests)
  BY DEF CountsOK
<1>1. CASE toWorker'[q] = Append(toWorker[q], r)
  <2>1. r \notin {"ack"}
    OBVIOUS
  <2> QED BY <1>0, <1>1, <2>1, CountAppend DEF AcksFrom
<1>2. CASE toWorker[q] # <<>> /\ Head(toWorker[q]) = r
           /\ toWorker'[q] = Tail(toWorker[q])
  <2>1. toWorker[q][1] \notin {"ack"}
    BY <1>0, <1>2
  <2> QED BY <1>0, <1>2, <2>1, CountTail DEF AcksFrom
<1> QED BY <1>1, <1>2

\* The main thread receives a message.
LEMMA TailCounts ==
  ASSUME CountsOK, CountsOK', NEW q \in Queries, inbox[q] # <<>>,
         inbox'[q] = Tail(inbox[q])
  PROVE  /\ ChunksTo(q)' <= ChunksTo(q) /\ AckedTo(q)' <= AckedTo(q)
         /\ inbox[q][1] \in Acked => AckedTo(q) = AckedTo(q)' + 1
<1>1. /\ ChunksTo(q) \in Nat /\ AckedTo(q) \in Nat /\ inbox[q] \in Seq(Message)
      /\ ChunksTo(q)' \in Nat /\ AckedTo(q)' \in Nat
  BY DEF CountsOK
<1>2. ChunksTo(q) = IF inbox[q][1] \in Chunks THEN ChunksTo(q)' + 1
                                              ELSE ChunksTo(q)'
  BY <1>1, CountTail DEF ChunksTo
<1>3. AckedTo(q) = IF inbox[q][1] \in Acked THEN AckedTo(q)' + 1
                                            ELSE AckedTo(q)'
  BY <1>1, CountTail DEF AckedTo
<1> QED BY <1>1, <1>2, <1>3

\* It acknowledges rows and schemas.
LEMMA ReceiveWindow ==
  ASSUME FInv, CountsOK', NEW q \in Queries, MainHandles(q), NEW p \in Queries
  PROVE  Window(p)'
<1>0. TypeOK /\ Window(p) /\ Window(q)
  BY DEF FInv, IInv
<1>c. CountsOK
  BY <1>0, CountsType
<1>1. /\ UNCHANGED <<wpc, outstanding>> /\ inbox[q] # <<>>
      /\ inbox' = [inbox EXCEPT ![q] = Tail(inbox[q])]
      /\ \/ UNCHANGED toWorker
         \/ /\ PostAck(q) /\ Head(inbox[q]).type \in {"json-schema", "json"}
  BY DEF MainHandles, HandleSchema, HandleRows, HandleStats, HandleDone,
         HandleError, Receive, workerVars
<1>2. CASE p # q
  BY <1>0, <1>1, <1>2, WindowFrame DEF PostAck, TypeOK
<1>3. CASE p = q
  <2>1. inbox'[q] = Tail(inbox[q])
    BY <1>0, <1>1 DEF TypeOK
  <2>2. /\ ChunksTo(q)' <= ChunksTo(q) /\ AckedTo(q)' <= AckedTo(q)
        /\ inbox[q][1] \in Acked => AckedTo(q) = AckedTo(q)' + 1
    BY <1>1, <1>c, <2>1, TailCounts
  <2>t. /\ AckedTo(q) \in Nat /\ AckedTo(q)' \in Nat /\ AcksFrom(q) \in Nat
        /\ AcksFrom(q)' \in Nat
    BY <1>c DEF CountsOK
  <2>3. AckedTo(q)' + AcksFrom(q)' <= AckedTo(q) + AcksFrom(q)
    <3>1. CASE UNCHANGED toWorker
      <4>1. AcksFrom(q)' = AcksFrom(q)
        BY <3>1 DEF AcksFrom
      <4> QED BY <2>2, <2>t, <4>1
    <3>2. CASE PostAck(q) /\ Head(inbox[q]).type \in {"json-schema", "json"}
      <4>1. inbox[q][1] \in Acked
        <5>1. inbox[q] \in Seq(Message) /\ inbox[q] # <<>>
          BY <1>1, <1>c DEF CountsOK
        <5>2. inbox[q][1] \in Message /\ inbox[q][1] = Head(inbox[q])
          BY <5>1
        <5> QED BY <3>2, <5>2 DEF Acked
      <4>2. toWorker'[q] = Append(toWorker[q], "ack") /\ "ack" \in Requests
        BY <1>0, <3>2, Names DEF PostAck, TypeOK
      <4>3. toWorker[q] \in Seq(Requests) /\ "ack" \in {"ack"}
        BY <1>c DEF CountsOK
      <4>4. AcksFrom(q)' = AcksFrom(q) + 1
        BY <4>2, <4>3, CountAppend DEF AcksFrom
      <4> QED BY <2>2, <2>t, <4>1, <4>4
    <3> QED BY <1>1, <3>1, <3>2
  <2> QED BY <1>0, <1>1, <1>3, <1>c, <2>2, <2>3, WindowKept
<1> QED BY <1>2, <1>3

\* The worker posts one message, of which a part is a chunk.
LEMMA PostCounts ==
  ASSUME CountsOK, NEW q \in Queries, NEW m \in Message,
         inbox'[q] = inbox[q] \o <<m>>
  PROVE  /\ ChunksTo(q)' = ChunksTo(q) + (IF m.type = "json" THEN 1 ELSE 0)
         /\ AckedTo(q)' = AckedTo(q)
                          + (IF m.type \in {"json", "json-schema"} THEN 1 ELSE 0)
<1>1. inbox[q] \in Seq(Message) /\ ChunksTo(q) \in Nat /\ AckedTo(q) \in Nat
  BY DEF CountsOK
<1>2. inbox'[q] = Append(inbox[q], m)
  BY <1>1
<1>3. ChunksTo(q)' = IF m \in Chunks THEN ChunksTo(q) + 1 ELSE ChunksTo(q)
  <2>1. CountIn(Append(inbox[q], m), Chunks)
          = IF m \in Chunks THEN CountIn(inbox[q], Chunks) + 1
                            ELSE CountIn(inbox[q], Chunks)
    BY <1>1, CountAppend
  <2> QED BY <1>2, <2>1 DEF ChunksTo
<1>4. AckedTo(q)' = IF m \in Acked THEN AckedTo(q) + 1 ELSE AckedTo(q)
  <2>1. CountIn(Append(inbox[q], m), Acked)
          = IF m \in Acked THEN CountIn(inbox[q], Acked) + 1
                           ELSE CountIn(inbox[q], Acked)
    BY <1>1, CountAppend
  <2> QED BY <1>2, <2>1 DEF AckedTo
<1> QED BY <1>1, <1>3, <1>4 DEF Chunks, Acked

\* The messages that end a run carry one chunk at most.
LEMMA EndCounts ==
  ASSUME NEW s \in Seq(Message), NEW e \in Message, NEW f \in Message,
         e.type # "json", f.type # "json"
  PROVE  /\ CountIn(s \o <<e, f>>, Chunks) = CountIn(s, Chunks)
         /\ \A j \in Message :
              CountIn(s \o <<j, e, f>>, Chunks) <= CountIn(s, Chunks) + 1
<1>1. ASSUME NEW t \in Seq(Message)
      PROVE  CountIn(Append(Append(t, e), f), Chunks) = CountIn(t, Chunks)
  <2>1. e \notin Chunks /\ f \notin Chunks
    BY DEF Chunks
  <2>2. Append(t, e) \in Seq(Message)
    BY AppendProperties
  <2>3. CountIn(Append(t, e), Chunks) = CountIn(t, Chunks)
    BY <2>1, CountAppend
  <2>4. CountIn(Append(Append(t, e), f), Chunks) = CountIn(Append(t, e), Chunks)
    BY <2>1, <2>2, CountAppend
  <2> QED BY <2>3, <2>4
<1>2. s \o <<e, f>> = Append(Append(s, e), f)
  OBVIOUS
<1>3. ASSUME NEW j \in Message
      PROVE  CountIn(s \o <<j, e, f>>, Chunks) <= CountIn(s, Chunks) + 1
  <2>1. Append(s, j) \in Seq(Message) /\ CountIn(s, Chunks) \in Nat
    BY AppendProperties, CountFacts
  <2>2. s \o <<j, e, f>> = Append(Append(Append(s, j), e), f)
    OBVIOUS
  <2>3. CountIn(Append(s, j), Chunks) <= CountIn(s, Chunks) + 1
    BY <2>1, CountAppend
  <2> QED BY <1>1, <2>1, <2>2, <2>3
<1> QED BY <1>1, <1>2, <1>3

-----------------------------------------------------------------------------
(* The steps. *)

LEMMA RequestStep ==
  ASSUME FInv, CountsOK', NEW q \in Queries, NEW r \in Requests, r # "ack",
         \/ toWorker' = [toWorker EXCEPT ![q] = Append(@, r)]
         \/ Take(q, r),
         UNCHANGED <<inbox, wpc, outstanding>>, NEW p \in Queries
  PROVE  Window(p)'
<1>0. TypeOK /\ Window(p) /\ CountsOK /\ toWorker \in [Queries -> Seq(Requests)]
  BY CountsType DEF FInv, IInv, TypeOK
<1>1. CASE p # q
  <2>1. toWorker'[p] = toWorker[p]
    BY <1>0, <1>1 DEF Take
  <2> QED BY <1>0, <2>1, WindowFrame
<1>2. CASE p = q
  <2>1. \/ toWorker'[q] = Append(toWorker[q], r)
        \/ toWorker[q] # <<>> /\ Head(toWorker[q]) = r
           /\ toWorker'[q] = Tail(toWorker[q])
    BY <1>0 DEF Take
  <2>2. AcksFrom(q)' = AcksFrom(q)
    BY <1>0, <1>2, <2>1, RequestWindow
  <2>3. ChunksTo(q)' = ChunksTo(q) /\ AckedTo(q)' = AckedTo(q)
    BY DEF ChunksTo, AckedTo
  <2>4. ChunksTo(q) \in Nat /\ AckedTo(q) \in Nat /\ AcksFrom(q) \in Nat
    BY <1>0 DEF CountsOK
  <2> QED BY <1>0, <1>2, <2>2, <2>3, <2>4, WindowKept
<1> QED BY <1>1, <1>2

\* An ACK gives back one chunk, or the one that was never counted.
LEMMA AckStep ==
  ASSUME FInv, CountsOK', NEW q \in Queries, HandleAck(q), NEW p \in Queries
  PROVE  Window(p)'
<1>0. TypeOK /\ Window(p) /\ CountsOK /\ toWorker \in [Queries -> Seq(Requests)]
      /\ outstanding \in [Queries -> 0..MaxOutstanding]
  BY CountsType DEF FInv, IInv, TypeOK
<1>1. /\ toWorker' = [toWorker EXCEPT ![q] = Tail(toWorker[q])]
      /\ toWorker[q] # <<>> /\ Head(toWorker[q]) = "ack"
      /\ outstanding' = [outstanding EXCEPT ![q] = Credit(outstanding[q])]
      /\ UNCHANGED <<inbox, wpc>>
  BY DEF HandleAck, Take
<1>2. CASE p # q
  BY <1>0, <1>1, <1>2, WindowFrame
<1>3. CASE p = q
  <2>1. toWorker[q] \in Seq(Requests) /\ toWorker[q][1] \in {"ack"}
        /\ toWorker'[q] = Tail(toWorker[q])
    BY <1>0, <1>1
  <2>2. AcksFrom(q) = AcksFrom(q)' + 1
    BY <1>1, <2>1, CountTail DEF AcksFrom
  <2>3. ChunksTo(q)' = ChunksTo(q) /\ AckedTo(q)' = AckedTo(q)
    BY <1>1 DEF ChunksTo, AckedTo
  <2>4. /\ ChunksTo(q) \in Nat /\ AckedTo(q) \in Nat /\ AcksFrom(q) \in Nat
        /\ AcksFrom(q)' \in Nat /\ outstanding[q] \in Nat
    BY <1>0 DEF CountsOK
  <2>5. outstanding'[q] = IF outstanding[q] = 0 THEN 0 ELSE outstanding[q] - 1
    BY <1>0, <1>1 DEF Credit
  <2>6. Window(q)
    BY <1>0, <1>3
  <2>7. Window(q)'
    BY <1>1, <2>2, <2>3, <2>4, <2>5, <2>6 DEF Window
  <2> QED BY <1>3, <2>7
<1> QED BY <1>2, <1>3

\* A run ends: at most one chunk is posted without being counted.
LEMMA EndStep ==
  ASSUME FInv, CountsOK', NEW q \in Queries, Safe(q),
         wpc' = [wpc EXCEPT ![q] = "finished"],
         outstanding' = [outstanding EXCEPT ![q] = 0],
         \/ wpc[q] \in {"idle", "executing", "resetting", "sending"}
            /\ ChunksTo(q)' = ChunksTo(q)
         \/ wpc[q] = "sending" /\ ChunksTo(q)' <= ChunksTo(q) + 1,
         \A p \in Queries \ {q} : inbox'[p] = inbox[p] /\ toWorker'[p] = toWorker[p],
         NEW p \in Queries
  PROVE  Window(p)'
<1>0. TypeOK /\ Window(p) /\ Window(q) /\ CountsOK
  BY CountsType DEF FInv, IInv
<1>1. CASE p # q
  BY <1>0, <1>1, WindowFrame DEF TypeOK
<1>2. CASE p = q
  <2>1. wpc'[q] = "finished"
    BY <1>0 DEF TypeOK
  <2>2. /\ ChunksTo(q) \in Nat /\ AckedTo(q) \in Nat /\ AcksFrom(q) \in Nat
        /\ ChunksTo(q)' \in Nat /\ ChunksTo(q) <= AckedTo(q)
        /\ outstanding[q] \in Nat /\ MaxOutstanding \in Nat
    BY <1>0 DEF CountsOK
  <2>3. wpc[q] = "sending" => outstanding[q] < MaxOutstanding
    BY DEF Safe, Phase
  <2>4. ChunksTo(q)' <= MaxOutstanding + 1
    BY <1>0, <2>2, <2>3 DEF Window
  <2>5. Window(q)'
    BY <2>1, <2>4 DEF Window
  <2> QED BY <1>2, <2>5
<1> QED BY <1>1, <1>2

LEMMA FailureStep ==
  ASSUME FInv, CountsOK', NEW q \in Queries, PostFailure(q),
         wpc[q] \in {"idle", "executing", "resetting", "sending"},
         \A p \in Queries \ {q} : toWorker'[p] = toWorker[p],
         NEW p \in Queries
  PROVE  Window(p)'
<1>0. TypeOK /\ Safe(q) /\ CountsOK /\ inbox \in [Queries -> Seq(Message)]
      /\ inbox[q] \in Seq(Message) /\ sent[q] \in Nat
  BY FTypes
<1> DEFINE e == Note("error", sent[q])
           f == Note("done", sent[q])
<1>1. e \in Message /\ f \in Message /\ e.type # "json" /\ f.type # "json"
  BY <1>0, NoteFacts DEF MessageTypes
<1>2. inbox' = [inbox EXCEPT ![q] = inbox[q] \o <<e, f>>]
  BY DEF PostFailure, Post
<1> HIDE DEF e, f
<1>3. ChunksTo(q)' = ChunksTo(q)
  BY <1>0, <1>1, <1>2, EndCounts DEF ChunksTo
<1>4. \A r \in Queries \ {q} : inbox'[r] = inbox[r]
  BY <1>0, <1>2
<1> QED BY <1>0, <1>3, <1>4, EndStep DEF PostFailure

LEMMA ThreeMessages ==
  ASSUME NEW S, NEW j \in S, NEW e \in S, NEW f \in S
  PROVE  <<j>> \o <<e, f>> = <<j, e, f>>
<1> DEFINE m == <<j>> \o <<e, f>>
           t == <<j, e, f>>
<1>1. m \in Seq(S) /\ t \in Seq(S) /\ Len(m) = 3 /\ Len(t) = 3
  BY ConcatProperties
<1>2. m[1] = j /\ m[2] = e /\ m[3] = f
  BY ConcatProperties
<1>3. t[1] = j /\ t[2] = e /\ t[3] = f
  OBVIOUS
<1> HIDE DEF m, t
<1>4. \A i \in 1..3 : m[i] = t[i]
  BY <1>2, <1>3
<1>5. m = t
  BY <1>1, <1>4, SeqEqual
<1> QED BY <1>5 DEF m, t

LEMMA SendLastWindow ==
  ASSUME FInv, CountsOK', NEW q \in Queries, SendLast(q), NEW p \in Queries
  PROVE  Window(p)'
<1> DEFINE e == Note("query-stats", size[q])
           f == Note("done", size[q])
           j == [type |-> "json", lo |-> sent[q] + 1, hi |-> size[q]]
<1>0. TypeOK /\ Safe(q) /\ CountsOK /\ inbox \in [Queries -> Seq(Message)]
      /\ inbox[q] \in Seq(Message) /\ sent[q] \in Nat /\ size[q] \in Nat
      /\ UNCHANGED toWorker /\ wpc[q] = "sending"
  BY FTypes DEF SendLast
<1>1. e \in Message /\ f \in Message /\ e.type # "json" /\ f.type # "json"
  BY <1>0, NoteFacts DEF MessageTypes
<1>2. j \in Message
  BY <1>0 DEF Message, MessageTypes
<1>3. \/ inbox' = [inbox EXCEPT ![q] = @ \o (<<>> \o <<e, f>>)]
      \/ inbox' = [inbox EXCEPT ![q] = @ \o (<<j>> \o <<e, f>>)]
  BY DEF SendLast, Post
<1> HIDE DEF e, f, j
<1>4. <<>> \o <<e, f>> = <<e, f>> /\ <<j>> \o <<e, f>> = <<j, e, f>>
  <2>1. <<>> \o <<e, f>> = <<e, f>>
    BY <1>1
  <2>2. <<j>> \o <<e, f>> = <<j, e, f>>
    BY <1>1, <1>2, ThreeMessages
  <2> QED BY <2>1, <2>2
<1>5. inbox'[q] = inbox[q] \o <<e, f>> \/ inbox'[q] = inbox[q] \o <<j, e, f>>
  BY <1>0, <1>3, <1>4
<1>6. ChunksTo(q)' <= ChunksTo(q) + 1
  <2>1. ChunksTo(q) \in Nat
    BY <1>0 DEF CountsOK
  <2>2. CASE inbox'[q] = inbox[q] \o <<e, f>>
    <3>1. ChunksTo(q)' = ChunksTo(q)
      BY <1>0, <1>1, <2>2, EndCounts DEF ChunksTo
    <3> QED BY <2>1, <3>1
  <2>3. CASE inbox'[q] = inbox[q] \o <<j, e, f>>
    BY <1>0, <1>1, <1>2, <2>3, EndCounts DEF ChunksTo
  <2> QED BY <1>5, <2>2, <2>3
<1>7. \A r \in Queries \ {q} : inbox'[r] = inbox[r]
  BY <1>0, <1>3
<1> QED BY <1>0, <1>6, <1>7, EndStep DEF SendLast

LEMMA SendChunkWindow ==
  ASSUME FInv, CountsOK', NEW q \in Queries, SendChunk(q), NEW p \in Queries
  PROVE  Window(p)'
<1>0. /\ TypeOK /\ CountsOK /\ Window(p) /\ Window(q)
      /\ wpc[q] = "sending" /\ UNCHANGED toWorker
      /\ outstanding \in [Queries -> 0..MaxOutstanding] /\ sent[q] \in Nat
      /\ inbox \in [Queries -> Seq(Message)] /\ wpc \in [Queries -> RunStates]
  BY FTypes DEF SendChunk
<1>1. PICK k \in 1..WorkerChunk :
        inbox' = [inbox EXCEPT ![q] = @ \o
                    <<[type |-> "json", lo |-> sent[q] + 1, hi |-> sent[q] + k]>>]
  BY DEF SendChunk, Post
<1>2. /\ outstanding' = [outstanding EXCEPT ![q] = outstanding[q] + 1]
      /\ \E w \in {"blocked", "sending"} : wpc' = [wpc EXCEPT ![q] = w]
  BY DEF SendChunk
<1>3. CASE p # q
  BY <1>0, <1>1, <1>2, <1>3, WindowFrame
<1>4. CASE p = q
  <2> DEFINE m == [type |-> "json", lo |-> sent[q] + 1, hi |-> sent[q] + k]
  <2>1. m \in Message /\ m.type = "json"
    BY <1>0, ConstantsAssumption DEF Message, MessageTypes
  <2>2. inbox'[q] = inbox[q] \o <<m>>
    BY <1>0, <1>1
  <2> HIDE DEF m
  <2>3. ChunksTo(q)' = ChunksTo(q) + 1 /\ AckedTo(q)' = AckedTo(q) + 1
    BY <1>0, <2>1, <2>2, PostCounts
  <2>4. AcksFrom(q)' = AcksFrom(q)
    BY <1>0 DEF AcksFrom
  <2>5. /\ wpc'[q] \in {"blocked", "sending"}
        /\ outstanding'[q] = outstanding[q] + 1
    BY <1>0, <1>2
  <2>6. /\ ChunksTo(q) \in Nat /\ AckedTo(q) \in Nat /\ AcksFrom(q) \in Nat
        /\ ChunksTo(q) <= AckedTo(q)
        /\ outstanding[q] \in Nat /\ MaxOutstanding \in Nat
        /\ outstanding'[q] \in 0..MaxOutstanding
    BY <1>0 DEF CountsOK
  <2>7. AckedTo(q) + AcksFrom(q) <= outstanding[q] + 1
    BY <1>0 DEF Window
  <2>8. /\ AckedTo(q)' + AcksFrom(q)' <= outstanding'[q] + 1
        /\ ChunksTo(q)' <= MaxOutstanding + 1
    BY <2>3, <2>4, <2>5, <2>6, <2>7
  <2>9. wpc'[q] \notin {"idle", "executing", "resetting"}
    BY <2>5
  <2>10. Window(q)'
    BY <2>8, <2>9 DEF Window
  <2> QED BY <1>4, <2>10
<1> QED BY <1>3, <1>4

\* The engine's answer: the schema is acknowledged, but not counted.
LEMMA QueryReturnsWindow ==
  ASSUME FInv, CountsOK', NEW q \in Queries, QueryReturns(q), NEW p \in Queries
  PROVE  Window(p)'
<1>0. /\ TypeOK /\ CountsOK /\ Window(p) /\ Window(q)
      /\ wpc[q] = "executing" /\ UNCHANGED <<toWorker, outstanding>>
      /\ inbox \in [Queries -> Seq(Message)] /\ wpc \in [Queries -> RunStates]
      /\ wpc' = [wpc EXCEPT ![q] = "sending"]
  BY CountsType DEF FInv, IInv, TypeOK, QueryReturns
<1>1. \/ UNCHANGED inbox
      \/ inbox' = [inbox EXCEPT ![q] = @ \o <<Note("json-schema", 0)>>]
  BY DEF QueryReturns, Post
<1>2. CASE p # q
  BY <1>0, <1>1, <1>2, WindowFrame
<1>3. CASE p = q
  <2>1. /\ ChunksTo(q)' = ChunksTo(q) /\ AckedTo(q)' \in {AckedTo(q), AckedTo(q) + 1}
    <3>1. CASE UNCHANGED inbox
      BY <3>1 DEF ChunksTo, AckedTo
    <3>2. CASE inbox' = [inbox EXCEPT ![q] = @ \o <<Note("json-schema", 0)>>]
      <4>1. Note("json-schema", 0) \in Message
            /\ Note("json-schema", 0).type = "json-schema"
        BY NoteFacts DEF MessageTypes
      <4>2. inbox'[q] = inbox[q] \o <<Note("json-schema", 0)>>
        BY <1>0, <3>2
      <4>3. ChunksTo(q) \in Nat
        BY <1>0 DEF CountsOK
      <4> QED BY <1>0, <4>1, <4>2, <4>3, PostCounts
    <3> QED BY <1>1, <3>1, <3>2
  <2>2. AcksFrom(q)' = AcksFrom(q)
    BY <1>0 DEF AcksFrom
  <2>3. /\ ChunksTo(q) \in Nat /\ AckedTo(q) \in Nat /\ AcksFrom(q) \in Nat
        /\ outstanding[q] \in Nat
    BY <1>0 DEF CountsOK
  <2>4. wpc'[q] = "sending"
    BY <1>0
  <2>5. Window(q)'
    BY <1>0, <2>1, <2>2, <2>3, <2>4 DEF Window
  <2> QED BY <1>3, <2>5
<1> QED BY <1>2, <1>3

\* The answer to a cancel is not acknowledged.
LEMMA CancelWindow ==
  ASSUME FInv, CountsOK', NEW q \in Queries, HandleCancel(q), NEW p \in Queries
  PROVE  Window(p)'
<1>0. /\ TypeOK /\ CountsOK /\ Window(p) /\ sent[q] \in Nat
      /\ inbox \in [Queries -> Seq(Message)] /\ Take(q, "cancel")
      /\ toWorker \in [Queries -> Seq(Requests)]
      /\ inbox' = [inbox EXCEPT ![q] = inbox[q] \o <<Note("cancelled", sent[q])>>]
      /\ UNCHANGED <<wpc, outstanding>>
  BY FTypes DEF HandleCancel, Post, workerVars
<1>1. CASE p # q
  BY <1>0, <1>1, WindowFrame DEF Take
<1>2. CASE p = q
  <2>1. Note("cancelled", sent[q]) \in Message
        /\ Note("cancelled", sent[q]).type = "cancelled"
    BY <1>0, NoteFacts DEF MessageTypes
  <2>2. inbox'[q] = inbox[q] \o <<Note("cancelled", sent[q])>>
    BY <1>0
  <2>3. ChunksTo(q) \in Nat /\ AckedTo(q) \in Nat /\ AcksFrom(q) \in Nat
    BY <1>0 DEF CountsOK
  <2>4. ChunksTo(q)' = ChunksTo(q) /\ AckedTo(q)' = AckedTo(q)
    <3>1. Note("cancelled", sent[q]).type \notin {"json", "json-schema"}
      BY <2>1
    <3>2. AckedTo(q)' = AckedTo(q) + 0 /\ ChunksTo(q)' = ChunksTo(q) + 0
      BY <1>0, <2>1, <2>2, <3>1, PostCounts
    <3> QED BY <2>3, <3>2
  <2>5. AcksFrom(q)' = AcksFrom(q)
    <3>1. toWorker[q] # <<>> /\ Head(toWorker[q]) = "cancel"
          /\ toWorker'[q] = Tail(toWorker[q]) /\ "cancel" \in Requests
      BY <1>0, Names DEF Take
    <3> QED BY <1>0, <1>2, <3>1, RequestWindow
  <2>6. ChunksTo(q)' <= ChunksTo(q)
        /\ AckedTo(q)' + AcksFrom(q)' <= AckedTo(q) + AcksFrom(q)
    BY <2>3, <2>4, <2>5
  <2> QED BY <1>0, <1>2, <2>6, WindowKept
<1> QED BY <1>1, <1>2

\* A run begins, for a query of which nothing is unacknowledged.
LEMMA HandleRunWindow ==
  ASSUME FInv, CountsOK', NEW q \in Queries, HandleRun(q), NEW p \in Queries
  PROVE  Window(p)'
<1>0. /\ TypeOK /\ CountsOK /\ Window(p) /\ Window(q) /\ Safe(q)
      /\ Take(q, "run") /\ toWorker \in [Queries -> Seq(Requests)]
  BY CountsType DEF FInv, IInv, TypeOK, HandleRun
<1>1. wpc[q] = "idle"
  <2>1. toWorker[q] \in Seq(Requests) /\ toWorker[q] # <<>>
        /\ Head(toWorker[q]) = "run"
    BY <1>0 DEF Take
  <2>2. 1 \in 1..Len(toWorker[q]) /\ toWorker[q][1] = "run"
    BY <2>1
  <2> QED BY <1>0, <2>2 DEF Safe, RunOnce
<1>2. \A r \in Queries \ {q} : toWorker'[r] = toWorker[r]
  BY <1>0 DEF Take
<1>3. CASE PostFailure(q)
  BY <1>1, <1>2, <1>3, FailureStep
<1>4. CASE /\ wpc' = [wpc EXCEPT ![q] = "executing"]
           /\ outstanding' = [outstanding EXCEPT ![q] = 0]
           /\ UNCHANGED inbox
  <2>1. CASE p # q
    BY <1>0, <1>2, <1>4, <2>1, WindowFrame DEF TypeOK
  <2>2. CASE p = q
    <3>1. toWorker[q] # <<>> /\ Head(toWorker[q]) = "run"
          /\ toWorker'[q] = Tail(toWorker[q]) /\ "run" \in Requests
      BY <1>0, Names DEF Take
    <3>2. AcksFrom(q)' = AcksFrom(q)
      BY <1>0, <3>1, RequestWindow
    <3>3. ChunksTo(q)' = ChunksTo(q) /\ AckedTo(q)' = AckedTo(q)
      BY <1>4 DEF ChunksTo, AckedTo
    <3>4. wpc'[q] = "executing"
      BY <1>0, <1>4 DEF TypeOK
    <3>5. Window(q)'
      BY <1>0, <1>1, <3>2, <3>3, <3>4 DEF Window
    <3> QED BY <2>2, <3>5
  <2> QED BY <2>1, <2>2
<1> QED BY <1>3, <1>4 DEF HandleRun

\* The other steps of a run: a fatal error, and the timer that finds room.
LEMMA MoveWindow ==
  ASSUME FInv, NEW q \in Queries, QueryFatal(q) \/ Unblock(q), NEW p \in Queries
  PROVE  Window(p)'
<1>0. TypeOK /\ Window(p) /\ UNCHANGED <<inbox, toWorker, outstanding>>
  BY DEF FInv, IInv, QueryFatal, Unblock
<1>1. \/ wpc[q] = "executing" /\ wpc' = [wpc EXCEPT ![q] = "resetting"]
      \/ wpc[q] = "blocked" /\ wpc' = [wpc EXCEPT ![q] = "sending"]
  BY DEF QueryFatal, Unblock
<1>2. CASE p # q
  BY <1>0, <1>1, <1>2, WindowFrame DEF TypeOK
<1>3. CASE p = q
  <2>1. \/ wpc'[p] = "resetting" /\ wpc[p] = "executing"
        \/ wpc'[p] = "sending" /\ wpc[p] = "blocked"
    <3>1. \/ wpc'[q] = "resetting" /\ wpc[q] = "executing"
          \/ wpc'[q] = "sending" /\ wpc[q] = "blocked"
      <4>1. q \in DOMAIN wpc
        BY FTypes
      <4>2. CASE wpc' = [wpc EXCEPT ![q] = "resetting"] /\ wpc[q] = "executing"
        <5>1. wpc'[q] = "resetting"
          BY <4>1, <4>2
        <5> QED BY <4>2, <5>1
      <4>3. CASE wpc' = [wpc EXCEPT ![q] = "sending"] /\ wpc[q] = "blocked"
        BY <4>1, <4>3
      <4> QED BY <1>1, <4>2, <4>3
    <3> QED BY <1>3, <3>1
  <2> QED BY <1>0, <2>1 DEF Window, ChunksTo, AckedTo, AcksFrom
<1> QED BY <1>2, <1>3

LEMMA WindowStep ==
  ASSUME FInv, CountsOK', [Next]_vars, NEW p \in Queries
  PROVE  Window(p)'
<1>0. TypeOK /\ Window(p) /\ CountsOK
  BY CountsType DEF FInv, IInv
<1>1. CASE UNCHANGED vars
  BY <1>0, <1>1, WindowFrame DEF vars, workerVars
<1>2. CASE Boots
  BY <1>0, <1>2, WindowFrame DEF Boots, OpenConnection, FailInit, PostInited
<1>3. CASE Connects \/ HandleWorkerError
  <2>1. UNCHANGED <<inbox, wpc, outstanding>>
        /\ toWorker'[p] \in {toWorker[p], Append(toWorker[p], "run")}
    BY <1>0, <1>3 DEF Connects, HandleInited, HandleInitError,
                      HandleWorkerError, RejectInit
  <2>2. AcksFrom(p)' = AcksFrom(p)
    <3>1. CASE toWorker'[p] = toWorker[p]
      BY <3>1 DEF AcksFrom
    <3>2. CASE toWorker'[p] = Append(toWorker[p], "run")
      <4>1. "run" \in Requests
        BY Names
      <4> QED BY <1>0, <3>2, <4>1, RequestWindow
    <3> QED BY <2>1, <3>1, <3>2
  <2>3. ChunksTo(p)' = ChunksTo(p) /\ AckedTo(p)' = AckedTo(p)
    BY <2>1 DEF ChunksTo, AckedTo
  <2>4. ChunksTo(p) \in Nat /\ AckedTo(p) \in Nat /\ AcksFrom(p) \in Nat
    BY <1>0 DEF CountsOK
  <2> QED BY <1>0, <2>1, <2>2, <2>3, <2>4, WindowKept
<1>4. ASSUME NEW q \in Queries, StartQuery(q) \/ Cancel(q)
      PROVE  Window(p)'
  <2>1. UNCHANGED <<inbox, wpc, outstanding>>
    BY <1>4 DEF StartQuery, Cancel, workerVars
  <2>2. CASE UNCHANGED toWorker
    BY <1>0, <2>1, <2>2, WindowFrame
  <2>3. CASE \E r \in Requests \ {"ack"} :
               toWorker' = [toWorker EXCEPT ![q] = Append(@, r)]
    BY <2>1, <2>3, RequestStep
  <2> QED BY <1>4, <2>2, <2>3, Names DEF StartQuery, Cancel
<1>5. ASSUME NEW q \in Queries, Pull(q) \/ Abandon(q)
      PROVE  Window(p)'
  BY <1>0, <1>5, WindowFrame DEF Pull, Abandon
<1>6. ASSUME NEW q \in Queries, MainHandles(q)
      PROVE  Window(p)'
  BY <1>6, ReceiveWindow
<1>7. ASSUME NEW q \in Queries, WorkerHandles(q)
      PROVE  Window(p)'
  BY <1>7, HandleRunWindow, AckStep, CancelWindow DEF WorkerHandles
<1>8. ASSUME NEW q \in Queries, QueryThrows(q) \/ ResetDone(q) \/ SendFails(q)
      PROVE  Window(p)'
  BY <1>8, FailureStep DEF QueryThrows, ResetDone, SendFails
<1>9. ASSUME NEW q \in Queries,
             QueryReturns(q) \/ QueryFatal(q) \/ Unblock(q) \/ SendChunk(q)
             \/ SendLast(q)
      PROVE  Window(p)'
  BY <1>9, QueryReturnsWindow, MoveWindow, SendChunkWindow, SendLastWindow
<1> QED BY <1>1, <1>2, <1>3, <1>4, <1>5, <1>6, <1>7, <1>8, <1>9
        DEF Next, EngineAnswers, Sends

LEMMA WindowInvariance == Spec => []FInv
<1>1. Init => FInv
  <2> SUFFICES ASSUME Init, NEW q \in Queries PROVE Window(q)
    BY InitIInv DEF FInv
  <2>1. inbox[q] = <<>> /\ toWorker[q] = <<>> /\ wpc[q] = "idle"
        /\ outstanding[q] = 0
    BY DEF Init
  <2>2. <<>> \in Seq(Message) /\ <<>> \in Seq(Requests) /\ Len(<<>>) = 0
    OBVIOUS
  <2>3. \A i \in 1..0 : FALSE
    OBVIOUS
  <2>4. /\ CountIn(<<>>, Chunks) = 0 /\ CountIn(<<>>, Acked) = 0
        /\ CountIn(<<>>, {"ack"}) = 0
    BY <2>2, <2>3, CountFacts
  <2> QED BY <2>1, <2>4, ConstantsAssumption
          DEF Window, ChunksTo, AckedTo, AcksFrom
<1>2. FInv /\ [Next]_vars => FInv'
  <2> SUFFICES ASSUME FInv, [Next]_vars PROVE FInv'
    OBVIOUS
  <2>1. IInv'
    BY NextIInv DEF FInv
  <2>2. TypeOK => CountsOK
    BY CountsType
  <2>3. TypeOK' => CountsOK'
    BY <2>2, CountsType, PTL
  <2> QED BY <2>1, <2>3, WindowStep DEF FInv, IInv
<1> QED BY <1>1, <1>2, PTL DEF Spec

\* worker.ts, MAX_OUTSTANDING: at most one chunk more than the limit is on its
\* way to the main thread, and the count of a run keeps within the limit.
THEOREM FlowControlled == Spec => []FlowControl
<1>1. FInv => FlowControl
  <2> SUFFICES ASSUME FInv, NEW q \in Queries
               PROVE  InFlight(q, "json") <= MaxOutstanding + 1
    BY DEF FInv, IInv, FlowControl, InFlightBound
  <2>1. inbox[q] \in Seq(Message)
    BY DEF FInv, IInv, TypeOK
  <2>2. {i \in 1..Len(inbox[q]) : inbox[q][i].type = "json"}
          = Places(inbox[q], Chunks)
    <3>1. \A i \in 1..Len(inbox[q]) : inbox[q][i] \in Message
      BY <2>1
    <3> QED BY <3>1 DEF Places, Chunks
  <2>3. InFlight(q, "json") = ChunksTo(q)
    BY <2>2 DEF InFlight, ChunksTo, CountIn
  <2> QED BY <2>3 DEF FInv, Window
<1> QED BY <1>1, WindowInvariance, PTL
=============================================================================
