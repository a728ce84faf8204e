-------------------------- MODULE ImportQueue_proofs --------------------------
(***************************************************************************)
(* The import queue, for any number of jobs, crashes, cancels, pauses and  *)
(* faults.                                                                 *)
(*                                                                         *)
(* The first part shows that a job saved as completed has its table in the *)
(* catalogue.  The order of saves alone does not give it: what is saved is *)
(* the status in memory, at several places, so the invariant speaks of it  *)
(* and of the import in progress too.                                      *)
(*                                                                         *)
(* The second part shows that no job of the page is forgotten, that a job  *)
(* that has ended stays so, and what the files and tables of the catalogue *)
(* are.  Its invariant IInv says of every job of the page where it is: in  *)
(* the queue, being put there, in progress, or settled.  The part of it    *)
(* that no import in progress disturbs (Rested) is stated of values rather *)
(* than of the variables, so that the half-way states of a handler that    *)
(* calls processQueue can be spoken of.                                    *)
(*                                                                         *)
(* The last part is about what is shown of a server.  CatInv says of each  *)
(* step of a refresh what it has read, if nothing has changed and nothing  *)
(* has failed since it began (Progress), and that the refresh begun last   *)
(* has seen every change of which the events have come (Begun, Heard);     *)
(* InfoInv says the same of the fetches of the page of the settings.       *)
(***************************************************************************)
EXTENDS MCImportQueue, SequenceTheorems, FiniteSetTheorems, WellFoundedInduction, TLAPS

\* The parts of the state the argument reads have their types.
Types ==
  /\ disk \in [Jobs -> Statuses]
  /\ tables \in [Names -> Jobs \cup {None}]
  /\ status \in [Jobs -> Statuses]

HasTable(j) == tables[NameOf[j]] = j

\* The inductive invariant.
Inductive ==
  /\ Types
  /\ \A j \in Jobs : disk[j] = "completed" => HasTable(j)
  /\ \A j \in Jobs : status[j] = "completed" => HasTable(j)
  /\ exec.at \in {"saved", "complete"} => exec.job \in Jobs /\ HasTable(exec.job)

\* What every action does with the state: entries of tables stay, and a
\* status that becomes completed, in memory or in the database, belongs to a
\* job whose table is there.
Kept == \A j \in Jobs : HasTable(j) => HasTable(j)'

Stored ==
  /\ Types'
  /\ Kept
  /\ \A j \in Jobs : disk'[j] = "completed" =>
       disk[j] = "completed" \/ status[j] = "completed"
  /\ \A j \in Jobs : status'[j] = "completed" => status[j] = "completed"
  /\ exec'.at \in {"saved", "complete"} => exec' = exec

\* A step that stores nothing new keeps the invariant.
LEMMA StoredKeeps == Inductive /\ Stored => Inductive'
<1> SUFFICES ASSUME Inductive, Stored PROVE Inductive'
  OBVIOUS
<1>1. \A j \in Jobs : disk'[j] = "completed" => HasTable(j)'
  BY Zenon DEF Inductive, Stored, Kept
<1>2. \A j \in Jobs : status'[j] = "completed" => HasTable(j)'
  BY Zenon DEF Inductive, Stored, Kept
<1>3. exec'.at \in {"saved", "complete"} => exec'.job \in Jobs /\ HasTable(exec.job)'
  <2> SUFFICES ASSUME exec'.at \in {"saved", "complete"}
               PROVE  exec'.job \in Jobs /\ HasTable(exec.job)'
    OBVIOUS
  <2>1. exec' = exec
    BY DEF Stored
  <2>2. exec.job \in Jobs /\ HasTable(exec.job)
    BY <2>1 DEF Inductive
  <2>3. tables'[NameOf[exec.job]] = exec.job
    BY <2>2 DEF Stored, Kept, HasTable
  <2> QED
    BY <2>1, <2>2, <2>3 DEF HasTable
<1> QED
  BY <1>1, <1>2, <1>3 DEF Inductive, Stored, HasTable

\* Starting the next import stores nothing new: it changes the status of a job, in
\* memory and in the database, to running.
LEMMA NextJobStores ==
  ASSUME Inductive, NEW q, StartNext(q, status), tables' = tables
  PROVE  Stored
<1> DEFINE i == NextJob(q, status)
<1>1. exec'.at \notin {"saved", "complete"}
  BY DEF StartNext, Idle
<1>2. /\ status' = status \/ \E j : status' = [status EXCEPT ![j] = "running"]
      /\ disk' = disk \/ \E j : disk' = [disk EXCEPT ![j] = "running"]
  BY DEF StartNext
<1>3. "running" \in Statuses
  BY DEF Statuses
<1> QED
  BY <1>1, <1>2, <1>3 DEF Inductive, Stored, Types, Kept, HasTable

LEMMA ProcessStores ==
  ASSUME Inductive, NEW q, ProcessQueue(q), tables' = tables
  PROVE  Stored
<1>1. CASE exec = Idle
  BY <1>1, NextJobStores DEF ProcessQueue
<1>2. CASE exec # Idle
  BY <1>2 DEF ProcessQueue, Inductive, Stored, Types, Kept, HasTable
<1> QED
  BY <1>1, <1>2

LEMMA StatusNames ==
  /\ {"queued", "running", "paused", "cancelled", "failed"}
       \subseteq Statuses \ {"completed"}
  /\ None \in Statuses \ {"completed"}
BY DEF Statuses, None

\* Every step of the user and of the import but the two that save a table and
\* complete a job stores nothing new.
LEMMA UserStores ==
  ASSUME Inductive, NEW j \in Jobs, User(j) \/ Returns(j)
  PROVE  Stored
<1> USE DEF Inductive, Stored, Types, Kept, HasTable
<1>1. CASE Enqueue(j)
  BY <1>1, StatusNames DEF Enqueue
<1>2. CASE Pause(j)
  BY <1>2, StatusNames DEF Pause
<1>3. CASE Resume(j)
  BY <1>3, StatusNames DEF Resume
<1>4. CASE Cancel(j)
  BY <1>4, StatusNames DEF Cancel
<1>5. CASE Enqueued(j)
  BY <1>5, ProcessStores DEF Enqueued
<1>6. CASE Resumed(j)
  BY <1>6, ProcessStores DEF Resumed
<1>7. CASE Cancelled(j)
  BY <1>7 DEF Cancelled, saved
<1>8. CASE CancelCleans(j)
  BY <1>8 DEF CancelCleans
<1> QED
  BY <1>1, <1>2, <1>3, <1>4, <1>5, <1>6, <1>7, <1>8 DEF User, Returns

LEMMA CatchStores ==
  ASSUME Inductive, NEW j \in Jobs, GiveUp(j) \/ Fail(j),
         tables' = tables, exec.at \notin {"saved", "complete"}
  PROVE  Stored
<1> USE DEF Inductive, Stored, Types, Kept, HasTable
<1>1. CASE GiveUp(j)
  BY <1>1, NextJobStores DEF GiveUp
<1>2. CASE Fail(j)
  <2>1. exec'.at \notin {"saved", "complete"} \/ exec' = exec
    BY <1>2 DEF Fail, GoTo
  <2> QED
    BY <1>2, <2>1, StatusNames DEF Fail
<1> QED
  BY <1>1, <1>2

LEMMA ImportStores ==
  ASSUME Inductive, NEW j \in Jobs, Import(j) \/ Faulty(j), ~TableSaved(j), ~Registered(j)
  PROVE  Stored
<1> USE DEF Inductive, Stored, Types, Kept, HasTable
<1>1. CASE Started(j)
  BY <1>1 DEF Started, GoTo, At, saved
<1>2. CASE Fetched(j)
  BY <1>2 DEF Fetched, GoTo, At
<1>3. CASE Written(j)
  BY <1>3 DEF Written, GoTo, At
<1>4. CASE Completed(j)
  <2>1. StartNext(Without(queue, j), status) /\ tables' = tables
    BY <1>4 DEF Completed
  <2> QED
    BY <2>1, NextJobStores
<1>5. CASE NameTaken(j)
  BY <1>5, CatchStores DEF NameTaken, At
<1>6. CASE WriteFails(j)
  BY <1>6, CatchStores DEF WriteFails, At
<1>7. CASE StorageFull(j)
  <2>1. exec'.at \notin {"saved", "complete"}
    BY <1>7 DEF StorageFull, GoTo, At
  <2> QED
    BY <1>7, <2>1, StatusNames DEF StorageFull, saved
<1>8. CASE Failed(j)
  BY <1>8 DEF Failed, GoTo, At, saved
<1>9. CASE FailCleans(j)
  <2>1. StartNext(queue, status) /\ tables' = tables
    BY <1>9 DEF FailCleans
  <2> QED
    BY <2>1, NextJobStores
<1>10. CASE Thrown(j)
  BY <1>10 DEF Thrown, Idle, saved
<1> QED
  BY <1>1, <1>2, <1>3, <1>4, <1>5, <1>6, <1>7, <1>8, <1>9, <1>10
     DEF Import, Faulty

LEMMA RestartStores ==
  ASSUME Inductive, Crash \/ OpenStore
  PROVE  Stored
<1> USE DEF Inductive, Stored, Types, Kept, HasTable
<1>1. CASE Crash
  <2>1. exec'.at \notin {"saved", "complete"}
    BY <1>1 DEF Crash, Idle
  <2>2. status' \in [Jobs -> Statuses] /\ \A k \in Jobs : status'[k] = None
    BY <1>1, StatusNames DEF Crash, NoStatus
  <2> QED
    BY <1>1, <2>1, <2>2, StatusNames DEF Crash, saved
<1>2. CASE OpenStore
  BY <1>2 DEF OpenStore, saved
<1> QED
  BY <1>1, <1>2

\* The two steps that store something: the entry, and then the status.
LEMMA SavedSteps ==
  ASSUME Inductive, NEW j \in Jobs, TableSaved(j) \/ Registered(j)
  PROVE  Inductive'
<1>0. NameOf[j] \in Names /\ None \notin Jobs
  BY ImportAssumption DEF None
<1>1. CASE TableSaved(j)
  <2>1. /\ tables' = [tables EXCEPT ![NameOf[j]] = j]
        /\ tables[NameOf[j]] = None
        /\ disk' = disk /\ status' = status
        /\ exec'.job = j
    BY <1>1 DEF TableSaved, GoTo, At
  <2>2. HasTable(j)'
    BY <1>0, <2>1 DEF HasTable, Inductive, Types
  <2>3. \A k \in Jobs : HasTable(k) => HasTable(k)'
    BY <1>0, <2>1, ImportAssumption DEF HasTable, Inductive, Types
  <2> QED
    BY <1>0, <2>1, <2>2, <2>3 DEF Inductive, Types, HasTable
<1>2. CASE Registered(j)
  <2>1. /\ tables' = tables
        /\ disk' = [disk EXCEPT ![j] = "completed"]
        /\ status' = [status EXCEPT ![j] = "completed"]
        /\ exec.at = "saved" /\ exec.job = j /\ exec'.job = j
    BY <1>2 DEF Registered, GoTo, At
  <2>2. HasTable(j)
    BY <2>1 DEF Inductive
  <2> QED
    BY <2>1, <2>2 DEF Inductive, Types, HasTable, Statuses
<1> QED
  BY <1>1, <1>2

LEMMA InitInductive == Init => Inductive
BY DEF Init, Inductive, Types, Idle, NoStatus, Statuses, None

LEMMA NextInductive == Inductive /\ [Next]_vars => Inductive'
<1> SUFFICES ASSUME Inductive, [Next]_vars PROVE Inductive'
  OBVIOUS
<1>1. CASE Crash \/ OpenStore
  BY <1>1, RestartStores, StoredKeeps
<1>2. ASSUME NEW j \in Jobs, User(j) \/ Returns(j) PROVE Inductive'
  BY <1>2, UserStores, StoredKeeps
<1>3. ASSUME NEW j \in Jobs, Import(j) \/ Faulty(j) PROVE Inductive'
  BY <1>3, ImportStores, SavedSteps, StoredKeeps
<1>4. CASE UNCHANGED vars
  BY <1>4 DEF vars, saved, Inductive, Types, HasTable
<1> QED
  BY <1>1, <1>2, <1>3, <1>4 DEF Next

\* A job the database has as completed is the one that wrote the entry of its
\* table (executeImport saves the entry first, and pause, cancel and late saves of
\* the progress never bring an earlier status back as completed).
THEOREM TableBeforeCompleted == Spec => []CompletedHasTable
<1>1. Inductive => CompletedHasTable
  BY DEF Inductive, CompletedHasTable, HasTable
<1> QED
  BY <1>1, InitInductive, NextInductive, PTL DEF Spec

-----------------------------------------------------------------------------
(* The queue as the set of its jobs. *)

In(q) == {q[i] : i \in 1 .. Len(q)}

IsQueue(q) == q \in Seq(Jobs) /\ \A i, k \in 1 .. Len(q) : q[i] = q[k] => i = k

Below == {p \in Nat \X Nat : p[1] < p[2]}

LEMMA Least ==
  ASSUME NEW S, S # {}, S \subseteq Nat
  PROVE  \E x \in S : \A y \in S : x <= y
<1>1. IsWellFoundedOn(Below, Nat)
  BY NatLessThanWellFounded DEF OpToRel, Below
<1>2. PICK x \in S : \A y \in S : ~(<<y, x>> \in Below)
  BY <1>1, WFMin
<1>3. ASSUME NEW y \in S PROVE x <= y
  <2>1. x \in Nat /\ y \in Nat /\ <<y, x>> \in Nat \X Nat
    OBVIOUS
  <2>2. ~(<<y, x>>[1] < <<y, x>>[2])
    BY <1>2, <2>1 DEF Below
  <2> QED BY <2>1, <2>2
<1> QED BY <1>3

\* The next job is one that waits, if the queue has one.
LEMMA NextJobWaits ==
  ASSUME NEW q \in Seq(Jobs), NEW st
  PROVE  \/ NextJob(q, st) = 0 /\ \A j \in In(q) : st[j] # "queued"
         \/ /\ NextJob(q, st) # 0 /\ q[NextJob(q, st)] \in In(q)
            /\ st[q[NextJob(q, st)]] = "queued"
<1> DEFINE I == {i \in 1 .. Len(q) : st[q[i]] = "queued"}
<1>1. NextJob(q, st) = IF I # {} THEN Min(I) ELSE 0
  BY DEF NextJob, SelectInSeq
<1>2. CASE I = {}
  BY <1>1, <1>2 DEF In
<1>3. CASE I # {}
  <2>1. I \subseteq Nat
    OBVIOUS
  <2>2. \E x \in I : \A y \in I : x <= y
    BY <1>3, <2>1, Least
  <2>3. Min(I) \in I
    BY <2>2 DEF Min
  <2>4. Min(I) # 0
    BY <2>3
  <2> QED BY <1>1, <1>3, <2>3, <2>4 DEF In
<1> QED BY <1>2, <1>3

LEMMA InTypes ==
  ASSUME NEW q, IsQueue(q)
  PROVE  /\ In(q) \subseteq Jobs
         /\ \A j : Has(q, j) <=> j \in In(q)
BY DEF In, IsQueue, Has

LEMMA PartOfQueue ==
  ASSUME NEW q, NEW m \in Int, NEW n \in Int, \A i \in m .. n : q[i] \in Jobs
  PROVE  /\ SubSeq(q, m, n) \in Seq(Jobs)
         /\ Len(SubSeq(q, m, n)) = IF m <= n THEN n - m + 1 ELSE 0
         /\ \A i \in 1 .. n - m + 1 : SubSeq(q, m, n)[i] = q[m + i - 1]
BY SubSeqProperties

LEMMA WithoutJob ==
  ASSUME NEW q, IsQueue(q), NEW j
  PROVE  IsQueue(Without(q, j)) /\ In(Without(q, j)) = In(q) \ {j}
<1>1. CASE ~Has(q, j)
  <2>1. Without(q, j) = q
    BY <1>1 DEF Without
  <2>2. In(q) \ {j} = In(q)
    BY <1>1, InTypes
  <2> QED BY <2>1, <2>2
<1>2. CASE Has(q, j)
  <2> DEFINE p == PlaceOf(q, j)
             n == Len(q)
             a == SubSeq(q, 1, p - 1)
             b == SubSeq(q, p + 1, n)
             w == a \o b
  <2>0. q \in Seq(Jobs) /\ n \in Nat
    BY LenProperties DEF IsQueue
  <2>1. p \in 1 .. n /\ q[p] = j
    BY <1>2 DEF Has, PlaceOf
  <2>2. Without(q, j) = w
    BY <1>2 DEF Without, RemoveAt
  <2> HIDE DEF p, n
  <2>3. \A i \in 1 .. n : q[i] \in Jobs
    BY <2>0, ElementOfSeq DEF n
  <2>4. /\ a \in Seq(Jobs) /\ Len(a) = p - 1
        /\ \A i \in 1 .. p - 1 : a[i] = q[i]
    <3>1. 1 \in Int /\ p - 1 \in Int /\ \A i \in 1 .. p - 1 : q[i] \in Jobs
      BY <2>0, <2>1, <2>3
    <3>2. /\ a \in Seq(Jobs)
          /\ Len(a) = IF 1 <= p - 1 THEN (p - 1) - 1 + 1 ELSE 0
          /\ \A i \in 1 .. (p - 1) - 1 + 1 : a[i] = q[1 + i - 1]
      BY <3>1, PartOfQueue
    <3>3. \A i \in 1 .. p - 1 : i \in 1 .. (p - 1) - 1 + 1 /\ 1 + i - 1 = i
      BY <2>0, <2>1
    <3>4. Len(a) = p - 1
      BY <2>0, <2>1, <3>2
    <3>5. \A i \in 1 .. p - 1 : a[i] = q[i]
      BY <3>2, <3>3
    <3> QED BY <3>2, <3>4, <3>5
  <2>5. /\ b \in Seq(Jobs) /\ Len(b) = n - p
        /\ \A i \in 1 .. n - p : b[i] = q[p + i]
    <3>1. p + 1 \in Int /\ n \in Int /\ \A i \in p + 1 .. n : q[i] \in Jobs
      BY <2>0, <2>1, <2>3
    <3>2. /\ b \in Seq(Jobs)
          /\ Len(b) = IF p + 1 <= n THEN n - (p + 1) + 1 ELSE 0
          /\ \A i \in 1 .. n - (p + 1) + 1 : b[i] = q[(p + 1) + i - 1]
      BY <3>1, PartOfQueue
    <3>3. \A i \in 1 .. n - p : i \in 1 .. n - (p + 1) + 1 /\ (p + 1) + i - 1 = p + i
      BY <2>0, <2>1
    <3>4. Len(b) = n - p
      BY <2>0, <2>1, <3>2
    <3>5. \A i \in 1 .. n - p : b[i] = q[p + i]
      BY <3>2, <3>3
    <3> QED BY <3>2, <3>4, <3>5
  <2> HIDE DEF a, b
  <2>6. /\ w \in Seq(Jobs) /\ Len(w) = n - 1
        /\ \A i \in 1 .. n - 1 : w[i] = IF i <= p - 1 THEN q[i] ELSE q[i + 1]
    <3>1. /\ w \in Seq(Jobs) /\ Len(w) = Len(a) + Len(b)
          /\ \A i \in 1 .. Len(a) + Len(b) :
               w[i] = IF i <= Len(a) THEN a[i] ELSE b[i - Len(a)]
      BY <2>4, <2>5, ConcatProperties
    <3>2. Len(w) = n - 1
      BY <2>0, <2>1, <2>4, <2>5, <3>1
    <3>3. ASSUME NEW i \in 1 .. n - 1
          PROVE  w[i] = IF i <= p - 1 THEN q[i] ELSE q[i + 1]
      <4>0. i \in 1 .. Len(a) + Len(b)
        BY <2>0, <2>1, <2>4, <2>5
      <4>1. CASE i <= p - 1
        <5>1. i \in 1 .. p - 1
          BY <4>1, <2>0, <2>1
        <5> QED BY <3>1, <4>0, <4>1, <5>1, <2>4
      <4>2. CASE ~(i <= p - 1)
        <5>1. i - (p - 1) \in 1 .. n - p /\ p + (i - (p - 1)) = i + 1
          BY <4>2, <2>0, <2>1
        <5>2. w[i] = b[i - (p - 1)]
          BY <3>1, <4>0, <4>2, <2>4
        <5> QED BY <2>5, <4>2, <5>1, <5>2
      <4> QED BY <4>1, <4>2
    <3> QED BY <3>1, <3>2, <3>3
  <2> HIDE DEF w
  <2> DEFINE f(i) == IF i <= p - 1 THEN i ELSE i + 1
  <2>7. /\ \A i \in 1 .. n - 1 : f(i) \in 1 .. n /\ f(i) # p /\ w[i] = q[f(i)]
        /\ \A i, k \in 1 .. n - 1 : f(i) = f(k) => i = k
    <3>1. \A i \in 1 .. n - 1 : f(i) \in 1 .. n /\ f(i) # p
      BY <2>0, <2>1
    <3>2. \A i, k \in 1 .. n - 1 : f(i) = f(k) => i = k
      BY <2>0, <2>1
    <3>3. \A i \in 1 .. n - 1 : w[i] = q[f(i)]
      BY <2>6
    <3> QED BY <3>1, <3>2, <3>3
  <2>8. \A m \in 1 .. n : m # p => \E i \in 1 .. n - 1 : f(i) = m
    <3> TAKE m \in 1 .. n
    <3>1. CASE m < p
      <4>1. m \in 1 .. n - 1 /\ f(m) = m
        BY <3>1, <2>0, <2>1
      <4> QED BY <4>1
    <3>2. CASE m > p
      <4>1. m - 1 \in 1 .. n - 1 /\ f(m - 1) = m
        BY <3>2, <2>0, <2>1
      <4> QED BY <4>1
    <3> QED BY <3>1, <3>2, <2>0, <2>1
  <2> HIDE DEF f
  <2>9. \A i, k \in 1 .. n : q[i] = q[k] => i = k
    BY DEF IsQueue, n
  <2>10. IsQueue(w)
    <3>1. \A i, k \in 1 .. Len(w) : w[i] = w[k] => i = k
      BY <2>6, <2>7, <2>9
    <3> QED BY <2>6, <3>1 DEF IsQueue
  <2>11. In(w) \subseteq In(q) \ {j}
    <3> SUFFICES ASSUME NEW i \in 1 .. n - 1
                 PROVE  w[i] \in In(q) /\ w[i] # j
      BY <2>6 DEF In
    <3>1. w[i] \in In(q)
      BY <2>7 DEF In, n
    <3>2. w[i] # j
      BY <2>1, <2>7, <2>9
    <3> QED BY <3>1, <3>2
  <2>12. In(q) \ {j} \subseteq In(w)
    <3> SUFFICES ASSUME NEW m \in 1 .. n, q[m] # j PROVE q[m] \in In(w)
      BY DEF In, n
    <3>1. PICK i \in 1 .. n - 1 : f(i) = m
      BY <2>1, <2>8
    <3> QED BY <2>6, <2>7, <3>1 DEF In
  <2> QED BY <2>2, <2>10, <2>11, <2>12
<1> QED BY <1>1, <1>2

\* A job that the queue has not is put behind the others.
LEMMA SetNewEntry ==
  ASSUME NEW q, IsQueue(q), NEW j \in Jobs, ~Has(q, j)
  PROVE  IsQueue(SetEntry(q, j)) /\ In(SetEntry(q, j)) = In(q) \cup {j}
<1> DEFINE a == Append(q, j)
<1>1. SetEntry(q, j) = a
  BY DEF SetEntry
<1>2. q \in Seq(Jobs) /\ Len(q) \in Nat
  BY LenProperties DEF IsQueue
<1>3. /\ a \in Seq(Jobs) /\ Len(a) = Len(q) + 1
      /\ \A i \in 1 .. Len(q) : a[i] = q[i]
      /\ a[Len(q) + 1] = j
  BY <1>2, AppendProperties
<1> HIDE DEF a
<1>4. \A i \in 1 .. Len(q) : q[i] # j
  BY DEF Has
<1>5. \A i \in 1 .. Len(a) : i \in 1 .. Len(q) \/ i = Len(q) + 1
  BY <1>2, <1>3
<1>6. IsQueue(a)
  BY <1>3, <1>4, <1>5 DEF IsQueue
<1>7. In(a) = In(q) \cup {j}
  <2>1. In(a) \subseteq In(q) \cup {j}
    BY <1>3, <1>5 DEF In
  <2>2. Len(q) + 1 \in 1 .. Len(a) /\ \A i \in 1 .. Len(q) : i \in 1 .. Len(a)
    BY <1>2, <1>3
  <2>3. In(q) \cup {j} \subseteq In(a)
    BY <1>3, <2>2 DEF In
  <2> QED BY <2>1, <2>3
<1> QED BY <1>1, <1>6, <1>7

LEMMA NoneIn == IsQueue(<< >>) /\ In(<< >>) = {}
BY DEF In, IsQueue

-----------------------------------------------------------------------------
(* The invariant that follows a job from its saved status to its status in *)
(* memory, its place in the queue and the import in progress.              *)

Final == {"completed", "failed", "cancelled"}
Open == {"queued", "running", "paused", "cancelled"}
Early == {"save", "fetch", "write", "register", "saved"}
Cleanings == [Jobs -> {None, "save", "file"}]

\* What holds of a job whatever import is in progress.  Its status is the saved one,
\* unless it is of an earlier page or has a failure that could not be saved.
Placed(j, q, st, d, en, cl) ==
  /\ st[j] = d[j] \/ st[j] \in {None, "failed"}
  /\ d[j] = None => st[j] = None
  /\ st[j] = None => j \notin q /\ cl[j] = None
  /\ j \in en => st[j] = "queued" /\ j \notin q
  /\ cl[j] = "save" => d[j] \in Final
  /\ st[j] # None /\ d[j] \in {"queued", "running"} => j \in q \/ j \in en

Rested(q, st, d, en, cl) ==
  /\ IsQueue(q)
  /\ st \in [Jobs -> Statuses] /\ d \in [Jobs -> Statuses]
  /\ en \subseteq Jobs /\ cl \in Cleanings
  /\ \A j \in Jobs : Placed(j, In(q), st, d, en, cl)

\* What the step that an import is at says of its job, and of whether it is aborted.
Phase(at, st, d, ab) ==
  /\ at \in Early => st = d /\ d \in Open /\ (ab <=> st # "running")
  /\ at = "complete" => d \in {"completed", "cancelled"}
  /\ at \in {"failed", "clean"} => d \in {"failed", "cancelled"}
  /\ at = "unsaved" => st \in {"failed", "cancelled"}

Busy ==
  exec # Idle =>
    /\ exec.job \in Jobs /\ exec.at \in Steps
    /\ status[exec.job] # None /\ exec.job \notin enqueuing
    /\ Phase(exec.at, status[exec.job], disk[exec.job], aborted[exec.job])
    /\ exec.at = "unsaved" => faults # 0

Running ==
  \A j \in Jobs : status[j] = "running" => exec # Idle /\ exec.job = j /\ exec.at \in Early

Awake ==
  faults = 0 /\ exec = Idle =>
    \A j \in In(queue) : status[j] = "queued" => j \in resuming

\* The types of the rest.
Rest ==
  /\ tables \in [Names -> Jobs \cup {None}]
  /\ file \in [Paths -> Jobs \cup {None, "empty"}]
  /\ open \in BOOLEAN
  /\ aborted \in [Jobs -> BOOLEAN]
  /\ exec \in Execution \cup {Idle}
  /\ resuming \subseteq Jobs
  /\ crashes \in 0 .. MaxCrashes /\ cancels \in 0 .. MaxCancels
  /\ pauses \in 0 .. MaxPauses /\ faults \in 0 .. MaxFaults

IInv ==
  /\ Rested(queue, status, disk, enqueuing, cleaning)
  /\ Busy /\ Running /\ Awake /\ Rest

\* A job that has ended stays so, but for a cancel; none is taken out of the database,
\* and one of an earlier page not taken up.
Settled ==
  \A j \in Jobs :
    /\ disk[j] \in {"completed", "failed"} =>
         disk'[j] = disk[j] \/ (disk'[j] = "cancelled" /\ cancels' = cancels + 1)
    /\ disk[j] # None => disk'[j] # None /\ (status[j] = None => status'[j] = None)

LEMMA IInvTypes == IInv => TypeOK
<1> SUFFICES ASSUME IInv PROVE TypeOK
  OBVIOUS
<1>1. IsQueue(queue)
  BY DEF IInv, Rested
<1>2. queue \in Seq(Jobs) /\ IsInjective(queue)
  BY <1>1, LenProperties DEF IsQueue, IsInjective
<1> QED BY <1>2 DEF IInv, Rested, Rest, TypeOK, Cleanings

LEMMA InitKeeps == Init => IInv
<1> SUFFICES ASSUME Init PROVE IInv
  OBVIOUS
<1>0. MaxCrashes \in Nat /\ MaxCancels \in Nat /\ MaxPauses \in Nat /\ MaxFaults \in Nat
  BY ImportAssumption
<1>1. Rested(queue, status, disk, enqueuing, cleaning)
  BY NoneIn DEF Init, Rested, Placed, NoStatus, NoCleaning, Statuses, Cleanings, None
<1>2. Busy /\ Running /\ Awake
  BY NoneIn DEF Init, Busy, Running, Awake, NoStatus, None
<1>3. Rest
  <2>1. aborted \in [Jobs -> BOOLEAN] /\ open \in BOOLEAN
    BY Zenon DEF Init, NotAborted
  <2>2. /\ crashes \in 0 .. MaxCrashes /\ cancels \in 0 .. MaxCancels
        /\ pauses \in 0 .. MaxPauses /\ faults \in 0 .. MaxFaults
    BY <1>0 DEF Init
  <2>3. /\ tables \in [Names -> Jobs \cup {None}]
        /\ file \in [Paths -> Jobs \cup {None, "empty"}]
        /\ exec \in Execution \cup {Idle} /\ resuming \subseteq Jobs
    BY DEF Init
  <2> QED BY <2>1, <2>2, <2>3 DEF Rest
<1> QED BY <1>1, <1>2, <1>3 DEF IInv

\* processQueue, when no import is in progress and no job shows as running: what holds
\* of every job holds after it, and no job of the queue waits unless an import starts.
LEMMA StartNextKeeps ==
  ASSUME NEW q, Rested(q, status, disk, enqueuing', cleaning'),
         \A j \in Jobs : status[j] # "running", aborted \in [Jobs -> BOOLEAN],
         StartNext(q, status)
  PROVE  /\ Rested(queue', status', disk', enqueuing', cleaning')
         /\ Busy' /\ Running' /\ Awake'
         /\ aborted' \in [Jobs -> BOOLEAN] /\ exec' \in Execution \cup {Idle}
         /\ \A j \in Jobs :
              /\ disk'[j] = disk[j] \/ (disk[j] = "queued" /\ disk'[j] = "running")
              /\ status'[j] = status[j] \/ status[j] = "queued"
<1> DEFINE i == NextJob(q, status)
           k == q[i]
<1>0. q \in Seq(Jobs) /\ In(q) \subseteq Jobs
  BY InTypes DEF Rested, IsQueue
<1>1. CASE i = 0
  <2>1. /\ queue' = q /\ exec' = Idle /\ status' = status
        /\ disk' = disk /\ aborted' = aborted
    BY <1>1 DEF StartNext
  <2>2. \A j \in In(q) : status[j] # "queued"
    BY <1>0, <1>1, NextJobWaits
  <2>3. Busy' /\ Running' /\ Awake'
    BY <2>1, <2>2 DEF Busy, Running, Awake
  <2> QED BY <2>1, <2>3
<1>2. CASE i # 0
  <2>1. /\ queue' = q /\ exec' = [job |-> k, at |-> "save"]
        /\ status' = [status EXCEPT ![k] = "running"]
        /\ disk' = [disk EXCEPT ![k] = "running"]
        /\ aborted' = [aborted EXCEPT ![k] = FALSE]
    BY <1>2 DEF StartNext
  <2>2. k \in In(q) /\ status[k] = "queued"
    BY <1>0, <1>2, NextJobWaits
  <2> HIDE DEF k
  <2>3. k \in Jobs
    BY <1>0, <2>2
  <2>4. k \notin enqueuing' /\ disk[k] = "queued" /\ cleaning'[k] # "save"
    BY <2>2, <2>3 DEF Rested, Placed, Final, None
  <2>5. Rested(queue', status', disk', enqueuing', cleaning')
    <3>1. "running" \in Statuses /\ "running" # None
      BY DEF Statuses, None
    <3>2. /\ status \in [Jobs -> Statuses] /\ disk \in [Jobs -> Statuses]
          /\ status' \in [Jobs -> Statuses] /\ disk' \in [Jobs -> Statuses]
          /\ status'[k] = "running" /\ disk'[k] = "running"
          /\ \A j \in Jobs : j # k => status'[j] = status[j] /\ disk'[j] = disk[j]
      BY <2>1, <2>3, <3>1 DEF Rested
    <3>3. \A j \in Jobs : Placed(j, In(q), status', disk', enqueuing', cleaning')
      BY <2>2, <2>4, <3>1, <3>2 DEF Rested, Placed
    <3> QED BY <2>1, <3>2, <3>3 DEF Rested
  <2>6. exec' # Idle /\ exec'.job = k /\ exec'.at = "save"
    <3>1. Idle.at = "idle"
      BY DEF Idle
    <3> QED BY <2>1, <3>1
  <2>7. status'[k] = "running" /\ disk'[k] = "running" /\ aborted'[k] = FALSE
    BY <2>1, <2>3 DEF Rested
  <2>8. Busy'
    BY <2>3, <2>4, <2>6, <2>7 DEF Busy, Phase, Early, Open, Steps, None
  <2>9. Running' /\ Awake'
    BY <2>1, <2>3, <2>6 DEF Running, Awake, Early, Rested
  <2>10. aborted' \in [Jobs -> BOOLEAN] /\ exec' \in Execution \cup {Idle}
    BY <2>1, <2>3 DEF Execution, Steps
  <2>11. \A j \in Jobs :
           /\ disk'[j] = disk[j] \/ (disk[j] = "queued" /\ disk'[j] = "running")
           /\ status'[j] = status[j] \/ status[j] = "queued"
    BY <2>1, <2>2, <2>3, <2>4 DEF Rested
  <2> QED BY <2>5, <2>8, <2>9, <2>10, <2>11
<1> QED BY <1>1, <1>2

\* Processing the queue q, which holds what the queue held and no job that waits unless
\* it is processed.
LEMMA ProcessedKeeps ==
  ASSUME IInv, NEW q, Rested(q, status, disk, enqueuing', cleaning),
         enqueuing' \subseteq enqueuing,
         ProcessQueue(q), cleaning' = cleaning,
         resuming' \subseteq Jobs,
         UNCHANGED <<tables, file, open, counters>>
  PROVE  IInv' /\ Settled
<1>1. CASE exec = Idle
  <2>1. StartNext(q, status)
    BY <1>1 DEF ProcessQueue
  <2>2. \A j \in Jobs : status[j] # "running"
    BY <1>1 DEF IInv, Running
  <2>3. aborted \in [Jobs -> BOOLEAN]
    BY DEF IInv, Rest
  <2>4. Rested(q, status, disk, enqueuing', cleaning')
    OBVIOUS
  <2>5. /\ Rested(queue', status', disk', enqueuing', cleaning')
        /\ Busy' /\ Running' /\ Awake'
        /\ aborted' \in [Jobs -> BOOLEAN] /\ exec' \in Execution \cup {Idle}
        /\ \A j \in Jobs :
             /\ disk'[j] = disk[j] \/ (disk[j] = "queued" /\ disk'[j] = "running")
             /\ status'[j] = status[j] \/ status[j] = "queued"
    BY <2>1, <2>2, <2>3, <2>4, StartNextKeeps
  <2>6. Rest'
    BY <2>5 DEF IInv, Rest, counters
  <2>7. Settled
    BY <2>5 DEF Settled, None
  <2> QED BY <2>5, <2>6, <2>7 DEF IInv
<1>2. CASE exec # Idle
  <2>1. queue' = q /\ disk' = disk /\ status' = status /\ aborted' = aborted /\ exec' = exec
    BY <1>2 DEF ProcessQueue
  <2>2. Rested(queue', status', disk', enqueuing', cleaning')
    BY <2>1
  <2>3. Busy' /\ Running' /\ Awake'
    BY <1>2, <2>1 DEF IInv, Busy, Phase, Running, Awake, counters
  <2>4. Rest' /\ Settled
    BY <2>1 DEF IInv, Rest, Settled, counters
  <2> QED BY <2>2, <2>3, <2>4 DEF IInv
<1> QED BY <1>1, <1>2

\* An import ends, and the next one of the queue q starts.
LEMMA NextOneKeeps ==
  ASSUME IInv, NEW q, Rested(q, status, disk, enqueuing, cleaning),
         exec # Idle, status[exec.job] # "running" \/ exec.at \notin Early,
         StartNext(q, status), UNCHANGED <<enqueuing, cleaning, resuming>>,
         tables' = tables, open' = open,
         file' \in [Paths -> Jobs \cup {None, "empty"}],
         faults' \in 0 .. MaxFaults, UNCHANGED <<crashes, cancels, pauses>>
  PROVE  IInv' /\ Settled
<1>1. \A j \in Jobs : status[j] # "running"
  BY DEF IInv, Running
<1>2. aborted \in [Jobs -> BOOLEAN] /\ Rested(q, status, disk, enqueuing', cleaning')
  BY DEF IInv, Rest
<1>3. /\ Rested(queue', status', disk', enqueuing', cleaning')
      /\ Busy' /\ Running' /\ Awake'
      /\ aborted' \in [Jobs -> BOOLEAN] /\ exec' \in Execution \cup {Idle}
      /\ \A j \in Jobs :
           /\ disk'[j] = disk[j] \/ (disk[j] = "queued" /\ disk'[j] = "running")
           /\ status'[j] = status[j] \/ status[j] = "queued"
  BY <1>1, <1>2, StartNextKeeps
<1>4. Rest'
  BY <1>3 DEF IInv, Rest
<1>5. Settled
  BY <1>3 DEF Settled, None
<1> QED BY <1>3, <1>4, <1>5 DEF IInv

\* A job leaves the queue when it has ended in the database.
LEMMA LeavesKeeps ==
  ASSUME IInv, NEW j \in Jobs, disk[j] \in Final,
         NEW cl \in Cleanings, \A k \in Jobs : k # j => cl[k] = cleaning[k],
         cl[j] # None => status[j] # None
  PROVE  Rested(Without(queue, j), status, disk, enqueuing, cl)
<1>1. IsQueue(queue)
  BY DEF IInv, Rested
<1>2. IsQueue(Without(queue, j)) /\ In(Without(queue, j)) = In(queue) \ {j}
  BY <1>1, WithoutJob
<1>3. \A k \in Jobs : Placed(k, In(queue), status, disk, enqueuing, cleaning)
  BY DEF IInv, Rested
<1>4. \A k \in Jobs : Placed(k, In(queue) \ {j}, status, disk, enqueuing, cl)
  BY <1>3 DEF Placed, Final
<1> QED BY <1>2, <1>4 DEF IInv, Rested

-----------------------------------------------------------------------------
(* Every action keeps the invariant, and what has ended. *)

LEMMA EnqueueKeeps == ASSUME IInv, NEW j \in Jobs, Enqueue(j) PROVE IInv' /\ Settled
<1>1. /\ disk[j] = None /\ status[j] = None /\ j \notin In(queue) /\ cleaning[j] = None
  BY DEF Enqueue, IInv, Rested, Placed
<1>2. /\ disk' = [disk EXCEPT ![j] = "queued"] /\ status' = [status EXCEPT ![j] = "queued"]
      /\ enqueuing' = enqueuing \cup {j}
      /\ UNCHANGED <<tables, file, open, aborted, queue, exec, resuming, cleaning, counters>>
  BY DEF Enqueue
<1>3. Rested(queue', status', disk', enqueuing', cleaning')
  <2>1. /\ status \in [Jobs -> Statuses] /\ disk \in [Jobs -> Statuses]
        /\ "queued" \in Statuses /\ "queued" # None
        /\ \A k \in Jobs : Placed(k, In(queue), status, disk, enqueuing, cleaning)
    BY DEF IInv, Rested, Statuses, None
  <2>2. \A k \in Jobs : Placed(k, In(queue), status', disk', enqueuing', cleaning)
    BY <1>1, <1>2, <2>1 DEF Placed, None
  <2> QED BY <1>2, <2>1, <2>2 DEF IInv, Rested
<1>4. exec # Idle => exec.job # j
  BY <1>1 DEF IInv, Busy
<1>5. Busy'
  BY <1>2, <1>4 DEF IInv, Busy, Phase, Rested, counters
<1>6. Running' /\ Awake'
  BY <1>1, <1>2, InTypes DEF IInv, Running, Awake, Rested, counters
<1>7. Rest' /\ Settled
  BY <1>1, <1>2 DEF IInv, Rest, Settled, Rested, counters, None
<1> QED BY <1>3, <1>5, <1>6, <1>7 DEF IInv

\* The user sets the status of a job of the queue, in memory and in the database.
LEMMA SetKeeps ==
  ASSUME IInv, NEW j \in Jobs, Has(queue, j), NEW s \in {"paused", "queued", "cancelled"},
         s = "paused" => status[j] = "running",
         s = "queued" => status[j] = "paused" /\ j \in resuming' /\ aborted' = aborted,
         s # "queued" => aborted' = [aborted EXCEPT ![j] = TRUE],
         status' = [status EXCEPT ![j] = s], disk' = [disk EXCEPT ![j] = s],
         resuming \subseteq resuming', resuming' \subseteq Jobs,
         \/ cleaning' = cleaning
         \/ s = "cancelled" /\ cleaning' = [cleaning EXCEPT ![j] = "save"],
         UNCHANGED <<tables, file, open, queue, exec, enqueuing, crashes, faults>>,
         cancels' = IF s = "cancelled" THEN cancels + 1 ELSE cancels,
         cancels' \in 0 .. MaxCancels, pauses' \in 0 .. MaxPauses
  PROVE  IInv' /\ Settled
<1>0. /\ status \in [Jobs -> Statuses] /\ disk \in [Jobs -> Statuses] /\ cleaning \in Cleanings
      /\ aborted \in [Jobs -> BOOLEAN]
      /\ \A k \in Jobs : Placed(k, In(queue), status, disk, enqueuing, cleaning)
      /\ IsQueue(queue)
  BY DEF IInv, Rested, Rest
<1>1. j \in In(queue) /\ status[j] # None /\ disk[j] # None /\ j \notin enqueuing
  BY <1>0, InTypes DEF Placed
<1>2. s \in Statuses /\ s # None /\ s # "running" /\ s # "completed" /\ s # "failed"
      /\ s \in Open /\ (s = "cancelled" => s \in Final)
  BY DEF Statuses, None, Open, Final
<1>3. /\ status' \in [Jobs -> Statuses] /\ disk' \in [Jobs -> Statuses]
      /\ status'[j] = s /\ disk'[j] = s
      /\ \A k \in Jobs : k # j => status'[k] = status[k] /\ disk'[k] = disk[k]
                                  /\ aborted'[k] = aborted[k] /\ cleaning'[k] = cleaning[k]
      /\ cleaning' \in Cleanings
      /\ cleaning'[j] = cleaning[j] \/ (s = "cancelled" /\ cleaning'[j] = "save")
  <2>1. /\ status' \in [Jobs -> Statuses] /\ disk' \in [Jobs -> Statuses]
        /\ status'[j] = s /\ disk'[j] = s
        /\ \A k \in Jobs : k # j => status'[k] = status[k] /\ disk'[k] = disk[k]
    BY <1>0, <1>2
  <2>2. \A k \in Jobs : k # j => aborted'[k] = aborted[k]
    BY <1>0
  <2>3. \A k \in Jobs : k # j => cleaning'[k] = cleaning[k]
    BY <1>0 DEF Cleanings
  <2>4. cleaning' \in Cleanings
        /\ (cleaning'[j] = cleaning[j] \/ (s = "cancelled" /\ cleaning'[j] = "save"))
    BY <1>0 DEF Cleanings
  <2> QED BY <2>1, <2>2, <2>3, <2>4
<1>4. aborted' \in [Jobs -> BOOLEAN]
  <2>1. [aborted EXCEPT ![j] = TRUE] \in [Jobs -> BOOLEAN]
    BY <1>0
  <2> QED BY <1>0, <2>1
<1>5. cleaning[j] = "save" => s = "cancelled"
  BY <1>0, <1>2 DEF Placed, Final, None
<1>6. Rested(queue', status', disk', enqueuing', cleaning')
  <2>1. ASSUME NEW k \in Jobs PROVE Placed(k, In(queue), status', disk', enqueuing, cleaning')
    <3>1. CASE k = j
      BY <1>1, <1>2, <1>3, <1>5, <3>1 DEF Placed
    <3>2. CASE k # j
      BY <1>0, <1>3, <3>2 DEF Placed
    <3> QED BY <3>1, <3>2
  <2> QED BY <1>0, <1>3, <2>1 DEF IInv, Rested
<1>7. Busy'
  <2>1. CASE exec = Idle
    BY <2>1 DEF Busy
  <2>2. CASE exec # Idle /\ exec.job # j
    <3>1. /\ status'[exec.job] = status[exec.job] /\ disk'[exec.job] = disk[exec.job]
          /\ aborted'[exec.job] = aborted[exec.job]
      BY <1>3, <2>2 DEF IInv, Busy
    <3> QED BY <2>2, <3>1 DEF IInv, Busy, Phase
  <2>3. CASE exec # Idle /\ exec.job = j
    <3>1. /\ exec.at \in Steps /\ Phase(exec.at, status[j], disk[j], aborted[j])
          /\ exec.at = "unsaved" => faults # 0
      BY <2>3 DEF IInv, Busy
    <3>2. exec.at \notin Early => s = "cancelled"
      <4>1. CASE s = "paused"
        BY <4>1 DEF IInv, Running
      <4>2. CASE s = "queued"
        BY <1>0, <3>1, <4>2 DEF Phase, Steps, Early, Placed, None
      <4> QED BY <4>1, <4>2
    <3>3. exec.at \in Early => aborted'[j] = TRUE
      <4>1. CASE s = "queued"
        <5>1. aborted[j] \in BOOLEAN /\ aborted' = aborted /\ status[j] = "paused"
          BY <1>0, <4>1
        <5> QED BY <3>1, <5>1 DEF Phase
      <4>2. CASE s # "queued"
        BY <1>0, <4>2
      <4> QED BY <4>1, <4>2
    <3>4. Phase(exec.at, s, s, aborted'[j])
      BY <1>2, <3>1, <3>2, <3>3 DEF Phase, Open
    <3> QED BY <1>1, <1>2, <1>3, <2>3, <3>1, <3>4 DEF Busy
  <2> QED BY <2>1, <2>2, <2>3
<1>8. Running'
  BY <1>2, <1>3 DEF IInv, Running
<1>9. Awake'
  <2>1. \A k \in In(queue) : k \in Jobs
    BY <1>0, InTypes
  <2> QED BY <1>3, <2>1 DEF IInv, Awake
<1>10. Rest' /\ Settled
  <2>1. Rest'
    BY <1>4 DEF IInv, Rest
  <2>2. disk[j] \in {"completed", "failed"} => s = "cancelled"
    BY <1>0, <1>1 DEF Placed, None
  <2> QED BY <1>1, <1>2, <1>3, <2>1, <2>2 DEF Settled
<1> QED BY <1>6, <1>7, <1>8, <1>9, <1>10 DEF IInv

LEMMA UserKeeps == ASSUME IInv, NEW j \in Jobs, User(j) PROVE IInv' /\ Settled
<1>0. /\ cancels \in 0 .. MaxCancels /\ pauses \in 0 .. MaxPauses /\ resuming \subseteq Jobs
      /\ MaxCancels \in Nat /\ MaxPauses \in Nat
  BY ImportAssumption DEF IInv, Rest
<1>1. CASE Enqueue(j)
  BY <1>1, EnqueueKeeps
<1>2. CASE Pause(j)
  <2>1. pauses' \in 0 .. MaxPauses
    BY <1>0, <1>2 DEF Pause
  <2>2. /\ Has(queue, j) /\ status[j] = "running" /\ aborted' = [aborted EXCEPT ![j] = TRUE]
        /\ status' = [status EXCEPT ![j] = "paused"] /\ disk' = [disk EXCEPT ![j] = "paused"]
        /\ UNCHANGED <<tables, file, open, queue, exec, enqueuing, resuming, cleaning, crashes,
                       cancels, faults>>
    BY <1>2 DEF Pause, pending
  <2> QED BY <1>0, <2>1, <2>2, SetKeeps
<1>3. CASE Resume(j)
  <2>1. /\ Has(queue, j) /\ status[j] = "paused" /\ aborted' = aborted
        /\ status' = [status EXCEPT ![j] = "queued"] /\ disk' = [disk EXCEPT ![j] = "queued"]
        /\ resuming' = resuming \cup {j}
        /\ UNCHANGED <<tables, file, open, queue, exec, enqueuing, cleaning, crashes,
                       cancels, pauses, faults>>
    BY <1>3 DEF Resume, counters
  <2>2. j \in resuming' /\ resuming \subseteq resuming' /\ resuming' \subseteq Jobs
    BY <1>0, <2>1
  <2> QED BY <1>0, <2>1, <2>2, SetKeeps
<1>4. CASE Cancel(j)
  <2>1. cancels' = cancels + 1 /\ cancels' \in 0 .. MaxCancels
    BY <1>0, <1>4 DEF Cancel
  <2>2. /\ Has(queue, j) /\ aborted' = [aborted EXCEPT ![j] = TRUE]
        /\ status' = [status EXCEPT ![j] = "cancelled"]
        /\ disk' = [disk EXCEPT ![j] = "cancelled"]
        /\ cleaning' = [cleaning EXCEPT ![j] = "save"]
        /\ UNCHANGED <<tables, file, open, queue, exec, enqueuing, resuming, crashes, pauses,
                       faults>>
    BY <1>4 DEF Cancel
  <2> QED BY <1>0, <2>1, <2>2, SetKeeps
<1> QED BY <1>1, <1>2, <1>3, <1>4 DEF User

LEMMA ReturnsKeep == ASSUME IInv, NEW j \in Jobs, Returns(j) PROVE IInv' /\ Settled
<1>0. /\ IsQueue(queue) /\ cleaning \in Cleanings
      /\ \A k \in Jobs : Placed(k, In(queue), status, disk, enqueuing, cleaning)
  BY DEF IInv, Rested
<1>1. CASE Enqueued(j)
  <2>1. j \in enqueuing /\ enqueuing' = enqueuing \ {j} /\ ProcessQueue(SetEntry(queue, j))
        /\ UNCHANGED <<tables, file, open, resuming, cleaning, counters>>
    BY <1>1 DEF Enqueued
  <2>2. j \notin In(queue) /\ status[j] = "queued"
    BY <1>0, <2>1 DEF Placed
  <2>3. IsQueue(SetEntry(queue, j)) /\ In(SetEntry(queue, j)) = In(queue) \cup {j}
    BY <1>0, <2>2, InTypes, SetNewEntry
  <2>4. Rested(SetEntry(queue, j), status, disk, enqueuing', cleaning)
    <3>1. \A k \in Jobs : Placed(k, In(queue) \cup {j}, status, disk, enqueuing', cleaning)
      BY <1>0, <2>1, <2>2 DEF Placed, None
    <3> QED BY <2>1, <2>3, <3>1 DEF IInv, Rested
  <2>5. resuming' \subseteq Jobs /\ enqueuing' \subseteq enqueuing
    BY <2>1 DEF IInv, Rest
  <2> QED BY <2>1, <2>4, <2>5, ProcessedKeeps
<1>2. CASE Resumed(j)
  <2>1. ProcessQueue(queue) /\ resuming' = resuming \ {j}
        /\ UNCHANGED <<tables, file, open, enqueuing, cleaning, counters>>
    BY <1>2 DEF Resumed
  <2>2. Rested(queue, status, disk, enqueuing', cleaning)
    BY <2>1 DEF IInv
  <2>3. resuming' \subseteq Jobs
    BY <2>1 DEF IInv, Rest
  <2> QED BY <2>1, <2>2, <2>3, ProcessedKeeps
<1>3. CASE Cancelled(j)
  <2>1. /\ cleaning[j] = "save" /\ queue' = Without(queue, j)
        /\ cleaning' = [cleaning EXCEPT ![j] = "file"]
        /\ UNCHANGED <<disk, tables, file, open, status, aborted, exec, enqueuing, resuming,
                       counters>>
    BY <1>3 DEF Cancelled, saved
  <2>2. /\ disk[j] \in Final /\ status[j] # None
        /\ cleaning' \in Cleanings /\ \A k \in Jobs : k # j => cleaning'[k] = cleaning[k]
    BY <1>0, <2>1 DEF Placed, Cleanings, None
  <2>3. Rested(queue', status', disk', enqueuing', cleaning')
    BY <2>1, <2>2, LeavesKeeps
  <2>4. In(queue') \subseteq In(queue)
    BY <1>0, <2>1, WithoutJob
  <2>5. Busy' /\ Running' /\ Awake' /\ Rest' /\ Settled
    BY <2>1, <2>4 DEF IInv, Busy, Phase, Running, Awake, Rest, Settled, counters
  <2> QED BY <2>3, <2>5 DEF IInv
<1>4. CASE CancelCleans(j)
  <2>1. /\ cleaning' = [cleaning EXCEPT ![j] = None]
        /\ file' = [file EXCEPT ![PathOf[j]] = None]
        /\ UNCHANGED <<disk, tables, open, status, aborted, queue, exec, enqueuing, resuming,
                       counters>>
    BY <1>4 DEF CancelCleans
  <2>2. Rested(queue', status', disk', enqueuing', cleaning')
    <3>1. cleaning' \in Cleanings
          /\ \A k \in Jobs : cleaning'[k] = cleaning[k] \/ cleaning'[k] = None
      BY <1>0, <2>1 DEF Cleanings
    <3>2. \A k \in Jobs : Placed(k, In(queue), status, disk, enqueuing, cleaning')
      BY <1>0, <3>1 DEF Placed, None
    <3> QED BY <2>1, <3>1, <3>2 DEF IInv, Rested
  <2>3. Busy' /\ Running' /\ Awake' /\ Settled
    BY <2>1 DEF IInv, Busy, Phase, Running, Awake, Settled, counters
  <2>4. Rest'
    BY <2>1 DEF IInv, Rest, counters
  <2> QED BY <2>2, <2>3, <2>4 DEF IInv
<1> QED BY <1>1, <1>2, <1>3, <1>4 DEF Returns

\* What the invariant says of the import in progress.
LEMMA ExecFacts ==
  ASSUME IInv, NEW j \in Jobs, NEW a \in Steps, At(a, j)
  PROVE  /\ exec # Idle /\ exec.job = j /\ exec.at = a
         /\ status[j] # None /\ j \notin enqueuing
         /\ Phase(a, status[j], disk[j], aborted[j])
         /\ exec \in Execution
<1>1. exec.job = j /\ exec.at = a /\ exec \in Execution
  BY DEF At, Execution
<1>2. exec # Idle
  BY <1>1 DEF Idle, Steps
<1> QED BY <1>1, <1>2 DEF IInv, Busy

LEMMA NextStep ==
  ASSUME NEW j \in Jobs, NEW a \in Steps, At(a, j), NEW b \in Steps, GoTo(b)
  PROVE  exec' = [job |-> j, at |-> b] /\ exec'.job = j /\ exec'.at = b /\ exec' # Idle
         /\ exec' \in Execution
BY DEF At, GoTo, Idle, Steps, Execution

\* The import goes on, and at most saves its status again.
LEMMA OnwardKeeps ==
  ASSUME IInv, NEW j \in Jobs, NEW a \in Early, NEW b \in Early, At(a, j), GoTo(b),
         disk' = [disk EXCEPT ![j] = status[j]] \/ disk' = disk,
         UNCHANGED <<status, open, aborted, queue, pending, counters>>,
         tables' \in [Names -> Jobs \cup {None}],
         file' \in [Paths -> Jobs \cup {None, "empty"}]
  PROVE  IInv' /\ Settled
<1>0. a \in Steps /\ b \in Steps /\ a # "unsaved" /\ b # "unsaved"
  BY DEF Early, Steps
<1>1. /\ exec # Idle /\ exec.job = j /\ exec.at = a
      /\ status[j] # None /\ j \notin enqueuing
      /\ Phase(a, status[j], disk[j], aborted[j])
  BY <1>0, ExecFacts
<1>2. exec' = [job |-> j, at |-> b] /\ exec'.job = j /\ exec'.at = b /\ exec' # Idle
      /\ exec' \in Execution
  BY <1>0, NextStep
<1>3. status[j] = disk[j] /\ disk \in [Jobs -> Statuses]
  BY <1>1 DEF Phase, IInv, Rested
<1>4. disk' = disk
  BY <1>3
<1>5. Rested(queue', status', disk', enqueuing', cleaning')
  BY <1>4 DEF IInv, pending
<1>6. Phase(b, status[j], disk[j], aborted[j])
  BY <1>0, <1>1 DEF Phase, Early
<1>7. Busy'
  BY <1>0, <1>1, <1>2, <1>4, <1>6 DEF Busy, pending
<1>8. Running'
  BY <1>1, <1>2 DEF IInv, Running
<1>9. Awake' /\ Rest' /\ Settled
  BY <1>2, <1>4 DEF Awake, IInv, Rest, Settled, pending, counters
<1> QED BY <1>5, <1>7, <1>8, <1>9 DEF IInv

\* The import of a job ends as s, in memory and in the database, unless the job was
\* cancelled in the meantime; what comes next is the step b.
LEMMA EndsKeep ==
  ASSUME IInv, NEW j \in Jobs, NEW a \in Early, At(a, j),
         NEW s \in {"completed", "failed"}, NEW b \in {"complete", "failed"}, GoTo(b),
         (s = "completed") <=> (b = "complete"),
         status' = [status EXCEPT ![j] = s], disk' = [disk EXCEPT ![j] = s],
         UNCHANGED <<tables, file, open, aborted, queue, pending, crashes, cancels, pauses>>,
         faults' \in 0 .. MaxFaults
  PROVE  IInv' /\ Settled
<1>0. a \in Steps /\ b \in Steps /\ b \notin Early /\ a # "unsaved" /\ b # "unsaved"
  BY DEF Early, Steps
<1>1. /\ exec # Idle /\ exec.job = j /\ exec.at = a
      /\ status[j] # None /\ j \notin enqueuing
      /\ Phase(a, status[j], disk[j], aborted[j])
  BY <1>0, ExecFacts
<1>2. exec' = [job |-> j, at |-> b] /\ exec'.job = j /\ exec'.at = b /\ exec' # Idle
      /\ exec' \in Execution
  BY <1>0, NextStep
<1>3. /\ status \in [Jobs -> Statuses] /\ disk \in [Jobs -> Statuses]
      /\ \A k \in Jobs : Placed(k, In(queue), status, disk, enqueuing, cleaning)
  BY DEF IInv, Rested
<1>4. s \in Statuses /\ s # None /\ s \in Final /\ s # "running" /\ s \notin {"queued", "running"}
  BY DEF Statuses, None, Final
<1>5. /\ status' \in [Jobs -> Statuses] /\ disk' \in [Jobs -> Statuses]
      /\ status'[j] = s /\ disk'[j] = s
      /\ \A k \in Jobs : k # j => status'[k] = status[k] /\ disk'[k] = disk[k]
  BY <1>3, <1>4
<1>6. Rested(queue', status', disk', enqueuing', cleaning')
  <2>1. \A k \in Jobs : Placed(k, In(queue), status', disk', enqueuing, cleaning)
    BY <1>1, <1>3, <1>4, <1>5 DEF Placed
  <2> QED BY <1>5, <2>1 DEF IInv, Rested, pending
<1>7. Busy'
  <2>1. Phase(b, s, s, aborted[j])
    BY <1>0 DEF Phase
  <2> QED BY <1>0, <1>1, <1>2, <1>4, <1>5, <2>1 DEF Busy, pending
<1>8. Running'
  BY <1>1, <1>4, <1>5 DEF IInv, Running
<1>9. Awake' /\ Rest'
  BY <1>2 DEF Awake, IInv, Rest, pending
<1>10. Settled
  <2>1. disk[j] \in Open
    BY <1>1 DEF Phase
  <2> QED BY <1>1, <1>4, <1>5, <2>1 DEF Settled, Open
<1> QED BY <1>6, <1>7, <1>8, <1>9, <1>10 DEF IInv

LEMMA CatchKeeps ==
  ASSUME IInv, NEW j \in Jobs, NEW a \in Early, At(a, j), GiveUp(j) \/ Fail(j),
         UNCHANGED <<tables, file, open, pending, crashes, cancels, pauses>>,
         faults' \in 0 .. MaxFaults
  PROVE  IInv' /\ Settled
<1>0. a \in Steps
  BY DEF Early, Steps
<1>1. /\ exec # Idle /\ exec.job = j /\ exec.at = a
      /\ Phase(a, status[j], disk[j], aborted[j])
  BY <1>0, ExecFacts
<1>2. CASE GiveUp(j)
  <2>1. status[exec.job] # "running" /\ StartNext(queue, status)
    BY <1>1, <1>2 DEF GiveUp, Phase
  <2>2. Rested(queue, status, disk, enqueuing, cleaning)
        /\ file \in [Paths -> Jobs \cup {None, "empty"}]
    BY DEF IInv, Rest
  <2> QED BY <1>1, <2>1, <2>2, NextOneKeeps DEF pending
<1>3. CASE Fail(j)
  BY <1>3, EndsKeep DEF Fail, pending
<1> QED BY <1>2, <1>3

LEMMA ImportKeeps ==
  ASSUME IInv, NEW j \in Jobs, Import(j) \/ Faulty(j) PROVE IInv' /\ Settled
<1>0. /\ tables \in [Names -> Jobs \cup {None}]
      /\ file \in [Paths -> Jobs \cup {None, "empty"}]
      /\ faults \in 0 .. MaxFaults /\ MaxFaults \in Nat
      /\ PathOf[j] \in Paths /\ NameOf[j] \in Names
      /\ Rested(queue, status, disk, enqueuing, cleaning)
  BY ImportAssumption DEF IInv, Rest
<1>e. {"save", "fetch", "write", "register", "saved"} \subseteq Early /\ Early \subseteq Steps
      /\ {"complete", "failed", "unsaved", "clean"} \subseteq Steps \ Early
  BY DEF Early, Steps
<1>1. CASE Started(j)
  BY <1>0, <1>1, <1>e, OnwardKeeps DEF Started, saved
<1>2. CASE Fetched(j)
  <2>1. file' \in [Paths -> Jobs \cup {None, "empty"}]
    BY <1>0, <1>2 DEF Fetched
  <2> QED BY <1>0, <1>2, <1>e, <2>1, OnwardKeeps DEF Fetched
<1>3. CASE Written(j)
  <2>1. file' \in [Paths -> Jobs \cup {None, "empty"}]
    BY <1>0, <1>3 DEF Written
  <2> QED BY <1>0, <1>3, <1>e, <2>1, OnwardKeeps DEF Written
<1>4. CASE TableSaved(j)
  <2>1. tables' \in [Names -> Jobs \cup {None}]
    BY <1>0, <1>4 DEF TableSaved
  <2> QED BY <1>0, <1>4, <1>e, <2>1, OnwardKeeps DEF TableSaved
<1>5. CASE Registered(j)
  BY <1>0, <1>5, <1>e, EndsKeep DEF Registered, counters
<1>6. CASE Completed(j)
  <2>1. At("complete", j) /\ StartNext(Without(queue, j), status)
        /\ UNCHANGED <<tables, file, open, pending, counters>>
    BY <1>6 DEF Completed
  <2>2. exec # Idle /\ exec.job = j /\ exec.at = "complete"
        /\ status[j] # None /\ disk[j] \in Final
    BY <1>e, <2>1, ExecFacts DEF Phase, Final
  <2>3. Rested(Without(queue, j), status, disk, enqueuing, cleaning)
    BY <2>2, LeavesKeeps DEF IInv, Rested
  <2> QED BY <1>0, <1>e, <2>1, <2>2, <2>3, NextOneKeeps DEF pending, counters
<1>7. CASE NameTaken(j)
  BY <1>0, <1>7, <1>e, CatchKeeps DEF NameTaken, counters
<1>8. CASE WriteFails(j)
  <2>1. faults' \in 0 .. MaxFaults
    BY <1>0, <1>8 DEF WriteFails
  <2> QED BY <1>8, <1>e, <2>1, CatchKeeps DEF WriteFails
<1>9. CASE Failed(j)
  <2>1. At("failed", j) /\ GoTo("clean") /\ queue' = Without(queue, j)
        /\ UNCHANGED <<disk, tables, file, open, status, aborted, pending, counters>>
    BY <1>9 DEF Failed, saved
  <2>2. exec # Idle /\ exec.job = j /\ exec.at = "failed"
        /\ status[j] # None /\ j \notin enqueuing
        /\ Phase("failed", status[j], disk[j], aborted[j])
    BY <1>e, <2>1, ExecFacts
  <2>3. exec'.job = j /\ exec'.at = "clean" /\ exec' # Idle /\ exec' \in Execution
    BY <1>e, <2>1, NextStep
  <2>4. Rested(queue', status', disk', enqueuing', cleaning')
    <3>1. disk[j] \in Final
      BY <2>2 DEF Phase, Final
    <3>2. cleaning \in Cleanings
      BY DEF IInv, Rested
    <3>3. Rested(Without(queue, j), status, disk, enqueuing, cleaning)
      BY <2>2, <3>1, <3>2, LeavesKeeps
    <3> QED BY <2>1, <3>3 DEF pending
  <2>5. Phase("clean", status[j], disk[j], aborted[j])
    BY <2>2 DEF Phase, Early
  <2>6. Busy'
    BY <1>e, <2>1, <2>2, <2>3, <2>5 DEF Busy, pending
  <2>7. Running'
    BY <1>e, <2>1, <2>2 DEF IInv, Running
  <2>8. Awake' /\ Rest' /\ Settled
    BY <2>1, <2>3 DEF Awake, IInv, Rest, Settled, pending, counters
  <2> QED BY <2>4, <2>6, <2>7, <2>8 DEF IInv
<1>10. CASE FailCleans(j)
  <2>1. At("clean", j) /\ StartNext(queue, status)
        /\ file' = [file EXCEPT ![PathOf[j]] = None]
        /\ UNCHANGED <<tables, open, pending, counters>>
    BY <1>10 DEF FailCleans
  <2>2. exec # Idle /\ exec.at = "clean"
    BY <1>e, <2>1, ExecFacts
  <2>3. file' \in [Paths -> Jobs \cup {None, "empty"}]
    BY <1>0, <2>1
  <2> QED BY <1>0, <1>e, <2>1, <2>2, <2>3, NextOneKeeps DEF pending, counters
<1>11. CASE StorageFull(j)
  <2>1. At("write", j) /\ GoTo("unsaved") /\ ~aborted[j] /\ faults' = faults + 1
        /\ faults < MaxFaults
        /\ status' = [status EXCEPT ![j] = "failed"]
        /\ UNCHANGED <<disk, tables, file, open, aborted, queue, pending, crashes, cancels,
                       pauses>>
    BY <1>11 DEF StorageFull, saved
  <2>2. exec # Idle /\ exec.job = j /\ exec.at = "write"
        /\ status[j] # None /\ j \notin enqueuing
        /\ Phase("write", status[j], disk[j], aborted[j])
    BY <1>e, <2>1, ExecFacts
  <2>3. exec'.job = j /\ exec'.at = "unsaved" /\ exec' # Idle /\ exec' \in Execution
    BY <1>e, <2>1, NextStep
  <2>4. /\ status \in [Jobs -> Statuses] /\ "failed" \in Statuses /\ "failed" # None
        /\ \A k \in Jobs : Placed(k, In(queue), status, disk, enqueuing, cleaning)
    BY DEF IInv, Rested, Statuses, None
  <2>5. /\ status' \in [Jobs -> Statuses] /\ status'[j] = "failed"
        /\ \A k \in Jobs : k # j => status'[k] = status[k]
    BY <2>1, <2>4
  <2>6. Rested(queue', status', disk', enqueuing', cleaning')
    <3>1. \A k \in Jobs : Placed(k, In(queue), status', disk, enqueuing, cleaning)
      BY <2>2, <2>4, <2>5 DEF Placed
    <3> QED BY <2>1, <2>5, <3>1 DEF IInv, Rested, pending
  <2>7. faults' # 0 /\ faults' \in 0 .. MaxFaults
    BY <1>0, <2>1
  <2>8. Busy'
    <3>1. Phase("unsaved", "failed", disk[j], aborted[j])
      BY DEF Phase, Early
    <3> QED BY <1>e, <2>1, <2>2, <2>3, <2>4, <2>5, <2>7, <3>1 DEF Busy, pending
  <2>9. Running'
    BY <2>2, <2>5 DEF IInv, Running
  <2>10. Awake' /\ Rest'
    BY <2>1, <2>3, <2>7 DEF Awake, IInv, Rest, pending
  <2>11. Settled
    BY <2>1, <2>2, <2>5 DEF Settled
  <2> QED BY <2>6, <2>8, <2>9, <2>10, <2>11 DEF IInv
<1>12. CASE Thrown(j)
  <2>1. At("unsaved", j) /\ exec' = Idle
        /\ UNCHANGED <<disk, tables, file, open, status, aborted, queue, pending, counters>>
    BY <1>12 DEF Thrown, saved
  <2>2. exec # Idle /\ exec.job = j /\ exec.at = "unsaved"
    BY <1>e, <2>1, ExecFacts
  <2>3. faults # 0
    BY <2>2 DEF IInv, Busy
  <2>4. Rested(queue', status', disk', enqueuing', cleaning') /\ Busy'
    BY <2>1 DEF IInv, Busy, pending
  <2>5. Running' /\ Awake'
    BY <1>e, <2>1, <2>2, <2>3 DEF IInv, Running, Awake, counters
  <2>6. Rest' /\ Settled
    BY <2>1 DEF IInv, Rest, Settled, pending, counters
  <2> QED BY <2>4, <2>5, <2>6 DEF IInv
<1> QED BY <1>1, <1>2, <1>3, <1>4, <1>5, <1>6, <1>7, <1>8, <1>9, <1>10, <1>11, <1>12
           DEF Import, Faulty

\* A page that is closed leaves the database as it is, and nothing in memory.
LEMMA CrashKeeps == ASSUME IInv, Crash PROVE IInv' /\ Settled
<1>1. /\ status' = NoStatus /\ aborted' = NotAborted /\ queue' = << >> /\ exec' = Idle
      /\ enqueuing' = {} /\ resuming' = {} /\ cleaning' = NoCleaning /\ open' = FALSE
      /\ disk' = disk /\ tables' = tables /\ file' = file
      /\ UNCHANGED <<cancels, pauses, faults>>
  BY DEF Crash, saved
<1>2. crashes' \in 0 .. MaxCrashes
  BY ImportAssumption DEF Crash, IInv, Rest
<1>3. Rested(queue', status', disk', enqueuing', cleaning')
  <2>1. \A k \in Jobs : status'[k] = None /\ cleaning'[k] = None
    BY <1>1 DEF NoStatus, NoCleaning
  <2>2. status' \in [Jobs -> Statuses] /\ cleaning' \in Cleanings
    BY <1>1 DEF NoStatus, NoCleaning, Statuses, Cleanings
  <2>3. \A k \in Jobs : Placed(k, {}, status', disk, {}, cleaning')
    BY <2>1 DEF Placed, None
  <2> QED BY <1>1, <2>2, <2>3, NoneIn DEF IInv, Rested
<1>4. Busy' /\ Awake'
  BY <1>1, NoneIn DEF Busy, Awake
<1>5. Running'
  BY <1>1 DEF Running, NoStatus, None
<1>6. Rest'
  <2>1. aborted' \in [Jobs -> BOOLEAN] /\ open' \in BOOLEAN
    BY <1>1, Zenon DEF NotAborted
  <2> QED BY <1>1, <1>2, <2>1 DEF IInv, Rest
<1>7. Settled
  BY <1>1 DEF Settled, NoStatus
<1> QED BY <1>3, <1>4, <1>5, <1>6, <1>7 DEF IInv

LEMMA StandsKeeps ==
  ASSUME IInv, UNCHANGED <<saved, status, aborted, queue, exec, pending, counters>>,
         open' \in BOOLEAN
  PROVE  IInv' /\ Settled
<1>1. Rested(queue', status', disk', enqueuing', cleaning') /\ Settled
  BY DEF IInv, saved, pending, Settled
<1>2. Busy' /\ Running' /\ Awake'
  BY DEF IInv, Busy, Phase, Running, Awake, saved, pending, counters
<1>3. Rest'
  BY DEF IInv, Rest, saved, pending, counters
<1> QED BY <1>1, <1>2, <1>3 DEF IInv

LEMMA StepKeeps == IInv /\ [Next]_vars => IInv' /\ Settled
<1> SUFFICES ASSUME IInv, [Next]_vars PROVE IInv' /\ Settled
  OBVIOUS
<1>1. CASE Crash
  BY <1>1, CrashKeeps
<1>2. CASE OpenStore
  BY <1>2, StandsKeeps DEF OpenStore
<1>3. ASSUME NEW j \in Jobs, User(j) \/ Returns(j) \/ Import(j) \/ Faulty(j)
      PROVE  IInv' /\ Settled
  BY <1>3, UserKeeps, ReturnsKeep, ImportKeeps
<1>4. CASE UNCHANGED vars
  BY <1>4, StandsKeeps DEF vars, IInv, Rest
<1> QED BY <1>1, <1>2, <1>3, <1>4 DEF Next

THEOREM Invariance == Spec => []IInv
<1>1. IInv /\ [Next]_vars => IInv'
  BY StepKeeps
<1> QED BY InitKeeps, <1>1, PTL DEF Spec

\* No job of the page is forgotten, whatever pauses, resumes, cancels and errors come
\* between: it is in the queue or being put there while it is saved as queued or
\* running; one that shows as running is the import in progress; and none waits in
\* the queue while nothing is imported, unless an error stopped the queue.
THEOREM NoJobIsForgotten == Spec => []NothingForgotten
<1>1. IInv => NothingForgotten
  <2> SUFFICES ASSUME IInv, NEW j \in Jobs
               PROVE  /\ Here(j) /\ disk[j] \in {"queued", "running"}
                           => Has(queue, j) \/ j \in enqueuing
                      /\ status[j] = "running" => exec.job = j /\ ~aborted[j]
                      /\ faults = 0 /\ exec = Idle /\ Has(queue, j) /\ status[j] = "queued"
                           => j \in resuming
    BY DEF NothingForgotten
  <2>1. (Has(queue, j) <=> j \in In(queue)) /\ Placed(j, In(queue), status, disk, enqueuing, cleaning)
    BY InTypes DEF IInv, Rested
  <2>2. status[j] = "running" => exec.job = j /\ ~aborted[j]
    BY DEF IInv, Running, Busy, Phase
  <2> QED BY <2>1, <2>2 DEF Placed, Here, IInv, Awake
<1> QED BY <1>1, Invariance, PTL

\* A job that is completed or failed in the database stays so, whatever the user and
\* late saves do; only a cancel overwrites it.
THEOREM EndsStay == Spec => FinalStays
<1>1. IInv /\ [Next]_vars =>
        [\A j \in Jobs : disk[j] \in {"completed", "failed"} =>
           disk'[j] \in {disk[j], "cancelled"}]_vars
  BY StepKeeps DEF Settled
<1> QED BY <1>1, Invariance, PTL DEF Spec, FinalStays

-----------------------------------------------------------------------------
(* The files of the catalogue. *)

Wrote(j) == file[PathOf[j]] = j

\* With a path for every job and no cancel, what an import has written stays, as an
\* import that has failed has no table and one of an earlier page is not taken up.
Calm == IsInjective(PathOf) /\ cancels = 0

\* The job is imported no more: it has been completed, or its page closed.
Past(j) == disk[j] = "completed" \/ (status[j] = None /\ disk[j] # None)

FilesStay ==
  Calm =>
    /\ \A j \in Jobs : cleaning[j] = None
    /\ exec.at \in {"register", "saved"} => Wrote(exec.job)
    /\ \A n \in Names : tables[n] # None =>
         /\ Wrote(tables[n])
         /\ Past(tables[n]) \/ (exec.job = tables[n] /\ exec.at = "saved")

\* A step that leaves files, tables and cleanups alone, and the import in progress
\* too, unless it comes to an end or its table is saved and it is completed.
LEMMA FilesStand ==
  ASSUME IInv, Settled, FilesStay, cleaning' = cleaning,
         UNCHANGED <<tables, file, cancels>>,
         \/ exec' = exec
         \/ /\ exec'.at \notin {"register", "saved"}
            /\ exec.at = "saved" => disk'[exec.job] = "completed"
  PROVE  FilesStay'
<1> SUFFICES ASSUME Calm' PROVE FilesStay'
  BY DEF FilesStay
<1>0. Calm /\ Rest
  BY DEF Calm, IInv
<1>1. cancels' # cancels + 1
  BY <1>0 DEF Calm
<1>2. \A n \in Names : tables[n] # None => tables[n] \in Jobs
  BY <1>0 DEF Rest
<1>3. \A j \in Jobs : Past(j) => Past(j)'
  BY <1>1 DEF Settled, Past
<1>4. exec'.at \in {"register", "saved"} => exec' = exec
  OBVIOUS
<1>5. \A j \in Jobs : cleaning'[j] = None
  BY <1>0 DEF FilesStay
<1>6. exec'.at \in {"register", "saved"} => Wrote(exec.job)' /\ exec' = exec
  BY <1>0, <1>4 DEF FilesStay, Wrote
<1>7. \A n \in Names : tables[n] # None =>
        /\ Wrote(tables[n])'
        /\ Past(tables[n])' \/ (exec'.job = tables[n] /\ exec'.at = "saved")
  BY <1>0, <1>2, <1>3 DEF FilesStay, Wrote, Past
<1> QED BY <1>5, <1>6, <1>7 DEF FilesStay, Wrote, Past

LEMMA StartsAt ==
  ASSUME NEW q, NEW st, StartNext(q, st)
  PROVE  exec'.at \in {"idle", "save"}
BY DEF StartNext, Idle

LEMMA ProcessesAt ==
  ASSUME NEW q, ProcessQueue(q)
  PROVE  exec' = exec \/ (exec'.at \in {"idle", "save"} /\ exec.at = "idle")
BY StartsAt DEF ProcessQueue, Idle

\* A file is written by the import in progress, or deleted: it is not that of a
\* job with a table.
LEMMA FilesChange ==
  ASSUME IInv, Settled, FilesStay, NEW j \in Jobs, NEW a, At(a, j),
         a \in {"fetch", "write", "clean"},
         NEW c, file' = [file EXCEPT ![PathOf[j]] = c],
         UNCHANGED <<tables, cleaning, cancels>>,
         exec'.at = "register" => exec'.job = j /\ c = j,
         exec'.at # "saved"
  PROVE  FilesStay'
<1> SUFFICES ASSUME Calm' PROVE FilesStay'
  BY DEF FilesStay
<1>0. Calm /\ Rest
  BY DEF Calm, IInv
<1>1. cancels' # cancels + 1
  BY <1>0 DEF Calm
<1>2. \A n \in Names : tables[n] # None => tables[n] \in Jobs
  BY <1>0 DEF Rest
<1>3. \A k \in Jobs : Past(k) => Past(k)'
  BY <1>1 DEF Settled, Past
<1>4. exec.at = a /\ exec.job = j /\ ~Past(j)
  <2>1. a \in Steps
    BY DEF Steps
  <2> QED BY <2>1, ExecFacts DEF Phase, Open, Early, Past
<1>5. \A n \in Names : tables[n] # None =>
        tables[n] # j /\ Past(tables[n]) /\ Wrote(tables[n])
  BY <1>0, <1>4 DEF FilesStay
<1>6. \A k \in Jobs : k # j => PathOf[k] # PathOf[j]
  BY <1>0, ImportAssumption DEF Calm, IsInjective
<1>7. PathOf[j] \in Paths /\ file \in [Paths -> Jobs \cup {None, "empty"}]
      /\ PathOf \in [Jobs -> Paths]
  BY <1>0, ImportAssumption DEF Rest
<1>8. file'[PathOf[j]] = c /\ \A k \in Jobs : k # j => file'[PathOf[k]] = file[PathOf[k]]
  BY <1>6, <1>7
<1>9. \A n \in Names : tables[n] # None =>
        Wrote(tables[n])' /\ Past(tables[n])'
  BY <1>2, <1>3, <1>5, <1>8 DEF Wrote, Past
<1>10. exec'.at \in {"register", "saved"} => Wrote(exec.job)' /\ exec'.job = exec.job
  BY <1>4, <1>8 DEF Wrote
<1>11. \A k \in Jobs : cleaning'[k] = None
  BY <1>0 DEF FilesStay
<1> QED BY <1>9, <1>10, <1>11 DEF FilesStay, Wrote, Past

LEMMA RegisteredJob ==
  ASSUME IInv, NEW j \in Jobs, Registered(j)
  PROVE  exec.job = j /\ exec'.at = "complete" /\ disk'[j] = "completed"
<1>1. exec'.at = "complete"
  BY NextStep DEF Registered, Steps
<1>2. exec.job = j
  BY DEF Registered, At
<1>3. disk'[j] = "completed"
  BY DEF Registered, IInv, Rested
<1> QED BY <1>1, <1>2, <1>3

LEMMA FilesKept == IInv /\ FilesStay /\ [Next]_vars => FilesStay'
<1> SUFFICES ASSUME IInv, FilesStay, [Next]_vars PROVE FilesStay'
  OBVIOUS
<1>0. Settled /\ Rest
  BY StepKeeps DEF IInv
<1>c. cancels \in Nat /\ (\A n \in Names : tables[n] # None => tables[n] \in Jobs)
  BY <1>0 DEF Rest
<1>1. CASE Crash
  <2> SUFFICES ASSUME Calm' PROVE FilesStay'
    BY DEF FilesStay
  <2>1. /\ Calm /\ exec'.at = "idle" /\ UNCHANGED <<disk, tables, file>>
        /\ \A k \in Jobs : cleaning'[k] = None /\ status'[k] = None
    BY <1>1 DEF Crash, Calm, Idle, NoCleaning, NoStatus, saved
  <2>2. ASSUME NEW n \in Names, tables[n] # None PROVE Past(tables[n])'
    <3>1. CASE Past(tables[n])
      BY <1>c, <2>1, <2>2, <3>1 DEF Past, None
    <3>2. CASE exec.job = tables[n] /\ exec.at = "saved"
      <4>1. exec # Idle
        BY <3>2 DEF Idle
      <4>2. status[tables[n]] # None
        BY <3>2, <4>1 DEF IInv, Busy
      <4>3. disk[tables[n]] # None
        BY <1>c, <2>2, <4>2 DEF IInv, Rested, Placed
      <4> QED BY <1>c, <2>1, <2>2, <4>3 DEF Past
    <3> QED BY <2>1, <2>2, <3>1, <3>2 DEF FilesStay
  <2> QED BY <2>1, <2>2 DEF FilesStay, Wrote, Past
<1>2. CASE OpenStore
  BY <1>0, <1>2, FilesStand DEF OpenStore, saved, pending, counters
<1>3. ASSUME NEW j \in Jobs, User(j) PROVE FilesStay'
  <2>1. CASE Cancel(j)
    BY <1>c, <2>1 DEF Cancel, FilesStay, Calm
  <2>2. CASE Enqueue(j) \/ Pause(j) \/ Resume(j)
    <3>1. cleaning' = cleaning /\ exec' = exec /\ UNCHANGED <<tables, file, cancels>>
      BY <2>2 DEF Enqueue, Pause, Resume, pending, counters
    <3> QED BY <1>0, <3>1, FilesStand
  <2> QED BY <1>3, <2>1, <2>2 DEF User
<1>4. ASSUME NEW j \in Jobs, Returns(j) PROVE FilesStay'
  <2>1. CASE Enqueued(j)
    BY <1>0, <2>1, FilesStand, ProcessesAt DEF Enqueued, counters
  <2>2. CASE Resumed(j)
    BY <1>0, <2>2, FilesStand, ProcessesAt DEF Resumed, counters
  <2>3. CASE Cancelled(j) \/ CancelCleans(j)
    <3>1. ~Calm /\ cancels' = cancels
      BY <2>3 DEF Cancelled, CancelCleans, FilesStay, counters, None
    <3> QED BY <3>1 DEF FilesStay, Calm
  <2> QED BY <1>4, <2>1, <2>2, <2>3 DEF Returns
<1>5. ASSUME NEW j \in Jobs, Import(j) \/ Faulty(j)
      PROVE  FilesStay'
  <2>1. CASE Started(j) \/ Failed(j) \/ Thrown(j) \/ StorageFull(j)
    <3>1. /\ exec.at # "saved" /\ exec'.at \notin {"register", "saved"}
          /\ cleaning' = cleaning /\ UNCHANGED <<tables, file, cancels>>
      <4>1. exec.at # "saved" /\ exec'.at \notin {"register", "saved"}
        BY <2>1 DEF Started, Failed, Thrown, StorageFull, At, GoTo, Idle
      <4> QED BY <2>1, <4>1 DEF Started, Failed, Thrown, StorageFull, saved, pending, counters
    <3> QED BY <1>0, <3>1, FilesStand
  <2>2. CASE Fetched(j)
    <3>1. At("fetch", j) /\ exec'.at = "write"
      BY <2>2, ExecFacts DEF Fetched, GoTo, Execution
    <3>2. PICK c : file' = [file EXCEPT ![PathOf[j]] = c]
      BY <2>2 DEF Fetched
    <3>3. UNCHANGED <<tables, cleaning, cancels>>
      BY <2>2 DEF Fetched, pending, counters
    <3> QED BY <1>0, <3>1, <3>2, <3>3, FilesChange
  <2>3. CASE Written(j)
    <3>1. At("write", j) /\ exec'.at = "register" /\ exec'.job = j
      BY <2>3, NextStep DEF Written, Steps
    <3>2. UNCHANGED <<tables, cleaning, cancels>>
          /\ file' = [file EXCEPT ![PathOf[j]] = j]
      BY <2>3 DEF Written, pending, counters
    <3> QED BY <1>0, <3>1, <3>2, FilesChange
  <2>4. CASE TableSaved(j)
    <3> SUFFICES ASSUME Calm' PROVE FilesStay'
      BY DEF FilesStay
    <3>1. /\ exec.at = "register" /\ exec.job = j /\ exec'.at = "saved" /\ exec'.job = j
          /\ tables' = [tables EXCEPT ![NameOf[j]] = j] /\ file' = file /\ disk' = disk
          /\ status' = status
          /\ UNCHANGED <<cleaning, cancels>>
      BY <2>4, ExecFacts DEF TableSaved, GoTo, Execution, At, pending, counters
    <3>2. Calm /\ Wrote(j)
      BY <3>1 DEF Calm, FilesStay
    <3>3. tables \in [Names -> Jobs \cup {None}] /\ NameOf[j] \in Names
      BY <1>0, ImportAssumption DEF Rest
    <3>4. \A n \in Names : tables'[n] # None =>
            /\ Wrote(tables'[n])
            /\ Past(tables'[n]) \/ (exec'.job = tables'[n] /\ exec'.at = "saved")
      <4> SUFFICES ASSUME NEW n \in Names, tables'[n] # None
                   PROVE  /\ Wrote(tables'[n])
                          /\ Past(tables'[n])
                             \/ (exec'.job = tables'[n] /\ exec'.at = "saved")
        OBVIOUS
      <4>1. CASE n = NameOf[j]
        BY <3>1, <3>2, <3>3, <4>1
      <4>2. CASE n # NameOf[j]
        <5>1. tables'[n] = tables[n]
          BY <3>1, <3>3, <4>2
        <5> QED BY <3>1, <3>2, <5>1 DEF FilesStay
      <4> QED BY <4>1, <4>2
    <3> QED BY <3>1, <3>2, <3>4 DEF FilesStay, Wrote, Past
  <2>5. CASE Registered(j)
    <3>1. /\ exec.job = j /\ exec'.at = "complete" /\ disk'[j] = "completed"
          /\ cleaning' = cleaning /\ UNCHANGED <<tables, file, cancels>>
      BY <2>5, RegisteredJob DEF Registered, pending, counters
    <3> QED BY <1>0, <3>1, FilesStand
  <2>6. CASE Completed(j)
    <3>1. exec.at = "complete" /\ exec'.at \in {"idle", "save"}
          /\ cleaning' = cleaning /\ UNCHANGED <<tables, file, cancels>>
      BY <2>6, StartsAt DEF Completed, At, pending, counters
    <3> QED BY <1>0, <3>1, FilesStand
  <2>7. CASE NameTaken(j) \/ WriteFails(j)
    <3>1. exec.at \in {"register", "write"}
          /\ cleaning' = cleaning /\ UNCHANGED <<tables, file, cancels>>
      BY <2>7 DEF NameTaken, WriteFails, At, pending, counters
    <3>2. GiveUp(j) \/ Fail(j)
      BY <2>7 DEF NameTaken, WriteFails
    <3>3. exec'.at \in {"idle", "save", "failed"}
      BY <2>7, <3>2, StartsAt DEF GiveUp, Fail, GoTo, At, NameTaken, WriteFails
    <3> QED BY <1>0, <3>1, <3>3, FilesStand
  <2>8. CASE FailCleans(j)
    <3>1. At("clean", j) /\ exec'.at \in {"idle", "save"}
      BY <2>8, StartsAt DEF FailCleans
    <3>2. UNCHANGED <<tables, cleaning, cancels>>
          /\ file' = [file EXCEPT ![PathOf[j]] = None]
      BY <2>8 DEF FailCleans, pending, counters
    <3> QED BY <1>0, <3>1, <3>2, FilesChange
  <2> QED
    BY <1>5, <2>1, <2>2, <2>3, <2>4, <2>5, <2>6, <2>7, <2>8 DEF Import, Faulty
<1>6. CASE UNCHANGED vars
  BY <1>0, <1>6, FilesStand DEF vars, saved, pending, counters
<1> QED BY <1>1, <1>2, <1>3, <1>4, <1>5, <1>6 DEF Next

\* The state has its type, and a table in the catalogue has its own data in its
\* file: no import or cleanup of another job touches it, while every job has a path
\* of its own and no job was cancelled, however often the page is closed.
THEOREM TablesHaveFiles == Spec => []CatalogueOK
<1>1. Init => FilesStay
  BY DEF Init, FilesStay, Idle, NoCleaning, None
<1>2. FilesStay => TableHasFile
  BY DEF FilesStay, TableHasFile, Calm, Wrote
<1>3. IInv => TypeOK
  BY IInvTypes
<1>4. Spec => []FilesStay
  BY <1>1, Invariance, FilesKept, PTL DEF Spec
<1> QED BY <1>2, <1>3, <1>4, Invariance, PTL DEF CatalogueOK

-----------------------------------------------------------------------------
(* The explorer of a server. *)

Fields == {"id", "since", "step", "todo", "tables", "objects", "read", "whole"}
Columns == {"databases", "isLoading", "error", "by", "since", "whole"}

\* The databases the hook shows, and what of a refresh that nothing has gone wrong
\* with has been read in each of its steps.
Databases == DOMAIN catalogue \cap Catalog!Scope
Described(os) == [o \in os |-> Catalog!Known]
ReadRight(r, d) == r.read[d] = Described(catalogue[d])

Progress(r) ==
  /\ r.read = [d \in DOMAIN r.read |-> r.read[d]]
  /\ r.step \in {"list", "tables", "views", "details"}
  /\ r.step = "list" => hook = "server" /\ r.read = << >>
  /\ r.step = "tables" => /\ DOMAIN r.read \cup r.todo = Databases
                          /\ \A d \in DOMAIN r.read : ReadRight(r, d)
  /\ r.step = "views" =>
       \E d \in Databases :
         /\ r.tables = {<<d, catalogue[d] \ Views>>}
         /\ DOMAIN r.read \cup r.todo \cup {d} = Databases
         /\ \A e \in DOMAIN r.read : ReadRight(r, e)
  /\ r.step = "details" =>
       /\ DOMAIN r.read \cup r.todo = Databases
       /\ r.objects \in SUBSET {<<d, o>> : d \in DOMAIN r.read, o \in UNION {catalogue[e] : e \in DOMAIN catalogue}}
       /\ \A x \in r.objects : x[2] \in catalogue[x[1]]
       /\ \A d \in DOMAIN r.read :
            r.read[d] = Described({o \in catalogue[d] : <<d, o>> \notin r.objects})

\* Every change has been or will be noticed; then the last refresh has seen all of them.
Heard == (events = 0 \/ ~listener) /\ ~missed

Begun(id, since) ==
  /\ id \in Nat /\ since \in Nat /\ id <= begun /\ since <= changes
  /\ id = begun /\ begun > 0 /\ Heard => since = changes

RefreshFine(r) ==
  /\ DOMAIN r = Fields
  /\ Begun(r.id, r.since) /\ r.id > 0
  /\ r.since = changes /\ r.whole => Progress(r)

ShownFine ==
  /\ DOMAIN shown = Columns
  /\ Begun(shown.by, shown.since)
  /\ shown.by > 0 /\ shown.whole /\ shown.since = changes => shown.databases = Catalog!Told

CatInv ==
  /\ hook \in {"local", "server"} /\ httpMode \in BOOLEAN /\ listener \in BOOLEAN /\ missed \in BOOLEAN
  /\ events \in Nat /\ changes \in Nat /\ begun \in Nat
  /\ Catalog!Memory \in DOMAIN catalogue
  /\ listener => phase = "ready" /\ hook = "server" /\ httpMode
  /\ \A r \in refreshes : RefreshFine(r)
  /\ ShownFine

LEMMA CatStart == Catalog!CatalogInit => CatInv
<1> SUFFICES ASSUME Catalog!CatalogInit PROVE CatInv
  OBVIOUS
<1>1. Catalog!Memory \in DOMAIN catalogue
  BY DEF Catalog!CatalogInit
<1>2. /\ hook \in {"local", "server"} /\ httpMode = FALSE /\ listener = FALSE /\ missed = FALSE
      /\ events = 0 /\ changes = 0 /\ begun = 0 /\ refreshes = {}
      /\ shown = [databases |-> << >>, isLoading |-> FALSE, error |-> FALSE,
                  by |-> 0, since |-> 0, whole |-> TRUE]
  BY DEF Catalog!CatalogInit
<1>3. DOMAIN shown = Columns /\ shown.by = 0 /\ shown.since = 0
  BY <1>2 DEF Columns
<1>4. ShownFine
  BY <1>2, <1>3 DEF ShownFine, Begun
<1> QED BY <1>1, <1>2, <1>4 DEF CatInv

Untouched == UNCHANGED <<hook, phase, httpMode, listener, catalogue, changes, events>>

\* A refresh goes on.
LEMMA StepKept ==
  ASSUME CatInv, Untouched, NEW r \in refreshes, NEW new, Catalog!Step(r, new),
         DOMAIN new = Fields, new.id = r.id, new.since = r.since,
         new.whole => r.whole /\ (r.since = changes /\ Progress(r) => Progress(new))
  PROVE  CatInv'
<1>1. /\ refreshes' = (refreshes \ {r}) \cup {new}
      /\ UNCHANGED <<begun, shown, missed>>
      /\ UNCHANGED <<hook, phase, httpMode, listener, catalogue, changes, events>>
  BY DEF Catalog!Step, Untouched
<1>2. RefreshFine(new)
  BY DEF CatInv, RefreshFine
<1>3. \A q : RefreshFine(q) => RefreshFine(q)'
  BY <1>1 DEF RefreshFine, Begun, Heard, Progress, Databases, Catalog!Scope, ReadRight
<1>4. ShownFine'
  BY <1>1 DEF CatInv, ShownFine, Begun, Heard, Catalog!Told, Catalog!Scope
<1> QED BY <1>1, <1>2, <1>3, <1>4 DEF CatInv

\* A refresh ends and is shown.
LEMMA ShowKept ==
  ASSUME CatInv, Untouched, NEW r \in refreshes, Catalog!Show(r),
         r.whole /\ r.since = changes => r.read = Catalog!Told
  PROVE  CatInv'
<1> DEFINE w == r.whole
           new == [databases |-> r.read, isLoading |-> FALSE, error |-> FALSE,
                   by |-> r.id, since |-> r.since, whole |-> w]
<1>1. /\ refreshes' = refreshes \ {r} /\ shown' = new
      /\ UNCHANGED <<begun, missed>>
      /\ UNCHANGED <<hook, phase, httpMode, listener, catalogue, changes, events>>
  BY DEF Catalog!Show, Untouched
<1>2. \A q : RefreshFine(q) => RefreshFine(q)'
  BY <1>1 DEF RefreshFine, Begun, Heard, Progress, Databases, Catalog!Scope, ReadRight
<1>3. w => r.whole
  OBVIOUS
<1> HIDE DEF w
<1>4. /\ DOMAIN new = Columns /\ new.by = r.id /\ new.since = r.since /\ new.whole = w
      /\ new.databases = r.read
  BY DEF Columns
<1> HIDE DEF new
<1>5. Begun(r.id, r.since) /\ Begun(r.id, r.since)'
  BY <1>1 DEF CatInv, RefreshFine, Begun, Heard
<1>6. Catalog!Told' = Catalog!Told
  BY <1>1 DEF Catalog!Told, Catalog!Scope
<1>7. ShownFine'
  BY <1>1, <1>3, <1>4, <1>5, <1>6 DEF ShownFine
<1> QED BY <1>1, <1>2, <1>7 DEF CatInv

\* A refresh fails.
LEMMA GiveUpKept ==
  ASSUME CatInv, Untouched, NEW r \in refreshes, Catalog!GiveUp(r)
  PROVE  CatInv'
<1>1. /\ refreshes' = refreshes \ {r}
      /\ shown' = [shown EXCEPT !.isLoading = FALSE, !.error = TRUE]
      /\ UNCHANGED <<begun, missed>>
      /\ UNCHANGED <<hook, phase, httpMode, listener, catalogue, changes, events>>
  BY DEF Catalog!GiveUp, Untouched
<1>2. \A q : RefreshFine(q) => RefreshFine(q)'
  BY <1>1 DEF RefreshFine, Begun, Heard, Progress, Databases, Catalog!Scope, ReadRight
<1>3. /\ DOMAIN shown' = Columns /\ shown'.by = shown.by /\ shown'.since = shown.since
      /\ shown'.whole = shown.whole /\ shown'.databases = shown.databases
  BY <1>1 DEF CatInv, ShownFine, Columns
<1>4. ShownFine'
  BY <1>1, <1>3 DEF CatInv, ShownFine, Begun, Heard, Catalog!Told, Catalog!Scope
<1> QED BY <1>1, <1>2, <1>4 DEF CatInv

-----------------------------------------------------------------------------
\* A refresh begins: it is the last, and whatever has changed it will see.
LEMMA FirstSent ==
  ASSUME CatInv, Catalog!SendFirst,
         UNCHANGED <<hook, phase, catalogue, changes>>, events' \in Nat,
         httpMode' \in BOOLEAN, listener' \in BOOLEAN,
         listener' => phase' = "ready" /\ hook' = "server" /\ httpMode'
  PROVE  CatInv'
<1> DEFINE st == IF hook = "local" THEN "tables" ELSE "list"
           td == IF hook = "local" THEN {Catalog!Memory} ELSE {}
<1>0. PICK b, new :
        /\ b = begun + 1
        /\ new = [id |-> b, since |-> changes, step |-> st, todo |-> td,
                  tables |-> {}, objects |-> {}, read |-> << >>, whole |-> TRUE]
  OBVIOUS
<1>1. /\ refreshes' = refreshes \cup {new} /\ begun' = b
      /\ shown' = [shown EXCEPT !.isLoading = TRUE, !.error = FALSE]
      /\ missed' = FALSE
  BY <1>0 DEF Catalog!SendFirst, Catalog!NewRefresh
<1>2. /\ begun \in Nat /\ b \in Nat /\ b > begun /\ b > 0 /\ changes \in Nat
  BY <1>0 DEF CatInv
<1>3. /\ DOMAIN new = Fields /\ new.id = b /\ new.since = changes /\ new.step = st
      /\ new.todo = td /\ new.read = << >>
  BY <1>0 DEF Fields
<1>4. DOMAIN << >> = {} /\ << >> = [d \in DOMAIN << >> |-> << >>[d]]
  OBVIOUS
<1>5. hook = "local" => td = Databases
  BY DEF Databases, Catalog!Scope, CatInv
<1>6. Progress(new)'
  <2>1. Databases' = Databases
    BY DEF Databases, Catalog!Scope
  <2>2. (hook = "local" /\ st = "tables") \/ (hook = "server" /\ st = "list")
    BY DEF CatInv
  <2> HIDE DEF st, td
  <2> QED BY <1>3, <1>4, <1>5, <2>1, <2>2 DEF Progress
<1>7. RefreshFine(new)'
  BY <1>1, <1>2, <1>3, <1>6 DEF RefreshFine, Begun, Heard
<1>8. \A q \in refreshes : RefreshFine(q)'
  <2> SUFFICES ASSUME NEW q \in refreshes PROVE RefreshFine(q)'
    OBVIOUS
  <2>1. RefreshFine(q)
    BY DEF CatInv
  <2>2. Progress(q) => Progress(q)'
    BY DEF Progress, Databases, Catalog!Scope, ReadRight
  <2> QED BY <1>1, <1>2, <2>1, <2>2 DEF RefreshFine, Begun
<1>9. /\ DOMAIN shown' = Columns /\ shown'.by = shown.by /\ shown'.since = shown.since
      /\ shown'.whole = shown.whole /\ shown'.databases = shown.databases
  BY <1>1 DEF CatInv, ShownFine, Columns
<1>10. ShownFine'
  BY <1>1, <1>2, <1>9 DEF CatInv, ShownFine, Begun, Catalog!Told, Catalog!Scope
<1> QED BY <1>1, <1>2, <1>7, <1>8, <1>10 DEF CatInv

\* Nothing is begun, and what is known of the events is not more than it was.
LEMMA NothingSent ==
  ASSUME CatInv, UNCHANGED <<hook, catalogue, changes, refreshes, begun, shown>>,
         events' \in Nat, httpMode' \in BOOLEAN, listener' \in BOOLEAN, missed' \in BOOLEAN,
         Heard' => Heard,
         listener' => phase' = "ready" /\ hook' = "server" /\ httpMode'
  PROVE  CatInv'
<1>1. \A q : RefreshFine(q) => RefreshFine(q)'
  BY DEF RefreshFine, Begun, Progress, Databases, Catalog!Scope, ReadRight
<1>2. ShownFine'
  BY DEF CatInv, ShownFine, Begun, Catalog!Told, Catalog!Scope
<1> QED BY <1>1, <1>2 DEF CatInv

\* The catalogue changes.
LEMMA ChangeKept ==
  ASSUME CatInv, NEW new \in Catalog!NewCatalogues, Catalog!Change(new)
  PROVE  CatInv'
<1>1. Catalog!Memory \in DOMAIN new
  <2>1. Catalog!Memory \in DOMAIN catalogue /\ Catalog!Memory \notin Attached
    BY ServerAssumption DEF CatInv, Catalog!Memory
  <2>2. \A d, x : Catalog!Memory \in DOMAIN Catalog!With(catalogue, d, x)
    BY <2>1 DEF Catalog!With
  <2>3. \A d \in Attached : Catalog!Memory \in DOMAIN Catalog!Without(catalogue, d)
    BY <2>1 DEF Catalog!Without
  <2> QED BY <2>2, <2>3 DEF Catalog!NewCatalogues
<1>2. /\ catalogue' = new /\ changes' = changes + 1 /\ events' = events + 1
      /\ missed' = (missed \/ ~listener)
      /\ UNCHANGED <<hook, phase, httpMode, timer, listener, refreshes, begun, shown>>
  BY DEF Catalog!Change, Catalog!Setting
<1>3. changes' \in Nat /\ changes' > changes /\ changes \in Nat /\ events' \in Nat /\ events' # 0
  BY <1>2 DEF CatInv
<1>4. ~Heard' /\ missed' \in BOOLEAN
  <2>1. CASE listener
    BY <1>2, <1>3, <2>1 DEF Heard, CatInv
  <2>2. CASE ~listener
    BY <1>2, <2>2 DEF Heard, CatInv
  <2> QED BY <2>1, <2>2
<1>5. \A q \in refreshes : RefreshFine(q)'
  BY <1>2, <1>3, <1>4 DEF CatInv, RefreshFine, Begun
<1>6. ShownFine'
  BY <1>2, <1>3, <1>4 DEF CatInv, ShownFine, Begun
<1> QED BY <1>1, <1>2, <1>3, <1>4, <1>5, <1>6 DEF CatInv

-----------------------------------------------------------------------------
(* The requests of a refresh. *)

\* When nothing is left to describe, the next database is asked for, or all are shown.
LEMMA NextKept ==
  ASSUME CatInv, Untouched, NEW r \in refreshes, NEW todo, Catalog!NextDatabase(r, todo),
         r.whole /\ r.since = changes =>
           /\ r.read = [d \in DOMAIN r.read |-> r.read[d]]
           /\ DOMAIN r.read \cup todo = Databases
           /\ \A d \in DOMAIN r.read : ReadRight(r, d)
  PROVE  CatInv'
<1>1. CASE todo = {}
  <2>1. r.whole /\ r.since = changes => r.read = Catalog!Told
    BY <1>1 DEF Catalog!Told, Databases, ReadRight, Described
  <2> QED BY <1>1, <2>1, ShowKept DEF Catalog!NextDatabase
<1>2. CASE todo # {}
  <2> DEFINE new == [r EXCEPT !.step = "tables", !.todo = todo]
  <2>1. DOMAIN r = Fields
    BY DEF CatInv, RefreshFine
  <2>2. /\ DOMAIN new = Fields /\ new.id = r.id /\ new.since = r.since /\ new.whole = r.whole
        /\ new.step = "tables" /\ new.todo = todo /\ new.read = r.read
    BY <2>1 DEF Fields
  <2>3. Catalog!Step(r, new)
    BY <1>2 DEF Catalog!NextDatabase
  <2> HIDE DEF new
  <2>4. new.whole => r.whole /\ (r.since = changes /\ Progress(r) => Progress(new))
    BY <2>2 DEF Progress, ReadRight
  <2> QED BY <2>2, <2>3, <2>4, StepKept
<1> QED BY <1>1, <1>2

LEMMA ListKept ==
  ASSUME CatInv, Untouched, NEW r \in refreshes, Catalog!ListAnswered(r)
  PROVE  CatInv'
<1> DEFINE todo == DOMAIN catalogue \cap Attached
<1>1. r.step = "list" /\ Catalog!NextDatabase(r, todo)
  BY DEF Catalog!ListAnswered
<1>2. ASSUME r.whole, r.since = changes
      PROVE  /\ r.read = [d \in DOMAIN r.read |-> r.read[d]]
             /\ DOMAIN r.read \cup todo = Databases
             /\ \A d \in DOMAIN r.read : ReadRight(r, d)
  <2>1. Progress(r)
    BY <1>2 DEF CatInv, RefreshFine
  <2>2. hook = "server" /\ r.read = << >> /\ r.read = [d \in DOMAIN r.read |-> r.read[d]]
    BY <1>1, <2>1 DEF Progress
  <2>3. DOMAIN r.read = {}
    BY <2>2
  <2>4. todo = Databases
    BY <2>2 DEF Databases, Catalog!Scope
  <2> QED BY <2>2, <2>3, <2>4
<1> HIDE DEF todo
<1> QED BY <1>1, <1>2, NextKept

LEMMA DoneKept ==
  ASSUME CatInv, Untouched, NEW r \in refreshes, Catalog!DatabaseDone(r)
  PROVE  CatInv'
<1>1. r.step = "details" /\ r.objects = {} /\ Catalog!NextDatabase(r, r.todo)
  BY DEF Catalog!DatabaseDone
<1>2. ASSUME r.whole, r.since = changes
      PROVE  /\ r.read = [d \in DOMAIN r.read |-> r.read[d]]
             /\ DOMAIN r.read \cup r.todo = Databases
             /\ \A d \in DOMAIN r.read : ReadRight(r, d)
  <2>1. Progress(r)
    BY <1>2 DEF CatInv, RefreshFine
  <2>2. \A d \in DOMAIN r.read : {o \in catalogue[d] : <<d, o>> \notin r.objects} = catalogue[d]
    BY <1>1
  <2>3. \A d \in DOMAIN r.read :
          r.read[d] = Described({o \in catalogue[d] : <<d, o>> \notin r.objects})
    BY <1>1, <2>1 DEF Progress
  <2> QED BY <1>1, <2>1, <2>2, <2>3 DEF Progress, ReadRight
<1> QED BY <1>1, <1>2, NextKept

LEMMA TablesKept ==
  ASSUME CatInv, Untouched, NEW r \in refreshes, NEW d, Catalog!TablesAnswered(r, d)
  PROVE  CatInv'
<1> DEFINE ts == {<<d, Catalog!ObjectsOf(d) \ Views>>}
           td == r.todo \ {d}
           new == [r EXCEPT !.step = "views", !.todo = td, !.tables = ts]
<1>1. r.step = "tables" /\ d \in r.todo /\ Catalog!Step(r, new) /\ DOMAIN r = Fields
  BY DEF Catalog!TablesAnswered, CatInv, RefreshFine
<1>2. /\ DOMAIN new = Fields /\ new.id = r.id /\ new.since = r.since /\ new.whole = r.whole
      /\ new.step = "views" /\ new.todo = td /\ new.read = r.read /\ new.tables = ts
  BY <1>1 DEF Fields
<1> HIDE DEF new
<1>3. ASSUME Progress(r) PROVE Progress(new)
  <2>1. /\ DOMAIN r.read \cup r.todo = Databases /\ r.read = [e \in DOMAIN r.read |-> r.read[e]]
        /\ \A e \in DOMAIN r.read : ReadRight(r, e)
    BY <1>1, <1>3 DEF Progress
  <2>2. d \in Databases
    BY <1>1, <2>1
  <2>3. ts = {<<d, catalogue[d] \ Views>>}
    BY <2>2 DEF Databases, Catalog!ObjectsOf
  <2>4. DOMAIN r.read \cup td \cup {d} = Databases
    BY <1>1, <2>1
  <2> HIDE DEF ts, td
  <2>5. \A e \in DOMAIN new.read : ReadRight(new, e)
    BY <1>2, <2>1 DEF ReadRight
  <2> QED BY <1>2, <2>1, <2>2, <2>3, <2>4, <2>5 DEF Progress
<1> QED BY <1>1, <1>2, <1>3, StepKept

LEMMA ViewsKept ==
  ASSUME CatInv, Untouched, NEW r \in refreshes, Catalog!ViewsAnswered(r)
  PROVE  CatInv'
<1> PICK t \in r.tables :
      Catalog!Step(r, [r EXCEPT !.step = "details",
        !.objects = {<<t[1], o>> : o \in t[2] \cup (Catalog!ObjectsOf(t[1]) \cap Views)},
        !.read = Catalog!With(@, t[1], << >>)])
  BY DEF Catalog!ViewsAnswered
<1> DEFINE d == t[1]
           os == {<<d, o>> : o \in t[2] \cup (Catalog!ObjectsOf(d) \cap Views)}
           rd == Catalog!With(r.read, d, << >>)
           new == [r EXCEPT !.step = "details", !.objects = os, !.read = rd]
<1>1. r.step = "views" /\ DOMAIN r = Fields
  BY DEF Catalog!ViewsAnswered, CatInv, RefreshFine
<1>2. Catalog!Step(r, new)
  BY <1>1
<1>3. /\ DOMAIN new = Fields /\ new.id = r.id /\ new.since = r.since /\ new.whole = r.whole
      /\ new.step = "details" /\ new.todo = r.todo /\ new.read = rd /\ new.objects = os
  BY <1>1 DEF Fields
<1> HIDE DEF new
<1>4. ASSUME Progress(r) PROVE Progress(new)
  <2>1. PICK e \in Databases :
          /\ r.tables = {<<e, catalogue[e] \ Views>>}
          /\ DOMAIN r.read \cup r.todo \cup {e} = Databases
          /\ \A x \in DOMAIN r.read : ReadRight(r, x)
    BY <1>1, <1>4 DEF Progress
  <2>2. d = e /\ t[2] = catalogue[d] \ Views
    BY <2>1
  <2>3. d \in DOMAIN catalogue
    BY <2>1, <2>2 DEF Databases
  <2> HIDE DEF d
  <2>4. t[2] \cup (Catalog!ObjectsOf(d) \cap Views) = catalogue[d]
    BY <2>2, <2>3 DEF Catalog!ObjectsOf
  <2>5. os = {<<d, o>> : o \in catalogue[d]}
    BY <2>4
  <2>6. /\ DOMAIN rd = DOMAIN r.read \cup {d} /\ rd = [x \in DOMAIN rd |-> rd[x]]
        /\ rd[d] = << >> /\ \A x \in DOMAIN r.read : x # d => rd[x] = r.read[x]
    BY DEF Catalog!With
  <2> HIDE DEF rd, os
  <2>7. \A x \in DOMAIN rd :
          rd[x] = Described({o \in catalogue[x] : <<x, o>> \notin os})
    <3> SUFFICES ASSUME NEW x \in DOMAIN rd
                 PROVE  rd[x] = Described({o \in catalogue[x] : <<x, o>> \notin os})
      OBVIOUS
    <3>1. CASE x = d
      <4>1. {o \in catalogue[x] : <<x, o>> \notin os} = {}
        BY <2>5, <3>1
      <4> QED BY <2>6, <3>1, <4>1 DEF Described
    <3>2. CASE x # d
      <4>1. {o \in catalogue[x] : <<x, o>> \notin os} = catalogue[x]
        BY <2>5, <3>2
      <4> QED BY <2>1, <2>6, <3>2, <4>1 DEF ReadRight
    <3> QED BY <3>1, <3>2
  <2>8. os \in SUBSET {<<x, o>> : x \in DOMAIN rd, o \in UNION {catalogue[y] : y \in DOMAIN catalogue}}
    <3>1. \A o \in catalogue[d] : o \in UNION {catalogue[y] : y \in DOMAIN catalogue}
      BY <2>3
    <3> QED BY <2>5, <2>6, <3>1
  <2>9. \A x \in os : x[2] \in catalogue[x[1]]
    BY <2>5
  <2>10. DOMAIN rd \cup r.todo = Databases
    BY <2>1, <2>2, <2>6
  <2> QED BY <1>3, <2>6, <2>7, <2>8, <2>9, <2>10 DEF Progress
<1> QED BY <1>2, <1>3, <1>4, StepKept

LEMMA DescribedKept ==
  ASSUME CatInv, Untouched, NEW r \in refreshes, NEW got, Catalog!Described(r, got)
  PROVE  CatInv'
<1> DEFINE x == CHOOSE y \in r.objects : TRUE
           there == x[2] \in Catalog!ObjectsOf(x[1])
<1>1. r.step = "details" /\ x \in r.objects /\ DOMAIN r = Fields
  BY DEF Catalog!Described, CatInv, RefreshFine
<1>2. CASE Catalog!GiveUp(r)
  BY <1>2, GiveUpKept
<1>3. CASE ~Catalog!GiveUp(r)
  <2> DEFINE what == IF there THEN got ELSE {}
             w == r.whole /\ got = Catalog!Known
             os == r.objects \ {x}
             rd == [r.read EXCEPT ![x[1]] = Catalog!With(@, x[2], what)]
             new == [r EXCEPT !.objects = os, !.read = rd, !.whole = w]
  <2>1. Catalog!Step(r, [r EXCEPT !.objects = @ \ {x},
               !.read[x[1]] = Catalog!With(@, x[2], what),
               !.whole = @ /\ got = Catalog!Known])
    BY <1>3 DEF Catalog!Described
  <2>2. Catalog!Step(r, new)
    BY <1>1, <2>1 DEF Fields
  <2>3. w => r.whole /\ got = Catalog!Known
    OBVIOUS
  <2> HIDE DEF w
  <2>4. /\ DOMAIN new = Fields /\ new.id = r.id /\ new.since = r.since /\ new.whole = w
        /\ new.step = r.step /\ new.todo = r.todo /\ new.read = rd /\ new.objects = os
    BY <1>1 DEF Fields
  <2> HIDE DEF new, x
  <2>5. ASSUME Progress(r), w PROVE Progress(new)
    <3>1. /\ r.read = [d \in DOMAIN r.read |-> r.read[d]]
          /\ DOMAIN r.read \cup r.todo = Databases
          /\ r.objects \in SUBSET {<<d, o>> : d \in DOMAIN r.read, o \in UNION {catalogue[e] : e \in DOMAIN catalogue}}
          /\ \A y \in r.objects : y[2] \in catalogue[y[1]]
          /\ \A d \in DOMAIN r.read :
               r.read[d] = Described({o \in catalogue[d] : <<d, o>> \notin r.objects})
      BY <1>1, <2>5 DEF Progress
    <3>2. x = <<x[1], x[2]>> /\ x[1] \in DOMAIN r.read /\ x[2] \in catalogue[x[1]]
      BY <1>1, <3>1
    <3>3. there
      BY <3>1, <3>2 DEF Databases, Catalog!ObjectsOf
    <3>4. what = Catalog!Known
      BY <2>3, <2>5, <3>3
    <3> HIDE DEF there, what
    <3>5. /\ DOMAIN rd = DOMAIN r.read /\ rd = [d \in DOMAIN rd |-> rd[d]]
          /\ rd[x[1]] = Catalog!With(r.read[x[1]], x[2], what)
          /\ \A d \in DOMAIN r.read : d # x[1] => rd[d] = r.read[d]
      BY <3>1, <3>2
    <3> HIDE DEF rd
    <3>6. ASSUME NEW d \in DOMAIN rd
          PROVE  rd[d] = Described({o \in catalogue[d] : <<d, o>> \notin os})
      <4> DEFINE old == {o \in catalogue[d] : <<d, o>> \notin r.objects}
                 now == {o \in catalogue[d] : <<d, o>> \notin os}
      <4>1. CASE d = x[1]
        <5>1. now = old \cup {x[2]}
          BY <3>2, <4>1
        <5>2. r.read[d] = Described(old)
          BY <3>1, <3>5
        <5> HIDE DEF old, now
        <5>3. Catalog!With(Described(old), x[2], Catalog!Known) = Described(now)
          BY <5>1 DEF Catalog!With, Described
        <5> QED BY <3>4, <3>5, <4>1, <5>2, <5>3 DEF now
      <4>2. CASE d # x[1]
        <5>1. now = old
          BY <3>2, <4>2
        <5>2. r.read[d] = Described(old) /\ rd[d] = r.read[d]
          BY <3>1, <3>5, <4>2
        <5> QED BY <5>1, <5>2
      <4> QED BY <4>1, <4>2
    <3>7. os \in SUBSET {<<d, o>> : d \in DOMAIN rd, o \in UNION {catalogue[e] : e \in DOMAIN catalogue}}
      BY <3>1, <3>5
    <3>8. \A y \in os : y[2] \in catalogue[y[1]]
      BY <3>1
    <3> HIDE DEF os
    <3> QED BY <1>1, <2>4, <3>1, <3>5, <3>6, <3>7, <3>8 DEF Progress
  <2>6. new.whole => r.whole /\ (r.since = changes /\ Progress(r) => Progress(new))
    BY <2>3, <2>4, <2>5
  <2> QED BY <2>2, <2>4, <2>6, StepKept
<1> QED BY <1>2, <1>3

LEMMA FailKept ==
  ASSUME CatInv, Untouched, NEW r \in refreshes, Catalog!RequestFails(r)
  PROVE  CatInv'
<1>1. CASE Catalog!GiveUp(r)
  BY <1>1, GiveUpKept
<1>2. CASE ~Catalog!GiveUp(r)
  <2> PICK d : Catalog!Step(r, [r EXCEPT !.step = "details", !.todo = @ \ {d},
                                   !.read = Catalog!With(@, d, << >>), !.whole = FALSE])
    BY <1>2 DEF Catalog!RequestFails
  <2> DEFINE new == [r EXCEPT !.step = "details", !.todo = @ \ {d},
                        !.read = Catalog!With(@, d, << >>), !.whole = FALSE]
  <2>1. DOMAIN r = Fields
    BY DEF CatInv, RefreshFine
  <2>2. DOMAIN new = Fields /\ new.id = r.id /\ new.since = r.since /\ ~new.whole
    BY <2>1 DEF Fields
  <2>3. Catalog!Step(r, new)
    OBVIOUS
  <2> HIDE DEF new
  <2> QED BY <2>2, <2>3, StepKept
<1> QED BY <1>1, <1>2

LEMMA RequestKept ==
  ASSUME CatInv, NEW r \in refreshes, Catalog!Request(r)
  PROVE  CatInv'
<1>1. Untouched
  BY DEF Catalog!Request, Catalog!Setting, Catalog!Server, Untouched
<1> QED
  BY <1>1, ListKept, TablesKept, ViewsKept, DescribedKept, DoneKept, FailKept DEF Catalog!Request

\* What begins a refresh, or would.
LEMMA RefreshKept ==
  ASSUME CatInv, Catalog!Refresh, UNCHANGED <<hook, phase, httpMode, listener, catalogue, changes>>,
         events' \in Nat, listener \/ events' = events
  PROVE  CatInv'
<1>1. /\ httpMode' \in BOOLEAN /\ listener' \in BOOLEAN
      /\ listener' => phase' = "ready" /\ hook' = "server" /\ httpMode'
  BY DEF CatInv
<1>2. CASE Catalog!SendFirst
  BY <1>1, <1>2, FirstSent
<1>3. CASE ~Catalog!SendFirst
  <2>1. UNCHANGED <<refreshes, begun, shown, missed>>
        /\ ~(phase = "ready" /\ (hook = "server" => httpMode))
    BY <1>3 DEF Catalog!Refresh, Catalog!View
  <2>2. ~listener
    BY <2>1 DEF CatInv
  <2>3. Heard' => Heard
    BY <2>1, <2>2 DEF Heard
  <2>4. missed' \in BOOLEAN
    BY <2>1 DEF CatInv
  <2> QED BY <1>1, <2>1, <2>3, <2>4, NothingSent
<1> QED BY <1>2, <1>3

LEMMA CatKept == CatInv /\ [Catalog!CatalogNext]_catalogVars => CatInv'
<1> SUFFICES ASSUME CatInv, [Catalog!CatalogNext]_catalogVars PROVE CatInv'
  OBVIOUS
<1> USE DEF Catalog!Setting, Catalog!Server, Catalog!View
<1>0. /\ httpMode \in BOOLEAN /\ listener \in BOOLEAN /\ missed \in BOOLEAN /\ events \in Nat
      /\ listener => phase = "ready" /\ hook = "server" /\ httpMode
  BY DEF CatInv
<1>1. CASE Catalog!DetectMode
  <2>1. UNCHANGED <<hook, catalogue, changes, refreshes, begun, shown, events, httpMode, listener, missed>>
        /\ phase = "starting"
    BY <1>1 DEF Catalog!DetectMode
  <2> QED BY <1>0, <2>1, NothingSent DEF Heard
<1>2. CASE Catalog!Connect
  <2>1. UNCHANGED <<hook, catalogue, changes, refreshes, begun, shown, events, httpMode, listener, missed>>
        /\ phase = "detected"
    BY <1>2 DEF Catalog!Connect
  <2> QED BY <1>0, <2>1, NothingSent DEF Heard
<1>3. CASE Catalog!Render
  <2>1. UNCHANGED <<hook, phase, catalogue, changes, refreshes, begun, shown, events, missed>>
        /\ httpMode' = TRUE /\ listener' = (hook = "server" /\ phase = "ready")
    BY <1>3 DEF Catalog!Render
  <2>2. ~listener
    BY <1>0, <1>3 DEF Catalog!Render
  <2>3. Heard' => Heard
    BY <2>1, <2>2 DEF Heard
  <2>4. /\ missed' \in BOOLEAN /\ httpMode' \in BOOLEAN /\ listener' \in BOOLEAN /\ events' \in Nat
        /\ listener' => phase' = "ready" /\ hook' = "server" /\ httpMode'
    BY <1>0, <2>1
  <2> QED BY <2>1, <2>3, <2>4, NothingSent
<1>4. CASE Catalog!AttemptRefresh
  BY <1>0, <1>4, RefreshKept DEF Catalog!AttemptRefresh
<1>5. CASE Catalog!PressRefresh
  BY <1>0, <1>5, RefreshKept DEF Catalog!PressRefresh
<1>6. CASE Catalog!RunStatement
  BY <1>6, ChangeKept DEF Catalog!RunStatement
<1>7. CASE Catalog!StatementReturns
  BY <1>0, <1>7, RefreshKept DEF Catalog!StatementReturns
<1>8. CASE Catalog!OtherClient
  BY <1>8, ChangeKept DEF Catalog!OtherClient
<1>9. CASE Catalog!EventComes
  <2>1. /\ UNCHANGED <<hook, phase, httpMode, listener, catalogue, changes>>
        /\ events > 0 /\ events' = events - 1 /\ events' \in Nat
    BY <1>0, <1>9 DEF Catalog!EventComes
  <2>2. CASE listener
    BY <1>9, <2>1, <2>2, RefreshKept DEF Catalog!EventComes
  <2>3. CASE ~listener
    <3>1. UNCHANGED <<refreshes, begun, shown, missed>>
      BY <1>9, <2>3 DEF Catalog!EventComes
    <3>2. Heard' => Heard
      BY <2>1, <2>3, <3>1 DEF Heard
    <3> QED BY <1>0, <2>1, <3>1, <3>2, NothingSent
  <2> QED BY <2>2, <2>3
<1>10. CASE Catalog!EventsLost
  <2>1. UNCHANGED <<hook, phase, httpMode, listener, catalogue, changes, refreshes, begun, shown>>
        /\ events' = 0 /\ missed' = TRUE
    BY <1>10 DEF Catalog!EventsLost
  <2>2. Heard' => Heard
    BY <2>1 DEF Heard
  <2> QED BY <1>0, <2>1, <2>2, NothingSent
<1>11. ASSUME NEW r \in refreshes, Catalog!Request(r) PROVE CatInv'
  BY <1>11, RequestKept
<1>12. CASE UNCHANGED catalogVars
  BY <1>0, <1>12, NothingSent DEF catalogVars, Heard
<1> QED BY <1>1, <1>2, <1>3, <1>4, <1>5, <1>6, <1>7, <1>8, <1>9, <1>10, <1>11, <1>12
        DEF Catalog!CatalogNext, catalogVars

LEMMA CatShown == CatInv => Catalog!CatalogueFollows
BY DEF CatInv, ShownFine, Begun, Heard, Catalog!CatalogueFollows

-----------------------------------------------------------------------------
(* The page of the settings. *)

Facts == Int
Datas == {<< >>} \cup [Info!Parts -> Facts]

InfoTypes ==
  /\ facts \in [Info!Parts -> Nat]
  /\ fetches \in SUBSET [id : Nat, read : Seq(Facts)]
  /\ page \in [isLoading : BOOLEAN, error : BOOLEAN, data : Datas, by : Nat]
  /\ count \in [fetches : Nat, actions : Nat]
  /\ actions \in SUBSET [id : Nat, part : Info!Parts, fetch : Nat]

\* What the fetch with the given number has read of a part, when it is the last.
UpToDate(n, p, v) == n = count.fetches => v \in {facts[p], Info!Empty}

InfoInv ==
  /\ InfoTypes
  /\ \A f \in fetches :
       /\ f.id <= count.fetches /\ Len(f.read) < Len(Info!Order)
       /\ \A k \in 1 .. Len(f.read) : UpToDate(f.id, Info!Order[k], f.read[k])
  /\ page.by <= count.fetches
  /\ \A p \in DOMAIN page.data : UpToDate(page.by, p, page.data[p])

LEMMA InfoParts ==
  /\ Len(Info!Order) = 4
  /\ \A k \in 1 .. 4 : Info!Order[k] \in Info!Parts
  /\ \A p \in Info!Parts : \E k \in 1 .. 4 : Info!Order[k] = p
BY DEF Info!Order, Info!Parts

LEMMA InfoStart == Info!InfoInit => InfoInv
BY DEF Info!InfoInit, InfoInv, InfoTypes, Datas, UpToDate

\* A fetch that begins is the last, and has read nothing.
LEMMA FetchBegins ==
  ASSUME InfoInv, Info!BeginFetch, count' \in [fetches : Nat, actions : Nat],
         count'.fetches = count.fetches + 1, facts' \in [Info!Parts -> Nat],
         actions' \in SUBSET [id : Nat, part : Info!Parts, fetch : Nat]
  PROVE  InfoInv'
<1> DEFINE c == count.fetches
           g == [id |-> c + 1, read |-> << >>]
<1>1. c \in Nat /\ count'.fetches = c + 1
  BY DEF InfoInv, InfoTypes
<1>2. fetches' = fetches \cup {g} /\ g.id = c + 1 /\ Len(g.read) = 0 /\ g \in [id : Nat, read : Seq(Facts)]
  BY <1>1 DEF Info!BeginFetch
<1>3. page' \in [isLoading : BOOLEAN, error : BOOLEAN, data : Datas, by : Nat]
      /\ page'.by = page.by /\ page'.data = page.data
  BY DEF InfoInv, InfoTypes, Info!BeginFetch
<1>4. \A f \in fetches : f.id \in Nat /\ f.id <= c /\ Len(f.read) < Len(Info!Order)
  BY DEF InfoInv, InfoTypes
<1>5. page.by <= c /\ page.by \in Nat
  BY DEF InfoInv, InfoTypes
<1>6. fetches' \in SUBSET [id : Nat, read : Seq(Facts)]
  BY <1>2 DEF InfoInv, InfoTypes
<1> HIDE DEF g, c
<1>7. \A f \in fetches' :
       /\ f.id <= count'.fetches /\ Len(f.read) < Len(Info!Order)
       /\ \A k \in 1 .. Len(f.read) : f.id # count'.fetches
  BY <1>1, <1>2, <1>4, InfoParts
<1>8. page'.by < count'.fetches
  BY <1>1, <1>3, <1>5
<1> QED BY <1>1, <1>3, <1>6, <1>7, <1>8 DEF InfoInv, InfoTypes, UpToDate

LEMMA PartRead ==
  ASSUME InfoInv, NEW f \in fetches, Info!PartAnswered(f)
  PROVE  InfoInv'
<1> DEFINE n == Len(f.read) + 1
           p == Info!Order[n]
<1>1. /\ n \in 1 .. 4 /\ p \in Info!Parts
      /\ f \in [id : Nat, read : Seq(Facts)] /\ facts[p] \in Nat
      /\ f.read \in Seq(Facts) /\ Len(f.read) \in Nat
  BY InfoParts DEF InfoInv, InfoTypes
<1>2. UNCHANGED <<facts, actions, busy, count>>
  BY DEF Info!PartAnswered
<1>3. ASSUME NEW v \in {facts[p], Info!Empty}, Info!Read(f, v)
      PROVE  InfoInv'
  <2> DEFINE r == Append(f.read, v)
  <2>1. v \in Facts
    BY <1>1, <1>3 DEF Facts, Info!Empty
  <2>2. /\ r \in Seq(Facts) /\ Len(r) = n /\ r[n] = v
        /\ \A k \in 1 .. Len(f.read) : r[k] = f.read[k]
    BY <1>1, <2>1
  <2>3. \A k \in 1 .. n : UpToDate(f.id, Info!Order[k], r[k])
    BY <1>1, <2>2, <1>3 DEF InfoInv, UpToDate
  <2> HIDE DEF r
  <2>4. CASE n < 4
    <3> DEFINE g == [f EXCEPT !.read = r]
    <3>1. g \in [id : Nat, read : Seq(Facts)] /\ g.id = f.id /\ g.read = r
      BY <1>1, <2>2
    <3>2. fetches' = (fetches \ {f}) \cup {g} /\ page' = page
      BY <1>3, <2>2, <2>4, InfoParts DEF Info!Read, r
    <3> HIDE DEF g, n, p
    <3>3. fetches' \in SUBSET [id : Nat, read : Seq(Facts)]
      BY <3>1, <3>2 DEF InfoInv, InfoTypes
    <3>4. InfoTypes'
      BY <1>2, <3>2, <3>3 DEF InfoTypes, InfoInv
    <3>5. g.id <= count.fetches /\ Len(g.read) < Len(Info!Order)
      BY <2>2, <2>4, <3>1, InfoParts DEF InfoInv
    <3>6. \A k \in 1 .. Len(g.read) : UpToDate(g.id, Info!Order[k], g.read[k])
      BY <2>2, <2>3, <3>1
    <3>7. \A h \in fetches' :
            /\ h.id <= count.fetches /\ Len(h.read) < Len(Info!Order)
            /\ \A k \in 1 .. Len(h.read) : UpToDate(h.id, Info!Order[k], h.read[k])
      BY <3>2, <3>5, <3>6 DEF InfoInv
    <3> QED BY <1>2, <3>2, <3>4, <3>7 DEF InfoInv, UpToDate
  <2>5. CASE n >= 4
    <3> DEFINE at(q) == CHOOSE k \in 1 .. Len(Info!Order) : Info!Order[k] = q
               d == [q \in Info!Parts |-> r[at(q)]]
    <3>1. n = 4
      BY <1>1, <2>5
    <3>2. \A q \in Info!Parts : at(q) \in 1 .. n /\ Info!Order[at(q)] = q
      BY <3>1, InfoParts
    <3>3. /\ fetches' = fetches \ {f}
          /\ page' = [isLoading |-> FALSE, error |-> FALSE, by |-> f.id, data |-> d]
      BY <1>3, <2>2, <3>1, InfoParts DEF Info!Read, Info!End, r
    <3>4. d \in [Info!Parts -> Facts]
      <4> HIDE DEF at
      <4>1. \A q \in Info!Parts : r[at(q)] \in Facts
        BY <2>2, <3>2
      <4> QED BY <4>1
    <3>5. \A q \in Info!Parts : UpToDate(f.id, q, d[q])
      <4> TAKE q \in Info!Parts
      <4>1. d[q] = r[at(q)]
        OBVIOUS
      <4> HIDE DEF d, at
      <4>2. at(q) \in 1 .. n /\ Info!Order[at(q)] = q
        BY <3>2
      <4> QED BY <2>3, <4>1, <4>2
    <3> HIDE DEF d
    <3> QED BY <1>1, <1>2, <3>3, <3>4, <3>5 DEF InfoInv, InfoTypes, UpToDate, Datas
  <2> QED BY <1>1, <2>4, <2>5
<1>4. CASE Info!End(f, [page EXCEPT !.isLoading = FALSE, !.error = TRUE])
  BY <1>2, <1>4 DEF Info!End, InfoInv, InfoTypes, UpToDate
<1> QED
  BY <1>3, <1>4 DEF Info!PartAnswered

LEMMA InfoKept == InfoInv /\ [Info!InfoNext]_infoVars => InfoInv'
<1> SUFFICES ASSUME InfoInv, [Info!InfoNext]_infoVars PROVE InfoInv'
  OBVIOUS
<1>0. count \in [fetches : Nat, actions : Nat] /\ facts \in [Info!Parts -> Nat]
  BY DEF InfoInv, InfoTypes
<1>1. CASE Info!OpenOrRefresh
  <2>1. count' \in [fetches : Nat, actions : Nat] /\ count'.fetches = count.fetches + 1
    BY <1>0, <1>1 DEF Info!OpenOrRefresh
  <2>2. actions' \in SUBSET [id : Nat, part : Info!Parts, fetch : Nat] /\ facts' \in [Info!Parts -> Nat]
    BY <1>0, <1>1 DEF Info!OpenOrRefresh, InfoInv, InfoTypes
  <2> QED BY <1>1, <2>1, <2>2, FetchBegins DEF Info!OpenOrRefresh
<1>2. ASSUME NEW p \in Info!Parts \ Info!Optional, Info!StartAction(p) PROVE InfoInv'
  BY <1>0, <1>2 DEF InfoInv, InfoTypes, UpToDate, Info!StartAction
<1>3. ASSUME NEW a \in actions, Info!ActionAnswered(a) PROVE InfoInv'
  <2>1. count' \in [fetches : Nat, actions : Nat] /\ count'.fetches = count.fetches + 1
    BY <1>0, <1>3 DEF Info!ActionAnswered
  <2>2. facts' \in [Info!Parts -> Nat]
    BY <1>0, <1>3 DEF Info!ActionAnswered, InfoInv, InfoTypes
  <2>3. actions' \in SUBSET [id : Nat, part : Info!Parts, fetch : Nat]
    <3> DEFINE m == count.fetches + 1
               b == [a EXCEPT !.fetch = m]
    <3>1. a \in [id : Nat, part : Info!Parts, fetch : Nat] /\ m \in Nat
      BY <1>0 DEF InfoInv, InfoTypes
    <3>2. b \in [id : Nat, part : Info!Parts, fetch : Nat]
      <4> HIDE DEF m
      <4> QED BY <3>1
    <3>3. actions' = (actions \ {a}) \cup {b}
      BY <1>3 DEF Info!ActionAnswered
    <3> QED BY <3>2, <3>3 DEF InfoInv, InfoTypes
  <2> QED BY <1>3, <2>1, <2>2, <2>3, FetchBegins DEF Info!ActionAnswered
<1>4. ASSUME NEW a \in actions, Info!ActionEnds(a) PROVE InfoInv'
  BY <1>4 DEF InfoInv, InfoTypes, UpToDate, Info!ActionEnds
<1>5. ASSUME NEW f \in fetches, Info!PartAnswered(f) PROVE InfoInv'
  BY <1>5, PartRead
<1>6. CASE UNCHANGED infoVars
  BY <1>6 DEF infoVars, InfoInv, InfoTypes, UpToDate
<1> QED BY <1>1, <1>2, <1>3, <1>4, <1>5, <1>6 DEF Info!InfoNext, infoVars, Info!infoVars

LEMMA InfoShown == InfoInv => Info!InfoFollows
BY DEF InfoInv, InfoTypes, UpToDate, Info!InfoFollows

-----------------------------------------------------------------------------
\* What the explorer and the page of the settings show of a server is what it would
\* say, once nothing is under way: for any number of databases, tables, clients,
\* refreshes, fetches and actions, lost events and failed requests.
THEOREM ServerIsShown == MCSpec => []ServerShown
<1>1. MCInit => CatInv /\ InfoInv
  BY CatStart, InfoStart DEF MCInit
<1>2. CatInv /\ InfoInv /\ [MCNext]_<<part, vars, catalogVars, infoVars>> => CatInv' /\ InfoInv'
  <2>1. [MCNext]_<<part, vars, catalogVars, infoVars>> =>
          [Catalog!CatalogNext]_catalogVars /\ [Info!InfoNext]_infoVars
    BY DEF MCNext
  <2> QED BY <2>1, CatKept, InfoKept
<1>3. CatInv /\ InfoInv => ServerShown
  BY CatShown, InfoShown DEF ServerShown
<1> QED BY <1>1, <1>2, <1>3, PTL DEF MCSpec
=============================================================================
