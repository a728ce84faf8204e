---------------------------- MODULE TabSync_proofs ----------------------------
(***************************************************************************)
(* Proofs about what the windows share: the tabs (TabSync), the data sources *)
(* (SourceSync) and the files of an upload (FileBatches), for any windows,   *)
(* any MAX_TABS, any stored sources, any selections of files and any number  *)
(* of acts; and about the three beside each other (MCTabSync).               *)
(*                                                                           *)
(* Why the ids of a window are distinct: a window that may add a tab (fewer   *)
(* than MAX_TABS) has a next id above all of its ids.  A merge keeps this:    *)
(* the tabs of the window come first in it, so one that exchanges a tab is of *)
(* another length or has MAX_TABS tabs, and then the ids are counted again or *)
(* no tab may be added.  No id and no stamp is ahead of the clock, so the ids *)
(* that createTabsWithQueries takes from it are new.                         *)
(*                                                                           *)
(* Why windows at rest agree: each shows what is stored, or has it as the     *)
(* last of its storage events (AllHeard).                                    *)
(*                                                                           *)
(* Why the lists of data sources do: as long as nobody changes a list beside  *)
(* a busy page, either all that is stored, shown or under way is what the     *)
(* users want (InStep), or one page shows it and has still to save it, while  *)
(* the others rest on what was stored before (Ahead).                        *)
(*                                                                           *)
(* Why no file is lost: a file of a selection is behind the one its upload is *)
(* at, or has been answered, and the engine is the one chosen last unless an  *)
(* upload has still to give it back (BatInv).                                *)
(***************************************************************************)
EXTENDS MCTabSync, SequenceTheorems, FiniteSetTheorems, WellFoundedInduction, TLAPS

-----------------------------------------------------------------------------
(* Least and greatest numbers, and ranks. *)

Lesser == {p \in Nat \X Nat : p[1] < p[2]}

LEMMA Least ==
  ASSUME NEW S, S # {}, S \subseteq Nat
  PROVE  \E x \in S : \A y \in S : x <= y
<1>1. IsWellFoundedOn(Lesser, Nat)
  BY NatLessThanWellFounded DEF OpToRel, Lesser
<1>2. PICK x \in S : \A y \in S : ~(<<y, x>> \in Lesser)
  BY <1>1, WFMin
<1>3. ASSUME NEW y \in S PROVE x <= y
  <2>1. x \in Nat /\ y \in Nat /\ <<y, x>> \in Nat \X Nat
    OBVIOUS
  <2>2. ~(<<y, x>>[1] < <<y, x>>[2])
    BY <1>2, <2>1 DEF Lesser
  <2> QED BY <2>1, <2>2
<1> QED BY <1>3

\* A bounded set of numbers has a greatest one.
LEMMA Greatest ==
  ASSUME NEW S, S # {}, S \subseteq Nat, NEW b \in Nat, \A x \in S : x <= b
  PROVE  Max(S) \in S /\ \A x \in S : x <= Max(S)
<1> DEFINE U == {c \in Nat : \A x \in S : x <= c}
<1>1. PICK m \in U : \A c \in U : m <= c
  <2>1. U # {} /\ U \subseteq Nat
    OBVIOUS
  <2> HIDE DEF U
  <2> QED BY <2>1, Least
<1>2. m \in S
  <2>1. CASE m = 0
    <3>1. PICK x \in S : TRUE
      OBVIOUS
    <3>2. x = 0
      BY <1>1, <2>1
    <3> QED BY <2>1, <3>2
  <2>2. CASE m # 0
    <3> SUFFICES ASSUME m \notin S PROVE FALSE
      OBVIOUS
    <3>1. m - 1 \in Nat /\ \A x \in S : x <= m - 1
      BY <1>1, <2>2
    <3> QED BY <1>1, <3>1
  <2> QED BY <2>1, <2>2
<1>3. \E x \in S : \A y \in S : x >= y
  BY <1>1, <1>2
<1>4. Max(S) \in S /\ \A y \in S : Max(S) >= y
  BY <1>3 DEF Max
<1> QED BY <1>4

LEMMA MinOfTwo ==
  ASSUME NEW a \in Nat, NEW b \in Nat
  PROVE  /\ Min({a, b}) \in Nat /\ Min({a, b}) <= a /\ Min({a, b}) <= b
         /\ Min({a, b}) = a \/ Min({a, b}) = b
<1>1. \E x \in {a, b} : \A y \in {a, b} : x <= y
  OBVIOUS
<1>2. Min({a, b}) \in {a, b} /\ \A y \in {a, b} : Min({a, b}) <= y
  BY <1>1 DEF Min
<1> QED BY <1>2

StrictOrder(R, D) ==
  /\ \A j \in D : <<j, j>> \notin R
  /\ \A i, j, k \in D : <<i, j>> \in R /\ <<j, k>> \in R => <<i, k>> \in R
  /\ \A j, k \in D : j = k \/ <<j, k>> \in R \/ <<k, j>> \in R

Numbers(rank, D) ==
  Cardinality(D) \in Nat /\ \A n \in 1 .. Cardinality(D) : \E k \in D : rank[k] = n

Ranks(rank, R, D) == rank = [k \in D |-> Cardinality({j \in D : <<j, k>> \in R}) + 1]

\* The elements of a finite set in a strict order have the ranks 1, 2, ..., each
\* once.
LEMMA Ranked ==
  ASSUME NEW D, IsFiniteSet(D), NEW R, StrictOrder(R, D), NEW rank, Ranks(rank, R, D)
  PROVE  Numbers(rank, D)
<1> DEFINE B(k) == {j \in D : <<j, k>> \in R}
<1>1. Cardinality(D) \in Nat
  BY FS_CardinalityType
<1>2. ASSUME NEW k \in D
      PROVE  /\ IsFiniteSet(B(k)) /\ Cardinality(B(k)) \in Nat
             /\ Cardinality(B(k)) < Cardinality(D)
  <2> DEFINE C == B(k)
  <2>1. C \in SUBSET D /\ C # D
    BY DEF StrictOrder
  <2> HIDE DEF C
  <2>2. IsFiniteSet(C) /\ Cardinality(C) <= Cardinality(D) /\ Cardinality(C) # Cardinality(D)
    BY <2>1, FS_Subset
  <2>3. Cardinality(C) \in Nat
    BY <2>2, FS_CardinalityType
  <2>4. IsFiniteSet(C) /\ Cardinality(C) \in Nat /\ Cardinality(C) < Cardinality(D)
    BY <1>1, <2>2, <2>3
  <2> QED BY <2>4 DEF C
<1>3. ASSUME NEW j \in D, NEW k \in D, <<j, k>> \in R
      PROVE  Cardinality(B(j)) # Cardinality(B(k))
  <2> DEFINE C == B(j)
             E == B(k)
  <2>1. C \in SUBSET E /\ C # E /\ IsFiniteSet(E)
    BY <1>2, <1>3 DEF StrictOrder
  <2> HIDE DEF C, E
  <2>2. Cardinality(C) # Cardinality(E)
    BY <2>1, FS_Subset
  <2> QED BY <2>2 DEF C, E
<1>4. \A k \in D : rank[k] = Cardinality(B(k)) + 1
  BY DEF Ranks
<1> HIDE DEF B
<1>5. \A j, k \in D : rank[j] = rank[k] => j = k
  <2> SUFFICES ASSUME NEW j \in D, NEW k \in D, rank[j] = rank[k], j # k PROVE FALSE
    OBVIOUS
  <2>1. Cardinality(B(j)) = Cardinality(B(k))
    BY <1>2, <1>4
  <2> QED BY <2>1, <1>3 DEF StrictOrder
<1>6. \A k \in D : rank[k] \in 1 .. Cardinality(D)
  BY <1>1, <1>2, <1>4
<1>7. rank \in Injection(D, 1 .. Cardinality(D))
  <2>1. DOMAIN rank = D /\ rank \in [D -> 1 .. Cardinality(D)]
    BY <1>6 DEF Ranks
  <2> QED BY <2>1, <1>5 DEF Injection, IsInjective
<1>8. /\ IsFiniteSet(1 .. Cardinality(D))
      /\ Cardinality(1 .. Cardinality(D)) = Cardinality(D)
  BY <1>1, FS_Interval
<1>9. rank \in Surjection(D, 1 .. Cardinality(D))
  BY <1>7, <1>8, FS_Injection
<1> QED BY <1>1, <1>9 DEF Surjection, Numbers

\* A list made of elements of f, none of them twice.
Picks(s, f, n) ==
  \E p \in [1 .. n -> DOMAIN f] :
    /\ \A j, k \in 1 .. n : p[j] = p[k] => j = k
    /\ s = [m \in 1 .. n |-> f[p[m]]]

LEMMA PlacedPicks ==
  ASSUME NEW f, NEW place, DOMAIN place \subseteq DOMAIN f, NEW n \in Nat,
         \A m \in 1 .. n : \E k \in DOMAIN place : place[k] = m
  PROVE  Picks(Placed(f, place, n), f, n)
<1> DEFINE p == [m \in 1 .. n |-> CHOOSE k \in DOMAIN place : place[k] = m]
<1>1. \A m \in 1 .. n : p[m] \in DOMAIN place /\ place[p[m]] = m
  OBVIOUS
<1>2. p \in [1 .. n -> DOMAIN f]
  BY <1>1
<1>3. \A j, k \in 1 .. n : p[j] = p[k] => j = k
  BY <1>1
<1>4. Placed(f, place, n) = [m \in 1 .. n |-> f[p[m]]]
  BY DEF Placed
<1> HIDE DEF p
<1> QED BY <1>2, <1>3, <1>4 DEF Picks

\* The elements of s at K, each once.
EachOnce(f, s, K) ==
  /\ Cardinality(K) \in Nat
  /\ \E p \in [1 .. Cardinality(K) -> K] :
       /\ f = [m \in 1 .. Cardinality(K) |-> s[p[m]]]
       /\ \A j, m \in 1 .. Cardinality(K) : p[j] = p[m] => j = m
       /\ \A k \in K : \E m \in 1 .. Cardinality(K) : p[m] = k

LEMMA FilteredAll ==
  ASSUME NEW s, NEW K, K \subseteq Nat, IsFiniteSet(K)
  PROVE  EachOnce(Filtered(s, K), s, K)
<1> DEFINE R == {p \in K \X K : p[1] < p[2]}
           rank == [k \in K |-> Cardinality({j \in K : j < k}) + 1]
<1>1. \A j, k \in K : <<j, k>> \in R <=> j < k
  OBVIOUS
<1>2. Ranks(rank, R, K)
  <2>1. \A k \in K : {j \in K : j < k} = {j \in K : <<j, k>> \in R}
    BY <1>1
  <2> HIDE DEF R
  <2> QED BY <2>1 DEF Ranks
<1> HIDE DEF R
<1>3. StrictOrder(R, K)
  BY <1>1 DEF StrictOrder
<1>4. DOMAIN rank = K
  OBVIOUS
<1>5. Filtered(s, K) = Placed(s, rank, Cardinality(K))
  BY DEF Filtered
<1> HIDE DEF rank
<1>6. /\ Cardinality(K) \in Nat
      /\ \A n \in 1 .. Cardinality(K) : \E k \in K : rank[k] = n
  <2>1. Numbers(rank, K)
    BY Zenon, <1>2, <1>3, Ranked
  <2> QED BY <2>1 DEF Numbers
<1> DEFINE n == Cardinality(K)
           p == [m \in 1 .. n |-> CHOOSE k \in DOMAIN rank : rank[k] = m]
<1>7. Cardinality(1 .. n) = n /\ IsFiniteSet(1 .. n) /\ n \in Nat
  BY <1>6, FS_Interval
<1>8. \A m \in 1 .. n : p[m] \in K /\ rank[p[m]] = m
  BY <1>4, <1>6
<1>9. Filtered(s, K) = [m \in 1 .. n |-> s[p[m]]]
  BY <1>5 DEF Placed
<1>10. p = [m \in 1 .. n |-> p[m]]
  OBVIOUS
<1> HIDE DEF p
<1>11. p \in [1 .. n -> K]
  BY <1>8, <1>10
<1>12. \A j, m \in 1 .. n : p[j] = p[m] => j = m
  BY <1>8
<1>13. p \in Surjection(1 .. n, K)
  <2>1. p \in Injection(1 .. n, K)
    BY <1>11, <1>12 DEF Injection, IsInjective
  <2>2. Cardinality(1 .. n) = Cardinality(K)
    BY <1>7
  <2> QED BY <1>7, <2>1, <2>2, FS_Injection
<1>14. \A k \in K : \E m \in 1 .. n : p[m] = k
  BY <1>13 DEF Surjection
<1> QED BY <1>7, <1>9, <1>11, <1>12, <1>14 DEF EachOnce

LEMMA FilteredPicks ==
  ASSUME NEW s, NEW K, K \subseteq DOMAIN s, K \subseteq Nat, IsFiniteSet(K)
  PROVE  /\ Cardinality(K) \in Nat
         /\ Picks(Filtered(s, K), s, Cardinality(K))
         /\ DOMAIN Filtered(s, K) = 1 .. Cardinality(K)
         /\ \A m \in 1 .. Cardinality(K) : \E k \in K : Filtered(s, K)[m] = s[k]
<1> DEFINE f == Filtered(s, K)
<1>1. EachOnce(f, s, K)
  BY FilteredAll
<1> HIDE DEF f
<1>2. PICK n \in Nat : n = Cardinality(K)
  BY <1>1 DEF EachOnce
<1>3. PICK p \in [1 .. n -> K] : /\ f = [m \in 1 .. n |-> s[p[m]]]
                                 /\ \A j, m \in 1 .. n : p[j] = p[m] => j = m
  BY <1>1, <1>2 DEF EachOnce
<1>4. p \in [1 .. n -> DOMAIN s]
  BY <1>3
<1>5. Picks(f, s, n)
  BY <1>3, <1>4 DEF Picks
<1>6. DOMAIN f = 1 .. n /\ \A m \in 1 .. n : \E k \in K : f[m] = s[k]
  BY <1>3
<1> QED BY <1>2, <1>5, <1>6 DEF f

-----------------------------------------------------------------------------
(* The inductive invariant, stated of values. *)

Distinct(s) == \A j, k \in 1 .. Len(s) : s[j].id = s[k].id => j = k

\* No tab is numbered or stamped beyond the clock: createTabsWithQueries takes its
\* ids from it, and an act gives out one id at most.
InTime(s, time) ==
  \A k \in 1 .. Len(s) : s[k].id <= 1000 * time /\ s[k].lastModified <= time

\* The id a window gives out next is new if it may add a tab.
NextIsNew(s, n) ==
  Len(s) < MaxTabs => \A k \in 1 .. Len(s) : s[k].id < n

Window(s, n, time, beyond) ==
  /\ s \in Seq(Tab) /\ InTime(s, time)
  /\ n \in Nat \ {0} /\ n <= 1000 * time + 2
  /\ ~beyond => Distinct(s) /\ NextIsNew(s, n)

Message(s, time) == s \in Seq(Tab) /\ s # << >> /\ InTime(s, time)

Kept(s, time, beyond) ==
  /\ s \in Seq(Tab) /\ InTime(s, time)
  /\ ~beyond => Distinct(s)

IInv ==
  /\ tabs \in [Windows -> Seq(Tab)] /\ next \in [Windows -> Nat \ {0}]
  /\ \A w \in Windows : Window(tabs[w], next[w], now, over)
  /\ inbox \in [Windows -> Seq(Seq(Tab))]
  /\ \A w \in Windows : \A k \in 1 .. Len(inbox[w]) : Message(inbox[w][k], now)
  /\ Kept(stored, now, over)
  /\ active \in [Windows -> Nat \ {0}] /\ editor \in [Windows -> Texts]
  /\ dialog \in [Windows -> Nat] /\ failed \subseteq {w \in Windows : ~Up(w)}
  /\ storedActive \in Nat \ {0} /\ now \in 1 .. MaxActs /\ over \in BOOLEAN

\* The text of t may give way to that of u, also if one of the tabs inc has no stamp.
Later(t, u) ==
  \/ u.lastModified > t.lastModified
  \/ u.lastModified = t.lastModified /\ u.query = t.query
Unstamped(inc, i) == \E v \in Range(inc) : v.id = i /\ v.lastModified = 0
Follows(t, u, inc) ==
  \/ Later(t, u)
  \/ u.lastModified = t.lastModified /\ Unstamped(inc, t.id)

\* What an act, and what a merge of the tabs inc, does to the tabs of a window.
Grow(s, u) ==
  \A j \in 1 .. Len(s), k \in 1 .. Len(u) : s[j].id = u[k].id => Later(s[j], u[k])
Merges(s, u, inc) ==
  \A j \in 1 .. Len(s), k \in 1 .. Len(u) : s[j].id = u[k].id => Follows(s[j], u[k], inc)

\* All that is in s was there before this time.
Past(s, time) == \A k \in 1 .. Len(s) : s[k].lastModified < time

\* Tab u is tab t, perhaps with another name, or has the stamp of this time.
Stamps(t, u, time) ==
  /\ u.id = t.id
  /\ \/ u.lastModified = time
     \/ u.lastModified = t.lastModified /\ u.query = t.query

-----------------------------------------------------------------------------
(* The lists. *)

LEMMA TabFields ==
  ASSUME NEW t \in Tab
  PROVE  /\ t.id \in Nat \ {0} /\ t.name \in 0 .. MaxActs /\ t.query \in Texts
         /\ t.lastModified \in 0 .. MaxActs
BY DEF Tab

LEMMA TabOfSeq ==
  ASSUME NEW s \in Seq(Tab), NEW k \in 1 .. Len(s)
  PROVE  /\ s[k] \in Tab /\ s[k].id \in Nat \ {0}
         /\ s[k].lastModified \in 0 .. MaxActs /\ s[k].query \in Texts
<1>1. s[k] \in Tab
  OBVIOUS
<1> QED BY <1>1, TabFields

LEMMA IdsOfSeq ==
  ASSUME NEW s \in Seq(Tab)
  PROVE  /\ Ids(s) = {s[k].id : k \in 1 .. Len(s)}
         /\ Ids(s) \subseteq Nat \ {0}
         /\ s # << >> => Ids(s) # {}
<1>1. Ids(s) = {s[k].id : k \in 1 .. Len(s)}
  BY DEF Ids, Range
<1>2. Ids(s) \subseteq Nat \ {0}
  BY <1>1, TabOfSeq
<1>3. s # << >> => 1 \in 1 .. Len(s)
  OBVIOUS
<1> QED BY <1>1, <1>2, <1>3

LEMMA FindIsIn ==
  ASSUME NEW s \in Seq(Tab), NEW i \in Ids(s)
  PROVE  \E k \in 1 .. Len(s) : s[k].id = i /\ Find(s, i) = s[k]
<1> DEFINE K == {k \in 1 .. Len(s) : s[k].id = i}
<1>1. K # {} /\ K \subseteq Nat
  BY IdsOfSeq
<1>2. PICK m \in K : \A k \in K : m <= k
  <2> HIDE DEF K
  <2> QED BY <1>1, Least
<1>3. DOMAIN s = 1 .. Len(s) /\ Len(s) \in Nat
  OBVIOUS
<1>4. \A j \in 1 .. m - 1 : j \in 1 .. Len(s) /\ j < m
  BY <1>2, <1>3
<1>5. m \in DOMAIN s /\ s[m].id = i /\ \A j \in 1 .. m - 1 : s[j].id # i
  <2>1. \A j \in 1 .. m - 1 : s[j].id # i
    <3> SUFFICES ASSUME NEW j \in 1 .. m - 1, s[j].id = i PROVE FALSE
      OBVIOUS
    <3>1. j \in K /\ j < m
      BY <1>4
    <3> QED BY <1>2, <3>1
  <2> QED BY <1>2, <1>3, <2>1
<1> DEFINE g == CHOOSE k \in DOMAIN s : s[k].id = i /\ \A j \in 1 .. k - 1 : s[j].id # i
<1>6. g \in DOMAIN s /\ s[g].id = i
  BY <1>5
<1>7. Find(s, i) = s[g]
  BY DEF Find
<1> HIDE DEF g
<1> QED BY <1>3, <1>6, <1>7

LEMMA FindIsTab ==
  ASSUME NEW s \in Seq(Tab), NEW i \in Ids(s)
  PROVE  Find(s, i) \in Tab /\ Find(s, i).id = i /\ Find(s, i).query \in Texts
<1>1. PICK k \in 1 .. Len(s) : s[k].id = i /\ Find(s, i) = s[k]
  BY FindIsIn
<1> QED BY <1>1, TabOfSeq

\* A later time, or more excuse, changes nothing.
LEMMA LaterIsFine ==
  ASSUME NEW s \in Seq(Tab), NEW m \in Nat, NEW time \in Nat, m <= time, InTime(s, m)
  PROVE  InTime(s, time)
<1> SUFFICES ASSUME NEW k \in 1 .. Len(s)
             PROVE  s[k].id <= 1000 * time /\ s[k].lastModified <= time
  BY DEF InTime
<1>1. s[k].id \in Nat /\ s[k].lastModified \in Nat
  BY TabOfSeq
<1>2. s[k].id <= 1000 * m /\ s[k].lastModified <= m
  BY DEF InTime
<1> QED BY <1>1, <1>2

\* So does a later window.
LEMMA LaterWindow ==
  ASSUME NEW s, NEW n, NEW m \in Nat, NEW time \in Nat, m <= time,
         NEW beyond, NEW later, beyond => later, Window(s, n, m, beyond)
  PROVE  Window(s, n, time, later)
<1>1. s \in Seq(Tab) /\ n \in Nat \ {0} /\ n <= 1000 * m + 2 /\ InTime(s, m)
  BY DEF Window
<1>2. n <= 1000 * time + 2
  BY <1>1
<1>3. InTime(s, time)
  BY <1>1, LaterIsFine
<1> QED BY <1>1, <1>2, <1>3 DEF Window

\* A list of the same ids, some of them with the stamp of this time.
LEMMA SameIds ==
  ASSUME NEW s \in Seq(Tab), NEW u \in Seq(Tab), NEW n, NEW time \in Nat, Len(u) = Len(s),
         \A k \in 1 .. Len(s) : Stamps(s[k], u[k], time),
         NEW beyond, Window(s, n, time, beyond)
  PROVE  /\ Window(u, n, time, beyond)
         /\ \A c : c \in Seq(Tab) /\ Past(c, time) /\ Grow(c, s) => Grow(c, u)
<1>0. \A k \in 1 .. Len(s) : u[k].id = s[k].id /\ u[k].lastModified \in {s[k].lastModified, time}
  BY DEF Stamps
<1>1. \A k \in 1 .. Len(s) :
        /\ s[k].id \in Nat /\ s[k].lastModified \in Nat
        /\ s[k].id <= 1000 * time /\ s[k].lastModified <= time
  BY TabOfSeq DEF Window, InTime
<1>2. InTime(u, time)
  BY <1>0, <1>1 DEF InTime
<1>3. n \in Nat \ {0} /\ n <= 1000 * time + 2
  BY DEF Window
<1>4. ASSUME ~beyond PROVE Distinct(u) /\ NextIsNew(u, n)
  BY <1>0, <1>4 DEF Window, Distinct, NextIsNew
<1>5. ASSUME NEW c \in Seq(Tab), Past(c, time), Grow(c, s) PROVE Grow(c, u)
  <2> SUFFICES ASSUME NEW j \in 1 .. Len(c), NEW k \in 1 .. Len(s), c[j].id = u[k].id
               PROVE  Later(c[j], u[k])
    BY DEF Grow
  <2>1. Later(c[j], s[k])
    BY <1>0, <1>5 DEF Grow
  <2>2. c[j].lastModified \in Nat /\ c[j].lastModified < time
    BY <1>5, TabOfSeq DEF Past
  <2>4. CASE u[k].lastModified = s[k].lastModified /\ u[k].query = s[k].query
    BY <2>1, <2>4 DEF Later
  <2>5. CASE u[k].lastModified = time
    BY <2>2, <2>5 DEF Later
  <2> QED BY <2>4, <2>5 DEF Stamps
<1> QED BY <1>2, <1>3, <1>4, <1>5 DEF Window

LEMMA GrowsItself ==
  ASSUME NEW s \in Seq(Tab), Distinct(s)
  PROVE  Grow(s, s)
<1> SUFFICES ASSUME NEW j \in 1 .. Len(s), NEW k \in 1 .. Len(s), s[j].id = s[k].id
             PROVE  Later(s[j], s[k])
  BY DEF Grow
<1>1. j = k
  BY DEF Distinct
<1> QED BY <1>1 DEF Later

-----------------------------------------------------------------------------
(* What the handlers make of a list. *)

LEMMA EditedList ==
  ASSUME NEW s \in Seq(Tab), NEW a, NEW v \in Texts, now' \in 1 .. MaxActs
  PROVE  /\ Edited(s, a, v) \in Seq(Tab) /\ Len(Edited(s, a, v)) = Len(s)
         /\ \A k \in 1 .. Len(s) : Stamps(s[k], Edited(s, a, v)[k], now')
<1> USE SizesAssumption
<1>1. ASSUME NEW k \in 1 .. Len(s)
      PROVE  /\ [s[k] EXCEPT !.query = v, !.lastModified = now'] \in Tab
             /\ [s[k] EXCEPT !.query = v, !.lastModified = now'].id = s[k].id
             /\ [s[k] EXCEPT !.query = v, !.lastModified = now'].lastModified = now'
             /\ s[k] \in Tab
  <2>1. s[k] \in Tab
    OBVIOUS
  <2> DEFINE r == s[k]
             m == now'
  <2>2. r \in Tab /\ m \in 0 .. MaxActs
    BY <2>1
  <2> HIDE DEF r, m
  <2>3. /\ [r EXCEPT !.query = v, !.lastModified = m] \in Tab
        /\ [r EXCEPT !.query = v, !.lastModified = m].id = r.id
        /\ [r EXCEPT !.query = v, !.lastModified = m].lastModified = m
    BY <2>2 DEF Tab
  <2> QED BY <2>2, <2>3 DEF r, m
<1>2. DOMAIN s = 1 .. Len(s) /\ Len(s) \in Nat
  OBVIOUS
<1>3. Edited(s, a, v) = [k \in 1 .. Len(s) |->
          IF s[k].id = a THEN [s[k] EXCEPT !.query = v, !.lastModified = now'] ELSE s[k]]
  BY <1>2 DEF Edited
<1>4. Edited(s, a, v) \in [1 .. Len(s) -> Tab]
  BY <1>1, <1>3
<1>5. Edited(s, a, v) \in Seq(Tab) /\ Len(Edited(s, a, v)) = Len(s)
  BY <1>2, <1>4
<1> QED BY <1>1, <1>3, <1>5 DEF Stamps

Renamed(s, i, m) ==
  [k \in DOMAIN s |-> IF s[k].id = i THEN [s[k] EXCEPT !.name = m] ELSE s[k]]

LEMMA RenamedList ==
  ASSUME NEW s \in Seq(Tab), NEW i, NEW m \in 1 .. MaxActs
  PROVE  /\ Renamed(s, i, m) \in Seq(Tab) /\ Len(Renamed(s, i, m)) = Len(s)
         /\ \A k \in 1 .. Len(s) : Stamps(s[k], Renamed(s, i, m)[k], m)
<1> USE SizesAssumption
<1> DEFINE u == Renamed(s, i, m)
<1>1. ASSUME NEW k \in 1 .. Len(s)
      PROVE  /\ [s[k] EXCEPT !.name = m] \in Tab
             /\ [s[k] EXCEPT !.name = m].id = s[k].id
             /\ [s[k] EXCEPT !.name = m].lastModified = s[k].lastModified
             /\ [s[k] EXCEPT !.name = m].query = s[k].query
             /\ s[k] \in Tab
  <2>1. s[k] \in Tab
    OBVIOUS
  <2> DEFINE r == s[k]
  <2>2. r \in Tab /\ m \in 0 .. MaxActs
    BY <2>1
  <2> HIDE DEF r
  <2>3. /\ [r EXCEPT !.name = m] \in Tab
        /\ [r EXCEPT !.name = m].id = r.id
        /\ [r EXCEPT !.name = m].lastModified = r.lastModified
        /\ [r EXCEPT !.name = m].query = r.query
    BY <2>2 DEF Tab
  <2> QED BY <2>2, <2>3 DEF r
<1>2. DOMAIN s = 1 .. Len(s) /\ Len(s) \in Nat
  OBVIOUS
<1>3. u = [k \in 1 .. Len(s) |->
             IF s[k].id = i THEN [s[k] EXCEPT !.name = m] ELSE s[k]]
  BY <1>2 DEF Renamed
<1> HIDE DEF u
<1>4. u \in [1 .. Len(s) -> Tab]
  BY <1>1, <1>3
<1>5. u \in Seq(Tab) /\ Len(u) = Len(s)
  BY <1>2, <1>4
<1> QED BY <1>1, <1>3, <1>5 DEF u, Stamps

\* A new tab at the end, with an id that the window may give out.
LEMMA LongerList ==
  ASSUME NEW s \in Seq(Tab), NEW n, NEW m \in Nat, NEW time \in Nat, m = time - 1,
         NEW beyond, NEW later, Window(s, n, m, beyond), ~later => ~beyond /\ Len(s) < MaxTabs,
         NEW t \in Tab, t.id = n, t.lastModified <= time
  PROVE  /\ Append(s, t) \in Seq(Tab) /\ Len(Append(s, t)) = Len(s) + 1
         /\ Append(s, t) # << >>
         /\ InTime(Append(s, t), time) /\ n \in Ids(Append(s, t))
         /\ ~later => Distinct(Append(s, t)) /\ Grow(s, Append(s, t))
<1> DEFINE u == Append(s, t)
<1>1. /\ u \in Seq(Tab) /\ Len(u) = Len(s) + 1 /\ u # << >>
      /\ \A k \in 1 .. Len(s) : u[k] = s[k]
      /\ u[Len(s) + 1] = t /\ Len(s) \in Nat
  OBVIOUS
<1> HIDE DEF u
<1>2. \A k \in 1 .. Len(u) : k \in 1 .. Len(s) \/ k = Len(s) + 1
  BY <1>1
<1>3. n \in Nat /\ n <= 1000 * time /\ time - 1 = m
  <2>1. n \in Nat /\ n <= 1000 * m + 2
    BY DEF Window
  <2> QED BY <2>1
<1>4. InTime(s, time)
  BY LaterIsFine DEF Window
<1>5. InTime(u, time)
  BY <1>1, <1>2, <1>3, <1>4 DEF InTime
<1>6. n \in Ids(u)
  <2>1. Len(s) + 1 \in 1 .. Len(u)
    BY <1>1
  <2> QED BY <1>1, <2>1, IdsOfSeq
<1>7. ASSUME ~later PROVE Distinct(u) /\ Grow(s, u)
  <2>1. Distinct(s) /\ \A k \in 1 .. Len(s) : s[k].id < n
    BY <1>7 DEF Window, NextIsNew
  <2>2. \A k \in 1 .. Len(s) : s[k].id \in Nat /\ s[k].id # n
    BY <1>3, <2>1, TabOfSeq
  <2>3. Distinct(u)
    BY <1>1, <1>2, <2>1, <2>2 DEF Distinct
  <2>4. Grow(s, s)
    BY <2>1, GrowsItself
  <2>5. \A j \in 1 .. Len(s), k \in 1 .. Len(u) :
          s[j].id = u[k].id => k \in 1 .. Len(s) /\ u[k] = s[k]
    BY <1>1, <1>2, <2>2
  <2> QED BY <2>3, <2>4, <2>5 DEF Grow
<1> QED BY <1>1, <1>5, <1>6, <1>7 DEF u

\* A list without some tabs.
LEMMA PickedList ==
  ASSUME NEW s \in Seq(Tab), NEW n \in Nat, NEW u, Picks(u, s, n), NEW time, InTime(s, time)
  PROVE  /\ u \in Seq(Tab) /\ Len(u) = n /\ InTime(u, time)
         /\ \A m \in 1 .. n : \E k \in 1 .. Len(s) : u[m] = s[k]
         /\ Distinct(s) => Distinct(u) /\ Grow(s, u)
<1>1. PICK p \in [1 .. n -> DOMAIN s] :
        /\ \A j, k \in 1 .. n : p[j] = p[k] => j = k
        /\ u = [m \in 1 .. n |-> s[p[m]]]
  BY DEF Picks
<1>2. DOMAIN s = 1 .. Len(s)
  OBVIOUS
<1>3. \A m \in 1 .. n : p[m] \in 1 .. Len(s) /\ u[m] = s[p[m]] /\ s[p[m]] \in Tab
  BY <1>1, <1>2
<1>4. u \in [1 .. n -> Tab]
  BY <1>1, <1>3
<1>5. u \in Seq(Tab) /\ Len(u) = n
  BY <1>4
<1>6. InTime(u, time)
  BY <1>3, <1>5 DEF InTime
<1>7. ASSUME Distinct(s) PROVE Distinct(u) /\ Grow(s, u)
  <2>1. Distinct(u)
    BY <1>1, <1>3, <1>5, <1>7 DEF Distinct
  <2>2. Grow(s, s)
    BY <1>7, GrowsItself
  <2> QED BY <1>3, <1>5, <2>1, <2>2 DEF Grow
<1> QED BY <1>3, <1>5, <1>6, <1>7

LEMMA TwoElements == ASSUME NEW a, NEW b PROVE <<a>> \o <<b>> = <<a, b>>
<1> DEFINE T == {a, b}
           x == <<a>>
           y == <<b>>
           u == x \o y
           v == <<a, b>>
<1>1. x \in Seq(T) /\ y \in Seq(T) /\ v \in Seq(T) /\ Len(x) = 1 /\ Len(y) = 1 /\ Len(v) = 2
      /\ x[1] = a /\ y[1] = b /\ v[1] = a /\ v[2] = b
  OBVIOUS
<1> HIDE DEF x, y, v
<1>2. /\ u \in Seq(T) /\ Len(u) = Len(x) + Len(y)
      /\ \A i \in 1 .. Len(x) + Len(y) : u[i] = IF i <= Len(x) THEN x[i] ELSE y[i - Len(x)]
  BY <1>1, ConcatProperties
<1>a. 1 \in 1 .. Len(x) + Len(y) /\ 2 \in 1 .. Len(x) + Len(y) /\ 2 - Len(x) = 1 /\ ~(2 <= Len(x)) /\ 1 <= Len(x)
  BY <1>1
<1>b. u[1] = x[1] /\ u[2] = y[1] /\ Len(u) = 2
  BY <1>1, <1>2, <1>a
<1> HIDE DEF u
<1>3. u = v
  BY <1>1, <1>2, <1>b, SeqEqual
<1> QED BY <1>3 DEF u, v, x, y

\* The ids are counted again.
LEMMA CountedIsNew ==
  ASSUME NEW s \in Seq(Tab), s # << >>, NEW time \in Nat, InTime(s, time)
  PROVE  /\ Max(Ids(s)) + 1 \in Nat \ {0} /\ Max(Ids(s)) + 1 <= 1000 * time + 2
         /\ NextIsNew(s, Max(Ids(s)) + 1)
<1> DEFINE S == Ids(s)
           b == 1000 * time
<1>1. S = {s[k].id : k \in 1 .. Len(s)} /\ S \subseteq Nat /\ S # {}
  BY IdsOfSeq
<1>2. b \in Nat /\ \A i \in S : i <= b
  BY <1>1 DEF InTime
<1> HIDE DEF S
<1>3. Max(S) \in S /\ \A i \in S : i <= Max(S)
  <2> HIDE DEF b
  <2> QED BY <1>1, <1>2, Greatest
<1>4. Max(S) \in Nat /\ Max(S) <= b
  BY <1>1, <1>2, <1>3
<1>5. NextIsNew(s, Max(S) + 1)
  <2>1. \A k \in 1 .. Len(s) : s[k].id \in S
    BY <1>1
  <2>2. \A i \in S : i < Max(S) + 1
    BY <1>1, <1>3, <1>4
  <2> QED BY <2>1, <2>2 DEF NextIsNew
<1> QED BY <1>4, <1>5 DEF S

LEMMA CountedKeeps ==
  ASSUME NEW w, NEW s \in Seq(Tab), s # << >>, NEW time \in Nat, InTime(s, time),
         NEW n \in Nat \ {0}, n <= 1000 * time + 2, NEW beyond,
         ~beyond => Distinct(s) /\ (Len(s) = Len(tabs[w]) => NextIsNew(s, n))
  PROVE  Window(s, Counted(w, s, n), time, beyond)
<1>1. CASE Len(s) = Len(tabs[w])
  BY <1>1 DEF Window, Counted
<1>2. CASE Len(s) # Len(tabs[w])
  <2>1. Counted(w, s, n) = Max(Ids(s)) + 1
    BY <1>2 DEF Counted
  <2> QED BY <2>1, CountedIsNew DEF Window
<1> QED BY <1>1, <1>2

-----------------------------------------------------------------------------
(* The merge. *)

LEMMA MergedTabIs ==
  ASSUME NEW cur \in Tab, NEW inc \in Tab, cur.id = inc.id
  PROVE  /\ MergedTab(cur, inc) \in Tab /\ MergedTab(cur, inc).id = cur.id
         /\ \/ Later(cur, MergedTab(cur, inc))
            \/ MergedTab(cur, inc).lastModified = cur.lastModified /\ inc.lastModified = 0
         /\ MergedTab(cur, inc).lastModified \in {cur.lastModified, inc.lastModified}
<1> USE SizesAssumption
<1>1. /\ cur.lastModified \in 0 .. MaxActs /\ inc.lastModified \in 0 .. MaxActs
  BY DEF Tab
<1> DEFINE m == IF inc.lastModified = 0 THEN cur.lastModified ELSE inc.lastModified
           r == [inc EXCEPT !.lastModified = m]
<1>2. m \in 0 .. MaxActs /\ m \in {cur.lastModified, inc.lastModified}
  BY <1>1
<1>3. /\ r \in Tab /\ r.id = inc.id /\ r.lastModified = m
  <2> HIDE DEF m
  <2> QED BY <1>2 DEF Tab
<1>4. [inc EXCEPT !.lastModified = IF @ = 0 THEN cur.lastModified ELSE @] = r
  BY DEF Tab
<1> HIDE DEF r
<1>5. CASE cur.lastModified = 0 \/ inc.lastModified = 0 \/ inc.lastModified > cur.lastModified
  <2>1. MergedTab(cur, inc) = r
    BY <1>4, <1>5 DEF MergedTab
  <2>2. m > cur.lastModified \/ (m = cur.lastModified /\ inc.lastModified = 0)
    BY <1>1, <1>5
  <2> HIDE DEF m
  <2> QED BY <1>2, <1>3, <2>1, <2>2 DEF Later
<1>6. CASE ~(cur.lastModified = 0 \/ inc.lastModified = 0 \/ inc.lastModified > cur.lastModified)
  <2>1. MergedTab(cur, inc) = cur
    BY <1>6 DEF MergedTab
  <2> QED BY <1>1, <2>1 DEF Later
<1> QED BY <1>5, <1>6

InTimeTab(t, time) == t \in Tab /\ t.id <= 1000 * time /\ t.lastModified <= time

\* Merged has each id once; the tabs of the window come first, and their texts give
\* way to later ones only, or to those of tabs without a stamp.
LEMMA MergedIs ==
  ASSUME NEW cur \in Seq(Tab), NEW inc \in Seq(Tab), cur # << >>, NEW time \in Nat,
         InTime(cur, time), InTime(inc, time), NEW f, f = Merged(cur, inc)
  PROVE  /\ DOMAIN f \subseteq 1 .. Len(cur) + Len(inc) /\ 1 \in DOMAIN f
         /\ \A k \in DOMAIN f : InTimeTab(f[k], time)
         /\ \A j, k \in DOMAIN f : f[j].id = f[k].id => j = k
         /\ Distinct(cur) =>
              /\ 1 .. Len(cur) \subseteq DOMAIN f
              /\ \A k \in 1 .. Len(cur) : f[k].id = cur[k].id /\ Follows(cur[k], f[k], inc)
<1> DEFINE all == cur \o inc
           first == {k \in DOMAIN all : \A j \in 1 .. k - 1 : all[j].id # all[k].id}
           one(i) == IF i \notin Ids(inc) THEN Find(cur, i)
                     ELSE IF i \notin Ids(cur) THEN Find(inc, i)
                     ELSE MergedTab(Find(cur, i), Find(inc, i))
<1>1. f = [k \in first |-> one(all[k].id)]
  BY DEF Merged
<1>2. /\ Len(cur) \in Nat /\ Len(inc) \in Nat /\ Len(cur) >= 1
      /\ DOMAIN all = 1 .. Len(cur) + Len(inc)
      /\ \A k \in 1 .. Len(cur) : all[k] = cur[k]
      /\ \A k \in 1 .. Len(cur) + Len(inc) :
           k \notin 1 .. Len(cur) => k - Len(cur) \in 1 .. Len(inc) /\ all[k] = inc[k - Len(cur)]
  OBVIOUS
<1> HIDE DEF all
<1>3. \A k \in DOMAIN all : all[k].id \in Ids(cur) \cup Ids(inc)
  BY <1>2, IdsOfSeq
<1>4. first \subseteq DOMAIN all /\ 1 \in first
  BY <1>2
<1>5. \A j, k \in first : all[j].id = all[k].id => j = k
  <2>1. ASSUME NEW j \in first, NEW k \in first, j < k PROVE all[j].id # all[k].id
    <3>1. j \in 1 .. k - 1
      BY <1>2, <2>1
    <3> QED BY <3>1
  <2>2. \A j \in first : j \in Nat
    BY <1>2
  <2> HIDE DEF first
  <2> QED BY <2>1, <2>2
<1>6. ASSUME NEW i \in Ids(cur) \cup Ids(inc)
      PROVE  InTimeTab(one(i), time) /\ one(i).id = i
             /\ (i \in Ids(cur) => Follows(Find(cur, i), one(i), inc))
  <2>1. ASSUME NEW s \in {cur, inc}, i \in Ids(s)
        PROVE  InTimeTab(Find(s, i), time) /\ Find(s, i).id = i
    <3>1. s \in Seq(Tab) /\ InTime(s, time)
      OBVIOUS
    <3>2. PICK k \in 1 .. Len(s) : s[k].id = i /\ Find(s, i) = s[k]
      BY <2>1, <3>1, FindIsIn
    <3>3. s[k] \in Tab
      BY <3>1, TabOfSeq
    <3> QED BY <3>1, <3>2, <3>3 DEF InTime, InTimeTab
  <2>2. CASE i \notin Ids(inc)
    <3>1. i \in Ids(cur) /\ one(i) = Find(cur, i)
      BY <2>2
    <3>2. Follows(Find(cur, i), Find(cur, i), inc)
      BY DEF Follows, Later
    <3> HIDE DEF one
    <3> QED BY <3>1, <3>2, <2>1
  <2>3. CASE i \in Ids(inc) /\ i \notin Ids(cur)
    <3>1. one(i) = Find(inc, i)
      BY <2>3
    <3> HIDE DEF one
    <3> QED BY <3>1, <2>1, <2>3
  <2>4. CASE i \in Ids(inc) /\ i \in Ids(cur)
    <3> DEFINE a == Find(cur, i)
               b == Find(inc, i)
    <3>1. one(i) = MergedTab(a, b)
      BY <2>4
    <3>2. InTimeTab(a, time) /\ InTimeTab(b, time) /\ a.id = i /\ b.id = i
      BY <2>1, <2>4
    <3>5. b \in Range(inc)
      <4>1. PICK k \in 1 .. Len(inc) : inc[k].id = i /\ Find(inc, i) = inc[k]
        BY <2>4, FindIsIn
      <4> QED BY <4>1 DEF Range
    <3> HIDE DEF a, b, one
    <3>3. /\ MergedTab(a, b) \in Tab /\ MergedTab(a, b).id = a.id
          /\ \/ Later(a, MergedTab(a, b))
             \/ MergedTab(a, b).lastModified = a.lastModified /\ b.lastModified = 0
          /\ MergedTab(a, b).lastModified \in {a.lastModified, b.lastModified}
      BY <3>2, MergedTabIs DEF InTimeTab
    <3>4. InTimeTab(MergedTab(a, b), time)
      BY <3>2, <3>3 DEF InTimeTab
    <3>6. Follows(a, MergedTab(a, b), inc)
      BY <3>2, <3>3, <3>5 DEF Follows, Unstamped
    <3> QED BY <3>1, <3>2, <3>3, <3>4, <3>6 DEF a
  <2> QED BY <2>2, <2>3, <2>4
<1> HIDE DEF one, first
<1>7. \A k \in first : f[k] = one(all[k].id) /\ f[k].id = all[k].id /\ InTimeTab(f[k], time)
  BY <1>1, <1>3, <1>4, <1>6
<1>8. DOMAIN f = first
  BY <1>1
<1>9. ASSUME Distinct(cur)
      PROVE  /\ 1 .. Len(cur) \subseteq first
             /\ \A k \in 1 .. Len(cur) : f[k].id = cur[k].id /\ Follows(cur[k], f[k], inc)
  <2>1. ASSUME NEW k \in 1 .. Len(cur) PROVE k \in first
    <3>1. \A j \in 1 .. k - 1 : j \in 1 .. Len(cur) /\ j # k
      BY <1>2
    <3>2. \A j \in 1 .. k - 1 : all[j].id # all[k].id
      BY <1>2, <1>9, <3>1 DEF Distinct
    <3> QED BY <1>2, <3>2 DEF first
  <2>2. ASSUME NEW k \in 1 .. Len(cur)
        PROVE  f[k].id = cur[k].id /\ Follows(cur[k], f[k], inc)
    <3>1. all[k].id = cur[k].id /\ cur[k].id \in Ids(cur)
      BY <1>2, IdsOfSeq
    <3>2. PICK j \in 1 .. Len(cur) : cur[j].id = cur[k].id /\ Find(cur, cur[k].id) = cur[j]
      BY <3>1, FindIsIn
    <3>3. j = k
      BY <1>9, <3>2 DEF Distinct
    <3> QED BY <1>6, <1>7, <2>1, <3>1, <3>2, <3>3
  <2> QED BY <2>1, <2>2
<1> QED BY <1>2, <1>4, <1>5, <1>7, <1>8, <1>9

\* What is kept of it: MaxTabs tabs at most.
LEMMA CappedIs ==
  ASSUME NEW f, IsFiniteSet(DOMAIN f), DOMAIN f \subseteq Nat,
         \A k \in DOMAIN f : f[k].lastModified \in Nat
  PROVE  /\ Cardinality(DOMAIN f) \in Nat
         /\ Picks(Capped(f), f, Min({Cardinality(DOMAIN f), MaxTabs}))
<1> DEFINE D == DOMAIN f
           before(j, k) == \/ f[j].lastModified > f[k].lastModified
                           \/ f[j].lastModified = f[k].lastModified /\ j < k
           at == [k \in D |-> Cardinality({j \in D : before(j, k)}) + 1]
           R == {p \in D \X D : before(p[1], p[2])}
           n == Min({Cardinality(D), MaxTabs})
<1>1. Capped(f) = Placed(f, at, n)
  BY DEF Capped
<1>2. \A j, k \in D : <<j, k>> \in R <=> before(j, k)
  OBVIOUS
<1>3. Ranks(at, R, D)
  <2>1. \A k \in D : {j \in D : before(j, k)} = {j \in D : <<j, k>> \in R}
    BY <1>2
  <2> HIDE DEF R, before
  <2> QED BY <2>1 DEF Ranks
<1>4. DOMAIN at = D
  OBVIOUS
<1> HIDE DEF R
<1>5. StrictOrder(R, D)
  <2>1. \A j \in D : j \in Nat /\ f[j].lastModified \in Nat
    OBVIOUS
  <2> HIDE DEF D
  <2> QED BY <1>2, <2>1 DEF StrictOrder
<1>6. IsFiniteSet(D)
  OBVIOUS
<1> HIDE DEF at, before, D
<1>7. /\ Cardinality(D) \in Nat
      /\ \A m \in 1 .. Cardinality(D) : \E k \in D : at[k] = m
  <2>1. Numbers(at, D)
    BY Zenon, <1>3, <1>5, <1>6, Ranked
  <2> QED BY <2>1 DEF Numbers
<1>8. n \in Nat /\ n <= Cardinality(D)
  BY <1>7, SizesAssumption, MinOfTwo
<1>9. \A m \in 1 .. n : \E k \in DOMAIN at : at[k] = m
  <2> HIDE DEF n
  <2> QED BY <1>4, <1>7, <1>8
<1>10. DOMAIN at \subseteq DOMAIN f
  BY <1>4 DEF D
<1> HIDE DEF n
<1>11. Picks(Placed(f, at, n), f, n)
  BY <1>8, <1>9, <1>10, PlacedPicks
<1> QED BY <1>1, <1>7, <1>11 DEF n, D

\* What a window makes of an event.
LEMMA MergeKeeps ==
  ASSUME NEW cur \in Seq(Tab), NEW inc \in Seq(Tab), cur # << >>, NEW time \in Nat,
         InTime(cur, time), InTime(inc, time), NEW u, u = Capped(Merged(cur, inc)), NEW nx
  PROVE  /\ u \in Seq(Tab) /\ u # << >> /\ InTime(u, time) /\ Distinct(u)
         /\ Distinct(cur) => Merges(cur, u, inc)
         /\ Distinct(cur) /\ NextIsNew(cur, nx) /\ Len(u) = Len(cur) => NextIsNew(u, nx)
<1> DEFINE f == Merged(cur, inc)
           D == DOMAIN f
           n == Min({Cardinality(D), MaxTabs})
<1>1. /\ D \subseteq 1 .. Len(cur) + Len(inc) /\ 1 \in D
      /\ \A k \in D : InTimeTab(f[k], time)
      /\ \A j, k \in D : f[j].id = f[k].id => j = k
      /\ Distinct(cur) =>
           /\ 1 .. Len(cur) \subseteq D
           /\ \A k \in 1 .. Len(cur) : f[k].id = cur[k].id /\ Follows(cur[k], f[k], inc)
  <2> HIDE DEF f
  <2> QED BY MergedIs DEF f
<1> HIDE DEF f, D
<1>2. IsFiniteSet(D) /\ D \subseteq Nat
  <2>1. Len(cur) + Len(inc) \in Nat
    OBVIOUS
  <2> DEFINE N == 1 .. Len(cur) + Len(inc)
  <2>2. IsFiniteSet(N) /\ N \subseteq Nat
    BY <2>1, FS_Interval
  <2>3. D \in SUBSET N
    BY <1>1
  <2> HIDE DEF N
  <2> QED BY <2>2, <2>3, FS_Subset
<1>3. \A k \in D : f[k] \in Tab /\ f[k].id \in Nat /\ f[k].lastModified \in Nat
  <2>1. \A k \in D : f[k] \in Tab
    BY <1>1 DEF InTimeTab
  <2> QED BY <2>1, TabFields
<1>4. Cardinality(D) \in Nat /\ Picks(u, f, n)
  BY <1>2, <1>3, CappedIs DEF D, f
<1>5. /\ n \in Nat /\ n <= Cardinality(D) /\ n <= MaxTabs
      /\ n = Cardinality(D) \/ n = MaxTabs
  BY <1>4, SizesAssumption, MinOfTwo
<1> HIDE DEF n
<1>6. n > 0
  <2>1. Cardinality(D) # 0
    BY <1>1, <1>2, FS_EmptySet
  <2> QED BY <1>4, <1>5, <2>1, SizesAssumption
<1>7. PICK p \in [1 .. n -> D] :
        /\ \A j, k \in 1 .. n : p[j] = p[k] => j = k
        /\ u = [m \in 1 .. n |-> f[p[m]]]
  BY <1>4 DEF Picks, D
<1>8. \A m \in 1 .. n : p[m] \in D /\ u[m] = f[p[m]] /\ u[m] \in Tab
  BY <1>3, <1>7
<1>9. u \in Seq(Tab) /\ Len(u) = n
  <2>1. u \in [1 .. n -> Tab]
    BY <1>3, <1>7
  <2> QED BY <1>5, <2>1
<1>10. u # << >>
  BY <1>5, <1>6, <1>9
<1>11. InTime(u, time)
  <2>1. \A m \in 1 .. n : InTimeTab(u[m], time)
    BY <1>1, <1>8
  <2> QED BY <1>9, <2>1 DEF InTime, InTimeTab
<1>12. Distinct(u)
  <2> SUFFICES ASSUME NEW j \in 1 .. n, NEW k \in 1 .. n, u[j].id = u[k].id PROVE j = k
    BY <1>9 DEF Distinct
  <2>0. p[j] \in D /\ p[k] \in D /\ f[p[j]].id = f[p[k]].id
    BY <1>8
  <2>1. p[j] = p[k]
    <3>1. \A x, y \in D : f[x].id = f[y].id => x = y
      BY <1>1
    <3> QED BY <2>0, <3>1
  <2> QED BY <1>7, <2>1
<1>13. ASSUME Distinct(cur) PROVE Merges(cur, u, inc)
  <2> SUFFICES ASSUME NEW j \in 1 .. Len(cur), NEW k \in 1 .. n, cur[j].id = u[k].id
               PROVE  Follows(cur[j], u[k], inc)
    BY <1>9 DEF Merges
  <2>1. j \in D /\ f[j].id = f[p[k]].id
    BY <1>1, <1>8, <1>13
  <2>2. p[k] = j
    BY <1>1, <1>8, <2>1
  <2> QED BY <1>1, <1>8, <1>13, <2>2
<1>14. ASSUME Distinct(cur), NextIsNew(cur, nx), Len(u) = Len(cur) PROVE NextIsNew(u, nx)
  <2> SUFFICES ASSUME Len(u) < MaxTabs, NEW k \in 1 .. n PROVE u[k].id < nx
    BY <1>9 DEF NextIsNew
  <2>1. Cardinality(D) = Len(cur)
    BY <1>5, <1>9, <1>14, SizesAssumption
  <2>2. Cardinality(1 .. Len(cur)) = Len(cur)
    <3> DEFINE c == Len(cur)
    <3>1. c \in Int /\ 1 \in Int /\ c >= 1
      OBVIOUS
    <3> HIDE DEF c
    <3>2. Cardinality(1 .. c) = c
      BY <3>1, FS_Interval
    <3> QED BY <3>2 DEF c
  <2>3. D = 1 .. Len(cur)
    <3>1. 1 .. Len(cur) \in SUBSET D
      BY <1>1, <1>14
    <3> QED BY <1>2, <2>1, <2>2, <3>1, FS_Subset
  <2>4. p[k] \in 1 .. Len(cur) /\ u[k].id = cur[p[k]].id
    BY <1>1, <1>8, <1>14, <2>3
  <2> QED BY <1>14, <2>4 DEF NextIsNew
<1> QED BY <1>9, <1>10, <1>11, <1>12, <1>13, <1>14

-----------------------------------------------------------------------------
(* Stores and renders. *)

Messages(b, time) ==
  /\ b \in [Windows -> Seq(Seq(Tab))]
  /\ \A v \in Windows : \A k \in 1 .. Len(b[v]) : Message(b[v][k], time)

LEMMA StoreKeeps ==
  ASSUME NEW w \in Windows, NEW ws \in Seq(Seq(Tab)), NEW rest \in Seq(Seq(Tab)),
         NEW time, NEW beyond,
         \A k \in 1 .. Len(ws) : Message(ws[k], time) /\ Kept(ws[k], time, beyond),
         \A k \in 1 .. Len(rest) : Message(rest[k], time),
         Messages(inbox, time), Kept(stored, time, beyond), Store(w, ws, rest)
  PROVE  Messages(inbox', time) /\ Kept(stored', time, beyond)
<1> DEFINE all == <<stored>> \o ws
           K == {k \in DOMAIN ws : ws[k] # all[k]}
           news == Filtered(ws, K)
<1>1. /\ stored' = Last(all)
      /\ inbox' = [v \in Windows |-> IF v = w THEN rest
                                     ELSE IF Up(v) THEN inbox[v] \o news ELSE inbox[v]]
  BY DEF Store
<1>2. /\ Len(ws) \in Nat /\ DOMAIN ws = 1 .. Len(ws) /\ Len(all) = Len(ws) + 1
      /\ all[1] = stored /\ \A k \in 1 .. Len(ws) : all[k + 1] = ws[k]
  OBVIOUS
<1>3. Kept(stored', time, beyond)
  <2>1. stored' = all[Len(ws) + 1]
    BY <1>1, <1>2 DEF Last
  <2> HIDE DEF all
  <2>2. CASE Len(ws) = 0
    BY <1>2, <2>1, <2>2
  <2>3. CASE Len(ws) # 0
    <3>1. Len(ws) \in 1 .. Len(ws)
      BY <1>2, <2>3
    <3>2. stored' = ws[Len(ws)]
      BY <1>2, <2>1, <3>1
    <3> QED BY <3>1, <3>2
  <2> QED BY <2>2, <2>3
<1>4. news \in Seq(Seq(Tab)) /\ \A k \in 1 .. Len(news) : Message(news[k], time)
  <2>1. K \subseteq DOMAIN ws /\ K \subseteq Nat /\ IsFiniteSet(K)
    <3>1. K \in SUBSET (1 .. Len(ws)) /\ IsFiniteSet(1 .. Len(ws))
      BY <1>2, FS_Interval
    <3> QED BY <1>2, <3>1, FS_Subset
  <2> HIDE DEF K
  <2>2. /\ Cardinality(K) \in Nat
        /\ DOMAIN news = 1 .. Cardinality(K)
        /\ \A m \in 1 .. Cardinality(K) : \E k \in K : news[m] = ws[k]
    <3> HIDE DEF news
    <3>1. Cardinality(K) \in Nat
      BY <2>1, FilteredPicks
    <3>2. DOMAIN Filtered(ws, K) = 1 .. Cardinality(K)
      BY <2>1, FilteredPicks
    <3>3. \A m \in 1 .. Cardinality(K) : \E k \in K : Filtered(ws, K)[m] = ws[k]
      <4> DEFINE z == ws
      <4>1. K \subseteq DOMAIN z /\ K \subseteq Nat /\ IsFiniteSet(K)
        BY <2>1
      <4> HIDE DEF z
      <4>2. \A m \in 1 .. Cardinality(K) : \E k \in K : Filtered(z, K)[m] = z[k]
        BY <4>1, FilteredPicks
      <4> QED BY <4>2 DEF z
    <3> QED BY <3>1, <3>2, <3>3 DEF news
  <2>3. news = [m \in 1 .. Cardinality(K) |-> news[m]]
    BY <2>2 DEF Filtered, Placed
  <2> HIDE DEF news
  <2>4. \A m \in 1 .. Cardinality(K) : Message(news[m], time)
    BY <1>2, <2>1, <2>2
  <2>5. \A m \in 1 .. Cardinality(K) : news[m] \in Seq(Tab)
    BY <2>4 DEF Message
  <2>6. news \in [1 .. Cardinality(K) -> Seq(Tab)]
    BY <2>3, <2>5
  <2>7. news \in Seq(Seq(Tab)) /\ Len(news) = Cardinality(K)
    <3> DEFINE T == Seq(Tab)
               n == Cardinality(K)
    <3>1. news \in [1 .. n -> T] /\ n \in Nat
      BY <2>2, <2>6
    <3> HIDE DEF T, n
    <3>2. news \in Seq(T) /\ Len(news) = n
      BY <3>1
    <3> QED BY <3>2 DEF T, n
  <2> QED BY <2>4, <2>7
<1> HIDE DEF news, all, K
<1>5. ASSUME NEW v \in Windows
      PROVE  inbox'[v] \in Seq(Seq(Tab)) /\ \A k \in 1 .. Len(inbox'[v]) : Message(inbox'[v][k], time)
  <2> DEFINE b == inbox[v]
             T == Seq(Tab)
  <2>1. b \in Seq(T) /\ \A k \in 1 .. Len(b) : Message(b[k], time)
    BY DEF Messages
  <2>2. b \o news \in Seq(T) /\ \A k \in 1 .. Len(b \o news) : Message((b \o news)[k], time)
    <3>1. news \in Seq(T)
      BY <1>4
    <3> HIDE DEF b, T
    <3>2. /\ b \o news \in Seq(T) /\ Len(b \o news) = Len(b) + Len(news)
          /\ \A k \in 1 .. Len(b) : (b \o news)[k] = b[k]
          /\ \A k \in 1 .. Len(b) + Len(news) :
               k \notin 1 .. Len(b) =>
                 k - Len(b) \in 1 .. Len(news) /\ (b \o news)[k] = news[k - Len(b)]
      <4>1. b \in Seq(T) /\ news \in Seq(T)
        BY <2>1, <3>1
      <4> QED BY <4>1
    <3> QED BY <1>4, <2>1, <3>2
  <2>3. inbox'[v] = rest \/ inbox'[v] = b \o news \/ inbox'[v] = b
    BY <1>1
  <2> HIDE DEF b
  <2> QED BY <2>1, <2>2, <2>3
<1>6. inbox' \in [Windows -> Seq(Seq(Tab))]
  <2>1. DOMAIN inbox' = Windows /\ inbox' = [v \in Windows |-> inbox'[v]]
    BY <1>1
  <2> QED BY <1>5, <2>1
<1> QED BY <1>3, <1>5, <1>6 DEF Messages

LEMMA LaterMessages ==
  ASSUME IInv, NEW time \in Nat, now <= time, NEW beyond, over => beyond
  PROVE  /\ Messages(inbox, time) /\ Kept(stored, time, beyond)
         /\ \A v \in Windows : Window(tabs[v], next[v], time, beyond)
<1>1. now \in Nat
  BY SizesAssumption DEF IInv
<1>2. ASSUME NEW s \in Seq(Tab), InTime(s, now) PROVE InTime(s, time)
  BY <1>1, <1>2, LaterIsFine
<1>3. Messages(inbox, time)
  <2>1. \A v \in Windows : \A k \in 1 .. Len(inbox[v]) : Message(inbox[v][k], now)
    BY DEF IInv
  <2>2. \A v \in Windows : \A k \in 1 .. Len(inbox[v]) : Message(inbox[v][k], time)
    BY <1>2, <2>1 DEF Message
  <2> QED BY <2>2 DEF IInv, Messages
<1>4. Kept(stored, time, beyond)
  BY <1>2 DEF IInv, Kept
<1>5. ASSUME NEW v \in Windows PROVE Window(tabs[v], next[v], time, beyond)
  <2>1. Window(tabs[v], next[v], now, over)
    BY DEF IInv
  <2> QED BY <1>1, <2>1, LaterWindow
<1> QED BY <1>3, <1>4, <1>5

\* What one window's step leaves of the invariant to be shown.
Heeds(v, t) ==
  \/ Grow(tabs[v], t)
  \/ now' = now /\ inbox[v] # << >> /\ Merges(tabs[v], t, Head(inbox[v]))

Settled ==
  /\ ~over' => \A v \in Windows : Heeds(v, tabs'[v])
  /\ ~over' => \A v \in failed' \ failed : dialog[v] # 0 /\ tabs[v][1].id = dialog[v]

LEMMA WindowStep ==
  ASSUME IInv, NEW w \in Windows, now' \in 1 .. MaxActs, now <= now',
         over' \in BOOLEAN, over => over', NEW t, NEW n,
         tabs' = [tabs EXCEPT ![w] = t], next' = [next EXCEPT ![w] = n],
         Window(t, n, now', over'), ~over' => Heeds(w, t),
         Messages(inbox', now'), Kept(stored', now', over'),
         active' \in [Windows -> Nat \ {0}], editor' \in [Windows -> Texts],
         dialog' \in [Windows -> Nat], storedActive' \in Nat \ {0},
         failed' \subseteq {v \in Windows : tabs'[v] = << >>},
         ~over' => \A v \in failed' \ failed : dialog[v] # 0 /\ tabs[v][1].id = dialog[v]
  PROVE  IInv' /\ Settled
<1> USE SizesAssumption
<1>1. now' \in Nat
  OBVIOUS
<1>2. /\ tabs \in [Windows -> Seq(Tab)] /\ next \in [Windows -> Nat \ {0}]
      /\ \A v \in Windows : Window(tabs[v], next[v], now', over')
  <2>1. tabs \in [Windows -> Seq(Tab)] /\ next \in [Windows -> Nat \ {0}]
    BY DEF IInv
  <2>2. \A v \in Windows : Window(tabs[v], next[v], now', over')
    <3> DEFINE m == now'
               o == over'
    <3>1. m \in Nat /\ now <= m /\ (over => o)
      BY <1>1
    <3> HIDE DEF m, o
    <3>2. \A v \in Windows : Window(tabs[v], next[v], m, o)
      BY <3>1, LaterMessages
    <3> QED BY <3>2 DEF m, o
  <2> QED BY <2>1, <2>2
<1>3. t \in Seq(Tab) /\ n \in Nat \ {0}
  BY DEF Window
<1>4. tabs' \in [Windows -> Seq(Tab)] /\ next' \in [Windows -> Nat \ {0}]
  BY <1>2, <1>3
<1>5. \A v \in Windows : /\ tabs'[v] = IF v = w THEN t ELSE tabs[v]
                         /\ next'[v] = IF v = w THEN n ELSE next[v]
  BY <1>2
<1>6. \A v \in Windows : Window(tabs'[v], next'[v], now', over')
  BY <1>2, <1>5
<1>7. ASSUME ~over', NEW v \in Windows PROVE Heeds(v, tabs'[v])
  <2>1. Distinct(tabs[v]) /\ tabs[v] \in Seq(Tab)
    BY <1>2, <1>7 DEF Window
  <2>2. Heeds(v, tabs[v])
    BY <2>1, GrowsItself DEF Heeds
  <2>3. tabs'[v] = tabs[v] \/ (v = w /\ tabs'[v] = t)
    BY <1>5
  <2> HIDE DEF Heeds
  <2> QED BY <1>7, <2>2, <2>3
<1>8. failed' \subseteq {v \in Windows : ~Up(v)'}
  BY DEF Up
<1>9. IInv'
  BY <1>4, <1>6, <1>8 DEF IInv, Messages
<1> QED BY <1>7, <1>9 DEF Settled

-----------------------------------------------------------------------------
(* The handlers. *)

LEMMA ActFacts ==
  ASSUME IInv, Act
  PROVE  /\ now' \in 1 .. MaxActs /\ now' \in Nat /\ now \in Nat
         /\ now' = now + 1 /\ now = now' - 1 /\ now <= now'
BY SizesAssumption DEF IInv, Act

LEMMA WindowFacts ==
  ASSUME IInv, NEW w \in Windows
  PROVE  /\ tabs[w] \in Seq(Tab) /\ InTime(tabs[w], now)
         /\ next[w] \in Nat \ {0} /\ next[w] <= 1000 * now + 2
         /\ ~over => Distinct(tabs[w]) /\ NextIsNew(tabs[w], next[w])
BY DEF IInv, Window

\* The tabs of the window, at the time of an act.
LEMMA ActWindow ==
  ASSUME IInv, Act, NEW w \in Windows
  PROVE  /\ InTime(tabs[w], now') /\ Past(tabs[w], now')
         /\ next[w] <= 1000 * now' + 2 /\ next[w] + 1 <= 1000 * now' + 2
         /\ next[w] <= 1000 * now'
         /\ now' \in 1 .. MaxActs /\ now' \in Nat /\ now' \in 0 .. MaxActs
<1> DEFINE m == now'
<1>1. m \in 1 .. MaxActs /\ now \in Nat /\ m = now + 1 /\ m \in Nat
  BY ActFacts
<1>2. m \in 0 .. MaxActs
  BY <1>1, SizesAssumption
<1>3. next[w] \in Nat /\ next[w] <= 1000 * now + 2
  BY WindowFacts
<1>4. InTime(tabs[w], m)
  <2>1. now <= m
    BY <1>1
  <2> HIDE DEF m
  <2> QED BY <1>1, <2>1, WindowFacts, LaterIsFine
<1>5. next[w] <= 1000 * m /\ next[w] <= 1000 * m + 2 /\ next[w] + 1 <= 1000 * m + 2
  BY <1>1, <1>3
<1>6. Past(tabs[w], m)
  <2> SUFFICES ASSUME NEW k \in 1 .. Len(tabs[w]) PROVE tabs[w][k].lastModified < m
    BY DEF Past
  <2>1. tabs[w][k].lastModified \in Nat /\ tabs[w][k].lastModified <= now
    BY WindowFacts, TabOfSeq DEF InTime
  <2> HIDE DEF m
  <2> QED BY <1>1, <2>1
<1> QED BY <1>1, <1>2, <1>4, <1>5, <1>6

\* The states of the window's tabs that one render stores.
LEMMA StoredBySteps ==
  ASSUME NEW s, NEW t, NEW time, NEW beyond, NEW n, s # << >>, t # << >>,
         s \in Seq(Tab), InTime(s, time), ~beyond => Distinct(s),
         Window(t, n, time, beyond), NEW ws \in {<< >>, <<s>>, <<t>>, <<s, t>>}
  PROVE  /\ ws \in Seq(Seq(Tab))
         /\ \A k \in 1 .. Len(ws) : Message(ws[k], time) /\ Kept(ws[k], time, beyond)
<1>1. t \in Seq(Tab) /\ Message(t, time) /\ Kept(t, time, beyond)
  BY DEF Window, Message, Kept
<1>2. Message(s, time) /\ Kept(s, time, beyond)
  BY DEF Message, Kept
<1> DEFINE T == Seq(Tab)
<1>3. s \in T /\ t \in T
  BY <1>1
<1> HIDE DEF T
<1>4. ws \in Seq(T) /\ \A k \in 1 .. Len(ws) : ws[k] \in {s, t}
  <2>1. CASE ws = << >>
    BY <2>1
  <2>2. CASE ws = <<s>>
    BY <1>3, <2>2
  <2>3. CASE ws = <<t>>
    BY <1>3, <2>3
  <2>4. CASE ws = <<s, t>>
    BY <1>3, <2>4
  <2> QED BY <2>1, <2>2, <2>3, <2>4
<1> QED BY <1>1, <1>2, <1>4 DEF T

LEMMA RenderKeeps ==
  ASSUME IInv, NEW w \in Windows, Up(w), Act, over' \in BOOLEAN, over => over',
         NEW s \in Seq(Tab), s # << >>, InTime(s, now'),
         NEW n \in Nat \ {0}, n <= 1000 * now' + 2,
         ~over' => /\ Distinct(s) /\ Grow(tabs[w], s)
                   /\ Len(s) = Len(tabs[w]) => NextIsNew(s, n),
         NEW ws \in {<< >>, <<s>>}, NEW a \in Nat \ {0},
         Render(w, s, ws, a, n), dialog' \in [Windows -> Nat]
  PROVE  IInv' /\ Settled
<1>0. /\ now' \in 1 .. MaxActs /\ now' \in Nat /\ now <= now' /\ tabs[w] \in Seq(Tab)
  BY ActFacts DEF IInv
<1> DEFINE m == now'
           o == over'
           c == Counted(w, s, n)
           shows == a # active[w] /\ a \in Ids(s)
           v == Find(s, a).query
           t == IF shows THEN Edited(s, a, v) ELSE s
           xs == IF shows THEN ws \o <<t>> ELSE ws
<1>1. /\ tabs' = [tabs EXCEPT ![w] = t]
      /\ active' = [active EXCEPT ![w] = a]
      /\ editor' = [editor EXCEPT ![w] = IF shows THEN v ELSE @]
      /\ next' = [next EXCEPT ![w] = c]
      /\ storedActive' = IF a # active[w] THEN a ELSE storedActive
      /\ Store(w, xs, inbox[w])
      /\ failed' = failed
  BY DEF Render
<1>2. Window(s, c, m, o)
  <2>1. m \in Nat
    BY <1>0
  <2>2. InTime(s, m) /\ n <= 1000 * m + 2
    OBVIOUS
  <2>3. ~o => Distinct(s) /\ (Len(s) = Len(tabs[w]) => NextIsNew(s, n))
    OBVIOUS
  <2> HIDE DEF m, o, c
  <2>4. Window(s, Counted(w, s, n), m, o)
    BY <2>1, <2>2, <2>3, CountedKeeps
  <2> QED BY <2>4 DEF c
<1>3. v \in Texts \/ ~shows
  BY FindIsTab
<1>4. Window(t, c, m, o) /\ t # << >> /\ (~o => Grow(tabs[w], t))
  <2>1. CASE ~shows
    BY <1>2, <2>1
  <2>2. CASE shows
    <3>1. t = Edited(s, a, v) /\ v \in Texts
      BY <1>3, <2>2
    <3> DEFINE u == Edited(s, a, v)
    <3>2. /\ u \in Seq(Tab) /\ Len(u) = Len(s)
          /\ \A k \in 1 .. Len(s) : Stamps(s[k], u[k], m)
      <4> HIDE DEF v
      <4> QED BY <1>0, <3>1, EditedList
    <3> HIDE DEF u, c, v
    <3>3. m \in Nat
      BY <1>0
    <3>4. Window(u, c, m, o) /\ \A d : d \in Seq(Tab) /\ Past(d, m) /\ Grow(d, s) => Grow(d, u)
      <4> HIDE DEF m, o
      <4> QED BY <1>2, <3>2, <3>3, SameIds
    <3>5. u # << >>
      BY <3>2
    <3>6. Past(tabs[w], m)
      BY ActWindow
    <3> QED BY <1>0, <3>1, <3>4, <3>5, <3>6 DEF u
  <2> QED BY <2>1, <2>2
<1> HIDE DEF t, v, c
<1>5. xs \in {<< >>, <<s>>, <<t>>, <<s, t>>}
  <2>1. CASE ~shows
    BY <2>1
  <2>2. CASE shows /\ ws = << >>
    <3>1. << >> \o <<t>> = <<t>>
      OBVIOUS
    <3> QED BY <2>2, <3>1
  <2>3. CASE shows /\ ws = <<s>>
    <3>1. <<s>> \o <<t>> = <<s, t>>
      BY TwoElements
    <3> QED BY <2>3, <3>1
  <2> QED BY <2>1, <2>2, <2>3
<1>6. Messages(inbox, m) /\ Kept(stored, m, o)
  <2>1. m \in Nat /\ now <= m /\ (over => o)
    BY <1>0
  <2> HIDE DEF m, o
  <2> QED BY <2>1, LaterMessages
<1>7. /\ xs \in Seq(Seq(Tab))
      /\ \A k \in 1 .. Len(xs) : Message(xs[k], m) /\ Kept(xs[k], m, o)
  <2>1. InTime(s, m) /\ (~o => Distinct(s))
    OBVIOUS
  <2> HIDE DEF m, o, xs
  <2> QED BY <1>4, <1>5, <2>1, StoredBySteps
<1>8. Messages(inbox', m) /\ Kept(stored', m, o)
  <2>1. inbox[w] \in Seq(Seq(Tab)) /\ \A k \in 1 .. Len(inbox[w]) : Message(inbox[w][k], m)
    BY <1>6 DEF Messages
  <2> DEFINE rest == inbox[w]
  <2>2. rest \in Seq(Seq(Tab)) /\ (\A k \in 1 .. Len(rest) : Message(rest[k], m)) /\ Store(w, xs, rest)
    BY <1>1, <2>1
  <2> HIDE DEF m, o, xs, rest
  <2> QED BY <1>6, <1>7, <2>2, StoreKeeps
<1>9. /\ active' \in [Windows -> Nat \ {0}] /\ editor' \in [Windows -> Texts]
      /\ storedActive' \in Nat \ {0}
  BY <1>1, <1>3 DEF IInv
<1>10. failed' \subseteq {x \in Windows : tabs'[x] = << >>} /\ failed' \ failed = {}
  BY <1>1 DEF IInv, Up
<1> HIDE DEF m, o
<1>11. /\ now' \in 1 .. MaxActs /\ Window(t, c, now', over') /\ (~over' => Heeds(w, t))
       /\ Messages(inbox', now') /\ Kept(stored', now', over')
  BY <1>0, <1>4, <1>8 DEF m, o, Heeds
<1> QED BY <1>0, <1>1, <1>9, <1>10, <1>11, WindowStep

-----------------------------------------------------------------------------
(* Switching, renaming and adding. *)

LEMMA SwitchKeeps ==
  ASSUME IInv, NEW w \in Windows, NEW a \in Ids(tabs[w]), SwitchTab(w, a)
  PROVE  IInv' /\ Settled
<1>1. /\ Act /\ Render(w, tabs[w], << >>, a, next[w]) /\ dialog' = dialog /\ over' = over
  BY DEF SwitchTab
<1>2. /\ tabs[w] \in Seq(Tab) /\ next[w] \in Nat \ {0}
      /\ ~over => Distinct(tabs[w]) /\ NextIsNew(tabs[w], next[w]) /\ Grow(tabs[w], tabs[w])
  BY WindowFacts, GrowsItself
<1>3. InTime(tabs[w], now') /\ next[w] <= 1000 * now' + 2
  BY <1>1, ActWindow
<1>4. a \in Nat \ {0} /\ tabs[w] # << >>
  BY <1>2, IdsOfSeq
<1>5. dialog' \in [Windows -> Nat] /\ over \in BOOLEAN
  BY <1>1 DEF IInv
<1> QED BY <1>1, <1>2, <1>3, <1>4, <1>5, RenderKeeps DEF Up

LEMMA RenameKeeps ==
  ASSUME IInv, NEW w \in Windows, NEW i \in Ids(tabs[w]), RenameTab(w, i)
  PROVE  IInv' /\ Settled
<1> DEFINE s == [k \in DOMAIN tabs[w] |->
                   IF tabs[w][k].id = i THEN [tabs[w][k] EXCEPT !.name = now'] ELSE tabs[w][k]]
<1>1. /\ Act /\ Render(w, s, <<s>>, active[w], next[w]) /\ dialog' = dialog /\ over' = over
  BY DEF RenameTab
<1>2. /\ tabs[w] \in Seq(Tab) /\ next[w] \in Nat \ {0}
      /\ ~over => Distinct(tabs[w]) /\ NextIsNew(tabs[w], next[w]) /\ Grow(tabs[w], tabs[w])
  BY WindowFacts, GrowsItself
<1>3. InTime(tabs[w], now') /\ next[w] <= 1000 * now' + 2 /\ now' \in 1 .. MaxActs /\ now' \in Nat
  BY <1>1, ActWindow
<1>4. tabs[w] # << >>
  BY <1>2, IdsOfSeq
<1>5. /\ s \in Seq(Tab) /\ Len(s) = Len(tabs[w])
      /\ \A k \in 1 .. Len(tabs[w]) : Stamps(tabs[w][k], s[k], now')
  <2> DEFINE c == tabs[w]
             m == now'
  <2>1. /\ c \in Seq(Tab) /\ m \in 1 .. MaxActs
        /\ s = Renamed(c, i, m)
    BY <1>2, <1>3 DEF Renamed
  <2> HIDE DEF c, m, s
  <2>2. /\ s \in Seq(Tab) /\ Len(s) = Len(c)
        /\ \A k \in 1 .. Len(c) : Stamps(c[k], s[k], m)
    BY <2>1, RenamedList
  <2> QED BY <2>2 DEF c, m
<1> HIDE DEF s
<1>6. Window(tabs[w], next[w], now', over)
  BY <1>2, <1>3 DEF Window
<1>7. Window(s, next[w], now', over) /\ (~over => Grow(tabs[w], s))
  <2> DEFINE m == now'
             n == next[w]
  <2>1. Window(tabs[w], n, m, over) /\ m \in Nat
    BY <1>3, <1>6
  <2>2. Past(tabs[w], m) /\ \A k \in 1 .. Len(tabs[w]) : Stamps(tabs[w][k], s[k], m)
    BY <1>1, <1>5, ActWindow
  <2> HIDE DEF m, n
  <2>3. /\ Window(s, n, m, over)
        /\ \A c : c \in Seq(Tab) /\ Past(c, m) /\ Grow(c, tabs[w]) => Grow(c, s)
    BY <1>2, <1>5, <2>1, <2>2, SameIds
  <2> QED BY <1>2, <2>2, <2>3 DEF m, n
<1>8. s # << >>
  BY <1>2, <1>4, <1>5
<1>9. /\ dialog' \in [Windows -> Nat] /\ over \in BOOLEAN /\ active[w] \in Nat \ {0}
      /\ <<s>> \in {<< >>, <<s>>}
  BY <1>1 DEF IInv
<1>10. InTime(s, now') /\ (~over => Distinct(s) /\ NextIsNew(s, next[w]))
  BY <1>7 DEF Window
<1> QED BY <1>1, <1>2, <1>3, <1>4, <1>5, <1>7, <1>8, <1>9, <1>10, RenderKeeps DEF Up

LEMMA NewTabIs ==
  ASSUME NEW i \in Nat \ {0}, NEW q \in Texts, NEW m \in 0 .. MaxActs
  PROVE  NewTab(i, q, m) \in Tab /\ NewTab(i, q, m).id = i /\ NewTab(i, q, m).lastModified = m
<1>1. 0 \in 0 .. MaxActs
  BY SizesAssumption
<1> QED BY <1>1 DEF NewTab, Tab

\* A tab is added at the end, with the next id.
LEMMA AddKeeps ==
  ASSUME IInv, NEW w \in Windows, Up(w), Act, over' \in BOOLEAN, over => over',
         ~over' => Len(tabs[w]) < MaxTabs, NEW q \in Texts, NEW m \in {0, now'},
         NEW s, s = Append(tabs[w], NewTab(next[w], q, m)),
         Render(w, s, <<s>>, next[w], next[w] + 1), dialog' = dialog
  PROVE  IInv' /\ Settled
<1> DEFINE n == next[w]
           t == NewTab(n, q, m)
           time == now'
           later == over'
<1>1. /\ tabs[w] \in Seq(Tab) /\ n \in Nat \ {0} /\ Window(tabs[w], n, now, over)
      /\ over \in BOOLEAN
  BY WindowFacts DEF IInv
<1>2. /\ time \in Nat /\ time \in 0 .. MaxActs /\ n + 1 <= 1000 * time + 2
      /\ now \in Nat /\ now = time - 1 /\ m \in 0 .. MaxActs /\ m <= time
  BY ActWindow, ActFacts, SizesAssumption
<1>3. t \in Tab /\ t.id = n /\ t.lastModified = m
  <2> HIDE DEF n
  <2> QED BY <1>1, <1>2, NewTabIs
<1>4. s = Append(tabs[w], t)
  OBVIOUS
<1>5. ~later => ~over /\ Len(tabs[w]) < MaxTabs
  OBVIOUS
<1> HIDE DEF n, t, time, later
<1>6. /\ s \in Seq(Tab) /\ Len(s) = Len(tabs[w]) + 1 /\ s # << >>
      /\ InTime(s, time) /\ (~later => Distinct(s) /\ Grow(tabs[w], s))
  <2> DEFINE c == tabs[w]
             d == now
             u == Append(c, t)
             early == over
  <2>1. /\ c \in Seq(Tab) /\ d \in Nat /\ time \in Nat /\ d = time - 1
        /\ Window(c, n, d, early) /\ (~later => ~early /\ Len(c) < MaxTabs)
        /\ t \in Tab /\ t.id = n /\ t.lastModified <= time
    BY <1>1, <1>2, <1>3, <1>5
  <2>2. s = u
    BY <1>4
  <2> HIDE DEF c, d, early
  <2>3. /\ Append(c, t) \in Seq(Tab) /\ Len(Append(c, t)) = Len(c) + 1
        /\ Append(c, t) # << >> /\ InTime(Append(c, t), time)
        /\ ~later => Distinct(Append(c, t)) /\ Grow(c, Append(c, t))
    BY <2>1, LongerList
  <2> QED BY <2>2, <2>3 DEF c
<1>7. Len(s) # Len(tabs[w])
  BY <1>1, <1>6
<1>8. n + 1 \in Nat \ {0}
  BY <1>1
<1>9. <<s>> \in {<< >>, <<s>>} /\ dialog' \in [Windows -> Nat]
  BY DEF IInv
<1>10. /\ InTime(s, now') /\ next[w] + 1 <= 1000 * now' + 2 /\ next[w] + 1 \in Nat \ {0}
       /\ next[w] \in Nat \ {0} /\ (~over' => Distinct(s) /\ Grow(tabs[w], s))
  BY <1>1, <1>2, <1>6, <1>8 DEF time, later, n
<1> DEFINE nn == next[w] + 1
<1>11. /\ nn \in Nat \ {0} /\ nn <= 1000 * now' + 2
       /\ Render(w, s, <<s>>, next[w], nn)
  BY <1>10
<1> HIDE DEF nn
<1> QED BY <1>6, <1>7, <1>9, <1>10, <1>11, RenderKeeps

LEMMA TabAddKeeps ==
  ASSUME IInv, NEW w \in Windows, HandleTabAdd(w)
  PROVE  IInv' /\ Settled
<1> DEFINE s == Append(tabs[w], NewTab(next[w], {}, 0))
<1>1. /\ Up(w) /\ Len(tabs[w]) < MaxTabs /\ Act
      /\ Render(w, s, <<s>>, next[w], next[w] + 1) /\ dialog' = dialog /\ over' = over
  BY DEF HandleTabAdd
<1>2. {} \in Texts /\ over \in BOOLEAN
  BY DEF Texts, IInv
<1> QED BY <1>1, <1>2, AddKeeps

LEMMA OpenFileKeeps ==
  ASSUME IInv, NEW w \in Windows, HandleOpenFile(w)
  PROVE  IInv' /\ Settled
<1> DEFINE s == Append(tabs[w], NewTab(next[w], {now'}, now'))
<1>1. /\ Up(w) /\ Act
      /\ Render(w, s, <<s>>, next[w], next[w] + 1) /\ dialog' = dialog
      /\ over' = (over \/ Len(tabs[w]) >= MaxTabs)
  BY DEF HandleOpenFile
<1>2. {now'} \in Texts
  BY <1>1, ActFacts DEF Texts
<1>3. over \in BOOLEAN /\ Len(tabs[w]) \in Nat /\ MaxTabs \in Nat
  BY WindowFacts, SizesAssumption DEF IInv
<1>4. over' \in BOOLEAN /\ (over => over') /\ (~over' => Len(tabs[w]) < MaxTabs)
  <2> DEFINE n == Len(tabs[w])
             early == over
             later == over'
  <2>1. early \in BOOLEAN /\ n \in Nat /\ MaxTabs \in Nat
    BY <1>3
  <2>2. \/ n >= MaxTabs /\ later = TRUE
        \/ n < MaxTabs /\ later = early
    <3>1. CASE n >= MaxTabs
      BY <1>1, <3>1
    <3>2. CASE ~(n >= MaxTabs)
      <4>1. over' = over
        BY <1>1, <1>3, <3>2
      <4> QED BY <2>1, <3>2, <4>1
    <3> QED BY <3>1, <3>2
  <2> HIDE DEF n, early, later
  <2>3. later \in BOOLEAN /\ (early => later) /\ (~later => n < MaxTabs)
    BY <2>1, <2>2
  <2> QED BY <2>3 DEF n, early, later
<1> QED BY <1>1, <1>2, <1>4, AddKeeps

-----------------------------------------------------------------------------
(* Closing. *)

\* A window that stores one value.
LEMMA StoresOne ==
  ASSUME NEW w \in Windows, NEW s \in Seq(Tab), s # << >>, NEW time, NEW beyond,
         InTime(s, time), ~beyond => Distinct(s), NEW rest \in Seq(Seq(Tab)),
         \A k \in 1 .. Len(rest) : Message(rest[k], time),
         Messages(inbox, time), Kept(stored, time, beyond), Store(w, <<s>>, rest)
  PROVE  Messages(inbox', time) /\ Kept(stored', time, beyond)
<1> DEFINE ws == <<s>>
           T == Seq(Tab)
<1>1. s \in T
  OBVIOUS
<1>2. Message(s, time) /\ Kept(s, time, beyond)
  BY DEF Message, Kept
<1>3. ws \in Seq(T) /\ \A k \in 1 .. Len(ws) : ws[k] = s
  <2> HIDE DEF T
  <2> QED BY <1>1
<1>4. ws \in Seq(Seq(Tab)) /\ \A k \in 1 .. Len(ws) : Message(ws[k], time) /\ Kept(ws[k], time, beyond)
  BY <1>2, <1>3
<1>5. Store(w, ws, rest)
  OBVIOUS
<1> HIDE DEF ws, T
<1> QED BY <1>4, <1>5, StoreKeeps

\* A window that goes away.
LEMMA GoneKeeps ==
  ASSUME IInv, NEW w \in Windows, Act, over' = over,
         tabs' = [tabs EXCEPT ![w] = << >>], inbox' = [inbox EXCEPT ![w] = << >>],
         active' = active, editor' = editor, next' = next, stored' = stored,
         storedActive' = storedActive, dialog' \in [Windows -> Nat],
         failed' \subseteq failed \cup {w},
         ~over' => \A v \in failed' \ failed : dialog[v] # 0 /\ tabs[v][1].id = dialog[v]
  PROVE  IInv' /\ Settled
<1> DEFINE m == now'
           o == over'
           n == next[w]
           t == << >>
<1>1. /\ m \in 1 .. MaxActs /\ m \in Nat /\ now <= m /\ o \in BOOLEAN /\ (over => o)
      /\ n \in Nat \ {0} /\ n <= 1000 * m + 2
  <2>1. now' \in 1 .. MaxActs /\ now' \in Nat /\ now <= now'
    BY ActFacts
  <2>2. next[w] <= 1000 * now' + 2
    BY ActWindow
  <2>3. next[w] \in Nat \ {0} /\ over \in BOOLEAN
    BY DEF IInv
  <2> QED BY <2>1, <2>2, <2>3
<1>2. t \in Seq(Tab) /\ Len(t) = 0
  OBVIOUS
<1>3. Window(t, n, m, o) /\ Grow(tabs[w], t)
  <2> HIDE DEF m, o, n, t
  <2> QED BY <1>1, <1>2 DEF Window, Grow, InTime, Distinct, NextIsNew
<1>4. Messages(inbox, m) /\ Kept(stored, m, o)
  <2> HIDE DEF m, o
  <2> QED BY <1>1, LaterMessages
<1>5. Messages(inbox', m) /\ Kept(stored', m, o)
  <2>1. << >> \in Seq(Seq(Tab)) /\ Len(<< >>) = 0
    OBVIOUS
  <2>2. inbox' \in [Windows -> Seq(Seq(Tab))]
    BY <1>4, <2>1 DEF Messages
  <2>3. \A v \in Windows : inbox'[v] = IF v = w THEN << >> ELSE inbox[v]
    BY <1>4 DEF Messages
  <2>4. stored' = stored
    OBVIOUS
  <2> HIDE DEF m, o
  <2>5. \A v \in Windows : \A k \in 1 .. Len(inbox'[v]) : Message(inbox'[v][k], m)
    BY <1>4, <2>1, <2>3 DEF Messages
  <2> QED BY <1>4, <2>2, <2>4, <2>5 DEF Messages
<1>6. next' = [next EXCEPT ![w] = n]
  BY DEF IInv
<1>7. /\ active' \in [Windows -> Nat \ {0}] /\ editor' \in [Windows -> Texts]
      /\ storedActive' \in Nat \ {0}
  BY DEF IInv
<1>8. failed' \subseteq {x \in Windows : tabs'[x] = << >>}
  <2>1. \A x \in Windows : tabs'[x] = IF x = w THEN << >> ELSE tabs[x]
    BY DEF IInv
  <2> QED BY <2>1 DEF IInv, Up
<1>9. tabs' = [tabs EXCEPT ![w] = t] /\ (~over' => Heeds(w, t))
  BY <1>3 DEF Heeds
<1>10. /\ now' \in 1 .. MaxActs /\ now <= now' /\ over' \in BOOLEAN /\ (over => over')
       /\ Window(t, n, now', over') /\ Messages(inbox', now') /\ Kept(stored', now', over')
  BY <1>1, <1>3, <1>5
<1> HIDE DEF m, o, n, t
<1> QED BY <1>6, <1>7, <1>8, <1>9, <1>10, WindowStep

LEMMA CloseWindowKeeps ==
  ASSUME IInv, NEW w \in Windows, CloseWindow(w)
  PROVE  IInv' /\ Settled
<1>1. /\ Act /\ over' = over /\ tabs' = [tabs EXCEPT ![w] = << >>]
      /\ inbox' = [inbox EXCEPT ![w] = << >>] /\ active' = active /\ editor' = editor
      /\ next' = next /\ stored' = stored /\ storedActive' = storedActive
      /\ dialog' = dialog /\ failed' = failed
  BY DEF CloseWindow
<1>2. dialog' \in [Windows -> Nat] /\ failed' \subseteq failed \cup {w} /\ failed' \ failed = {}
  BY <1>1 DEF IInv
<1> QED BY <1>1, <1>2, GoneKeeps

\* Closing a tab: the window is lost only if all its tabs had the id.
LEMMA CloseTabKeeps ==
  ASSUME IInv, NEW w \in Windows, Up(w), Act, NEW i \in Nat, CloseTab(w, i), over' = over,
         dialog' \in [Windows -> Nat],
         Len(tabs[w]) > 1 \/ (dialog[w] # 0 /\ i = dialog[w])
  PROVE  IInv' /\ Settled
<1> DEFINE c == tabs[w]
           K == {k \in DOMAIN c : c[k].id # i}
           s == Filtered(c, K)
           nx == next[w]
           a == IF active[w] = i THEN s[1].id ELSE active[w]
           m == now'
           o == over'
<1>1. /\ c \in Seq(Tab) /\ c # << >> /\ DOMAIN c = 1 .. Len(c) /\ Len(c) \in Nat
      /\ nx \in Nat \ {0} /\ (~o => Distinct(c) /\ NextIsNew(c, nx))
  BY WindowFacts DEF Up
<1>2. InTime(c, m) /\ nx <= 1000 * m + 2
  BY ActWindow
<1>3. IF s = << >> THEN RenderNothing(w) ELSE Render(w, s, <<s>>, a, nx)
  BY DEF CloseTab
<1>4. K \subseteq DOMAIN c /\ K \subseteq Nat /\ IsFiniteSet(K)
  <2> DEFINE T == 1 .. Len(c)
             l == Len(c)
  <2>1. K \subseteq T /\ T \subseteq Nat /\ DOMAIN c = T
    BY <1>1
  <2>2. IsFiniteSet(T)
    <3>1. 1 \in Int /\ l \in Int
      BY <1>1
    <3> HIDE DEF l
    <3>2. IsFiniteSet(1 .. l)
      BY <3>1, FS_Interval
    <3> QED BY <3>2 DEF l
  <2> HIDE DEF K, T
  <2>3. K \in SUBSET T
    BY <2>1
  <2>4. IsFiniteSet(K)
    BY <2>2, <2>3, FS_Subset
  <2> QED BY <2>1, <2>4
<1>5. K = {} => /\ ~o => dialog[w] # 0 /\ c[1].id = dialog[w]
  <2> SUFFICES ASSUME K = {}, ~o PROVE dialog[w] # 0 /\ c[1].id = dialog[w]
    OBVIOUS
  <2>1. \A k \in 1 .. Len(c) : c[k].id = i
    BY <1>1
  <2>2. ~(Len(c) > 1)
    <3> SUFFICES ASSUME Len(c) > 1 PROVE FALSE
      OBVIOUS
    <3>1. 1 \in 1 .. Len(c) /\ 2 \in 1 .. Len(c)
      BY <1>1
    <3>2. c[1].id = c[2].id
      BY <2>1, <3>1
    <3> QED BY <1>1, <3>1, <3>2 DEF Distinct
  <2>3. 1 \in 1 .. Len(c)
    BY <1>1
  <2> QED BY <2>1, <2>2, <2>3
<1> DEFINE n == Cardinality(K)
<1> HIDE DEF K, o
<1>6. /\ n \in Nat /\ Picks(s, c, n) /\ DOMAIN s = 1 .. n
      /\ \A k \in 1 .. n : \E j \in K : s[k] = c[j]
  <2> HIDE DEF c
  <2> QED BY <1>4, FilteredPicks
<1> HIDE DEF s, n
<1>7. /\ s \in Seq(Tab) /\ Len(s) = n /\ InTime(s, m)
      /\ \A k \in 1 .. n : \E j \in 1 .. Len(c) : s[k] = c[j]
      /\ Distinct(c) => Distinct(s) /\ Grow(c, s)
  <2> HIDE DEF c, m
  <2> QED BY <1>1, <1>2, <1>6, PickedList
<1>8. CASE s = << >>
  <2>1. n = 0
    BY <1>7, <1>8
  <2>2. K = {}
    <3> HIDE DEF c
    <3> QED BY <1>4, <2>1, FS_EmptySet DEF n
  <2>3. /\ failed' = failed \cup {w} /\ tabs' = [tabs EXCEPT ![w] = << >>]
        /\ inbox' = [inbox EXCEPT ![w] = << >>] /\ active' = active /\ editor' = editor
        /\ next' = next /\ stored' = stored /\ storedActive' = storedActive
    BY <1>3, <1>8 DEF RenderNothing
  <2>4. ~over' => \A v \in failed' \ failed : dialog[v] # 0 /\ tabs[v][1].id = dialog[v]
    BY <1>5, <2>2, <2>3 DEF o
  <2>5. failed' \subseteq failed \cup {w}
    BY <2>3
  <2> QED BY <2>3, <2>4, <2>5, GoneKeeps
<1>9. CASE s # << >>
  <2>1. Render(w, s, <<s>>, a, nx)
    BY <1>3, <1>9
  <2>2. a \in Nat \ {0}
    <3>1. 1 \in 1 .. Len(s)
      BY <1>7, <1>9
    <3>2. s[1].id \in Nat \ {0}
      BY <1>7, <3>1, TabOfSeq
    <3>3. active[w] \in Nat \ {0}
      BY DEF IInv
    <3> QED BY <3>2, <3>3
  <2>3. ~over' => /\ Distinct(s) /\ Grow(tabs[w], s)
                  /\ Len(s) = Len(tabs[w]) => NextIsNew(s, nx)
    <3> SUFFICES ASSUME ~o
                 PROVE  Distinct(s) /\ Grow(c, s) /\ (Len(s) = Len(c) => NextIsNew(s, nx))
      BY DEF o
    <3>1. Distinct(s) /\ Grow(c, s)
      BY <1>1, <1>7
    <3>2. ASSUME Len(s) = Len(c) PROVE NextIsNew(s, nx)
      <4>1. NextIsNew(c, nx)
        BY <1>1
      <4> HIDE DEF c
      <4> QED BY <1>7, <3>2, <4>1 DEF NextIsNew
    <3> QED BY <3>1, <3>2
  <2>4. <<s>> \in {<< >>, <<s>>} /\ over \in BOOLEAN /\ over' \in BOOLEAN /\ (over => over')
    BY DEF IInv
  <2>5. InTime(s, now') /\ nx <= 1000 * now' + 2
    BY <1>2, <1>7
  <2> HIDE DEF a, nx
  <2> QED BY <1>1, <1>7, <1>9, <2>1, <2>2, <2>3, <2>4, <2>5, RenderKeeps
<1> QED BY <1>8, <1>9

LEMMA ShortcutKeeps ==
  ASSUME IInv, NEW w \in Windows, CloseShortcut(w)
  PROVE  IInv' /\ Settled
<1>1. /\ Act /\ Len(tabs[w]) > 1 /\ CloseTab(w, active[w]) /\ dialog' = dialog /\ over' = over
  BY DEF CloseShortcut
<1>2. Up(w)
  <2>1. Len(<< >>) = 0
    OBVIOUS
  <2> QED BY <1>1, <2>1 DEF Up
<1>3. active[w] \in Nat /\ dialog' \in [Windows -> Nat]
  BY <1>1 DEF IInv
<1> QED BY <1>1, <1>2, <1>3, CloseTabKeeps

LEMMA ConfirmKeeps ==
  ASSUME IInv, NEW w \in Windows, HandleConfirmCloseTab(w)
  PROVE  IInv' /\ Settled
<1>1. /\ Up(w) /\ Act /\ dialog[w] # 0 /\ CloseTab(w, dialog[w])
      /\ dialog' = [dialog EXCEPT ![w] = 0] /\ over' = over
  BY DEF HandleConfirmCloseTab
<1>2. dialog[w] \in Nat /\ dialog' \in [Windows -> Nat]
  BY <1>1 DEF IInv
<1> QED BY <1>1, <1>2, CloseTabKeeps

-----------------------------------------------------------------------------
(* Asking, typing, opening and receiving. *)

\* A step that leaves the tabs, the ids and the stored values alone.
LEMMA IdleKeeps ==
  ASSUME IInv, tabs' = tabs, next' = next, inbox' = inbox, stored' = stored, active' = active,
         editor' = editor, storedActive' = storedActive, failed' = failed, now' = now,
         over' = over, dialog' \in [Windows -> Nat]
  PROVE  IInv' /\ Settled
<1>1. IInv'
  BY DEF IInv, Up
<1>2. ASSUME ~over, NEW v \in Windows PROVE Heeds(v, tabs'[v])
  <2>1. Distinct(tabs[v]) /\ tabs[v] \in Seq(Tab)
    BY <1>2, WindowFacts
  <2>2. Grow(tabs[v], tabs[v])
    BY <2>1, GrowsItself
  <2> QED BY <2>2 DEF Heeds
<1> QED BY <1>1, <1>2 DEF Settled

LEMMA AskKeeps ==
  ASSUME IInv, NEW w \in Windows, NEW i \in Ids(tabs[w]), HandleTabClose(w, i)
  PROVE  IInv' /\ Settled
<1>1. i \in Nat
  <2>1. tabs[w] \in Seq(Tab)
    BY WindowFacts
  <2> QED BY <2>1, IdsOfSeq
<1>2. dialog' \in [Windows -> Nat]
  BY <1>1 DEF IInv, HandleTabClose
<1> QED BY <1>2, IdleKeeps DEF HandleTabClose

LEMMA CancelKeeps ==
  ASSUME IInv, NEW w \in Windows, HandleCancelCloseTab(w)
  PROVE  IInv' /\ Settled
<1>1. dialog' \in [Windows -> Nat]
  BY DEF IInv, HandleCancelCloseTab
<1> QED BY <1>1, IdleKeeps DEF HandleCancelCloseTab

LEMMA TypeKeeps ==
  ASSUME IInv, NEW w \in Windows, Type(w)
  PROVE  IInv' /\ Settled
<1> DEFINE q == editor[w] \cup {now'}
           c == tabs[w]
           s == Edited(c, active[w], q)
           nx == next[w]
           m == now'
           o == over'
<1>1. /\ Up(w) /\ Act /\ tabs' = [tabs EXCEPT ![w] = s]
      /\ editor' = [editor EXCEPT ![w] = q] /\ Store(w, <<s>>, inbox[w])
      /\ active' = active /\ next' = next /\ dialog' = dialog /\ failed' = failed
      /\ storedActive' = storedActive /\ over' = over
  BY DEF Type
<1>2. /\ m \in 1 .. MaxActs /\ m \in Nat /\ now <= m /\ o \in BOOLEAN /\ (over => o)
  BY <1>1, ActFacts DEF IInv
<1>3. q \in Texts
  <2>1. editor[w] \in Texts
    BY DEF IInv
  <2> HIDE DEF m
  <2> QED BY <1>2, <2>1 DEF Texts, m
<1>4. /\ c \in Seq(Tab) /\ c # << >> /\ InTime(c, m) /\ nx \in Nat \ {0} /\ nx <= 1000 * m + 2
      /\ (~o => Distinct(c) /\ NextIsNew(c, nx)) /\ Past(c, m)
  BY <1>1, WindowFacts, ActWindow DEF Up
<1>5. /\ s \in Seq(Tab) /\ Len(s) = Len(c)
      /\ \A k \in 1 .. Len(c) : Stamps(c[k], s[k], m)
  <2> HIDE DEF c, q
  <2> QED BY <1>2, <1>3, <1>4, EditedList
<1> HIDE DEF s, q
<1>6. Window(c, nx, m, o) /\ (~o => Grow(c, c))
  <2> HIDE DEF c, m, o, nx
  <2> QED BY <1>4, GrowsItself DEF Window
<1>7. Window(s, nx, m, o) /\ (~o => Grow(c, s)) /\ s # << >>
  <2> HIDE DEF c, m, o, nx
  <2>1. Window(s, nx, m, o) /\ \A d : d \in Seq(Tab) /\ Past(d, m) /\ Grow(d, c) => Grow(d, s)
    BY <1>2, <1>4, <1>5, <1>6, SameIds
  <2> QED BY <1>4, <1>5, <1>6, <2>1
<1>8. Messages(inbox', m) /\ Kept(stored', m, o)
  <2> DEFINE rest == inbox[w]
  <2>1. Store(w, <<s>>, rest)
    BY <1>1
  <2>2. Messages(inbox, m) /\ Kept(stored, m, o)
    <3> HIDE DEF m, o
    <3> QED BY <1>2, LaterMessages
  <2>3. rest \in Seq(Seq(Tab)) /\ \A k \in 1 .. Len(rest) : Message(rest[k], m)
    BY <2>2 DEF Messages
  <2>4. InTime(s, m) /\ (~o => Distinct(s))
    <3> HIDE DEF m, o, nx
    <3> QED BY <1>7 DEF Window
  <2> HIDE DEF m, o, rest
  <2> QED BY <1>5, <1>7, <2>1, <2>2, <2>3, <2>4, StoresOne
<1>9. next' = [next EXCEPT ![w] = nx]
  BY <1>1 DEF IInv
<1>10. /\ active' \in [Windows -> Nat \ {0}] /\ storedActive' \in Nat \ {0}
       /\ dialog' \in [Windows -> Nat] /\ editor' \in [Windows -> Texts]
  <2>1. editor' \in [Windows -> Texts]
    <3>1. editor \in [Windows -> Texts] /\ editor' = [editor EXCEPT ![w] = q]
      BY <1>1 DEF IInv
    <3> HIDE DEF m
    <3> QED BY <1>3, <3>1
  <2> QED BY <1>1, <2>1 DEF IInv
<1>11. failed' \subseteq {x \in Windows : tabs'[x] = << >>} /\ failed' \ failed = {}
  <2>1. \A x \in Windows : tabs'[x] = IF x = w THEN s ELSE tabs[x]
    BY <1>1 DEF IInv
  <2>2. w \notin failed
    BY <1>1 DEF IInv
  <2> QED BY <1>1, <2>1, <2>2 DEF IInv, Up
<1>12. /\ now' \in 1 .. MaxActs /\ now <= now' /\ over' \in BOOLEAN /\ (over => over')
       /\ Window(s, nx, now', over') /\ (~over' => Heeds(w, s))
       /\ Messages(inbox', now') /\ Kept(stored', now', over')
  BY <1>2, <1>7, <1>8 DEF Heeds
<1> HIDE DEF m, o, c, nx
<1> QED BY <1>1, <1>9, <1>10, <1>11, <1>12, WindowStep

\* The shared link or example opens as the only tab.
LEMMA CreateKeeps ==
  ASSUME IInv, NEW w \in Windows, CreateTabsWithQueries(w)
  PROVE  IInv' /\ Settled
<1> DEFINE i == 1000 * now'
           t == NewTab(i, {now'}, 0)
           s == <<t>>
           nx == i + 2
           c == tabs[w]
           m == now'
<1>1. /\ Up(w) /\ Act /\ Render(w, s, <<s>>, i, nx) /\ dialog' = dialog /\ over' = over
  BY DEF CreateTabsWithQueries
<1>2. /\ m \in 1 .. MaxActs /\ m \in Nat /\ now \in Nat /\ m = now + 1
      /\ i \in Nat \ {0} /\ nx \in Nat \ {0} /\ nx <= 1000 * m + 2 /\ i <= 1000 * m
      /\ 0 \in 0 .. MaxActs
  BY <1>1, ActFacts, SizesAssumption
<1>3. {m} \in Texts
  <2> HIDE DEF m
  <2> QED BY <1>2 DEF Texts
<1>4. t \in Tab /\ t.id = i /\ t.lastModified = 0
  <2> DEFINE q == {m}
  <2>1. q \in Texts /\ t = NewTab(i, q, 0)
    BY <1>3
  <2> HIDE DEF i, q, t
  <2> QED BY <1>2, <2>1, NewTabIs
<1>5. \A k \in 1 .. Len(c) : c[k].id <= 1000 * now /\ c[k].id < i
  <2>1. /\ c \in Seq(Tab) /\ InTime(c, now)
    BY WindowFacts
  <2> TAKE k \in 1 .. Len(c)
  <2>2. c[k].id \in Nat /\ c[k].id <= 1000 * now
    <3> HIDE DEF c
    <3> QED BY <2>1, TabOfSeq DEF InTime
  <2> QED BY <1>2, <2>2
<1> HIDE DEF t
<1>6. s \in Seq(Tab) /\ s # << >> /\ Len(s) = 1 /\ s[1] = t
  BY <1>4
<1>7. InTime(s, m) /\ Distinct(s) /\ NextIsNew(s, nx) /\ Grow(c, s)
  <2>1. \A k \in 1 .. Len(s) : k = 1 /\ s[k] = t
    BY <1>6
  <2>2. InTime(s, m)
    <3> HIDE DEF s
    <3> QED BY <1>2, <1>4, <2>1 DEF InTime
  <2>3. Distinct(s)
    <3> HIDE DEF s
    <3> QED BY <2>1 DEF Distinct
  <2>4. NextIsNew(s, nx)
    <3>1. i < nx
      BY <1>2
    <3> HIDE DEF s, nx, i
    <3> QED BY <1>4, <2>1, <3>1 DEF NextIsNew
  <2>5. Grow(c, s)
    <3> SUFFICES ASSUME NEW j \in 1 .. Len(c), NEW k \in 1 .. Len(s), c[j].id = s[k].id
                 PROVE  FALSE
      <4> HIDE DEF c, s
      <4> QED BY DEF Grow
    <3>1. c[j].id < i /\ s[k].id = i
      BY <1>4, <1>5, <2>1
    <3> HIDE DEF c, s, i
    <3>2. i \in Nat
      BY <1>2
    <3> QED BY <3>1, <3>2
  <2> QED BY <2>2, <2>3, <2>4, <2>5
<1>8. <<s>> \in {<< >>, <<s>>} /\ over' \in BOOLEAN /\ (over => over') /\ dialog' \in [Windows -> Nat]
  BY <1>1 DEF IInv
<1> HIDE DEF s, i, nx
<1> QED BY <1>1, <1>2, <1>6, <1>7, <1>8, RenderKeeps

LEMMA ReceiveKeeps ==
  ASSUME IInv, NEW w \in Windows, Receive(w)
  PROVE  IInv' /\ Settled
<1> DEFINE c == tabs[w]
           inc == Head(inbox[w])
           s == Capped(Merged(c, inc))
           nx == Counted(w, s, next[w])
           rest == Tail(inbox[w])
<1>1. /\ c # << >> /\ inbox[w] # << >>
      /\ tabs' = [tabs EXCEPT ![w] = s] /\ next' = [next EXCEPT ![w] = nx]
      /\ Store(w, <<s>>, rest) /\ active' = active /\ editor' = editor /\ dialog' = dialog
      /\ failed' = failed /\ storedActive' = storedActive /\ now' = now /\ over' = over
  <2>1. next \in [Windows -> Nat \ {0}]
    BY DEF IInv
  <2> QED BY <2>1 DEF Receive, Up
<1>2. /\ c \in Seq(Tab) /\ InTime(c, now) /\ next[w] \in Nat \ {0} /\ next[w] <= 1000 * now + 2
      /\ (~over => Distinct(c) /\ NextIsNew(c, next[w]))
  BY WindowFacts
<1>3. now \in 1 .. MaxActs /\ now \in Nat /\ over \in BOOLEAN
  BY SizesAssumption DEF IInv
<1>4. /\ Message(inc, now) /\ rest \in Seq(Seq(Tab))
      /\ \A k \in 1 .. Len(rest) : Message(rest[k], now)
  <2> DEFINE b == inbox[w]
             T == Seq(Tab)
  <2>1. b \in Seq(T) /\ b # << >> /\ \A k \in 1 .. Len(b) : Message(b[k], now)
    BY <1>1 DEF IInv
  <2> HIDE DEF b, T
  <2>2. /\ 1 \in 1 .. Len(b) /\ Head(b) = b[1] /\ Tail(b) \in Seq(T)
        /\ \A k \in 1 .. Len(Tail(b)) : k + 1 \in 1 .. Len(b) /\ Tail(b)[k] = b[k + 1]
    BY <2>1
  <2>3. Message(Head(b), now) /\ \A k \in 1 .. Len(Tail(b)) : Message(Tail(b)[k], now)
    BY <2>1, <2>2
  <2> QED BY <2>2, <2>3 DEF b, T
<1> HIDE DEF rest, inc
<1>5. /\ s \in Seq(Tab) /\ s # << >> /\ InTime(s, now) /\ Distinct(s)
      /\ Distinct(c) => Merges(c, s, inc)
      /\ Distinct(c) /\ NextIsNew(c, next[w]) /\ Len(s) = Len(c) => NextIsNew(s, next[w])
  <2> DEFINE n == next[w]
  <2>1. inc \in Seq(Tab) /\ InTime(inc, now) /\ s = Capped(Merged(c, inc))
    BY <1>4 DEF Message
  <2> HIDE DEF c, s, n
  <2>2. /\ s \in Seq(Tab) /\ s # << >> /\ InTime(s, now) /\ Distinct(s)
        /\ Distinct(c) => Merges(c, s, inc)
        /\ Distinct(c) /\ NextIsNew(c, n) /\ Len(s) = Len(c) => NextIsNew(s, n)
    BY <1>1, <1>2, <1>3, <2>1, MergeKeeps
  <2> QED BY <2>2 DEF n
<1> HIDE DEF s
<1>6. Window(s, nx, now, over) /\ (~over => Merges(c, s, inc))
  <2> DEFINE n == next[w]
  <2>1. /\ n \in Nat \ {0} /\ n <= 1000 * now + 2
        /\ ~over => Distinct(s) /\ (Len(s) = Len(tabs[w]) => NextIsNew(s, n))
    BY <1>2, <1>5
  <2> HIDE DEF n
  <2>2. Window(s, Counted(w, s, n), now, over)
    BY <1>3, <1>5, <2>1, CountedKeeps
  <2> QED BY <1>2, <1>5, <2>2 DEF n
<1>7. Messages(inbox', now) /\ Kept(stored', now, over)
  <2>1. Messages(inbox, now) /\ Kept(stored, now, over)
    BY DEF IInv, Messages
  <2> QED BY <1>1, <1>4, <1>5, <2>1, StoresOne
<1>8. /\ active' \in [Windows -> Nat \ {0}] /\ storedActive' \in Nat \ {0}
      /\ dialog' \in [Windows -> Nat] /\ editor' \in [Windows -> Texts]
  BY <1>1 DEF IInv
<1>9. failed' \subseteq {x \in Windows : tabs'[x] = << >>} /\ failed' \ failed = {}
  <2>1. \A x \in Windows : tabs'[x] = IF x = w THEN s ELSE tabs[x]
    BY <1>1 DEF IInv
  <2>2. w \notin failed
    BY <1>1 DEF IInv, Up
  <2> QED BY <1>1, <2>1, <2>2 DEF IInv, Up
<1>10. /\ now' \in 1 .. MaxActs /\ now <= now' /\ over' \in BOOLEAN /\ (over => over')
       /\ Window(s, nx, now', over') /\ (~over' => Heeds(w, s))
       /\ Messages(inbox', now') /\ Kept(stored', now', over')
  BY <1>1, <1>3, <1>6, <1>7 DEF Heeds, inc
<1> HIDE DEF nx
<1> QED BY <1>1, <1>8, <1>9, <1>10, WindowStep

LEMMA OpenKeeps ==
  ASSUME IInv, NEW w \in Windows, Open(w)
  PROVE  IInv' /\ Settled
<1> DEFINE s == IF stored = << >> THEN <<NewTab(1, {}, 0)>> ELSE stored
           nx == Max(Ids(s)) + 1
           m == now'
           o == over'
           q == IF storedActive \in Ids(s) THEN Find(s, storedActive).query ELSE s[1].query
<1>1. /\ tabs[w] = << >> /\ Act /\ tabs' = [tabs EXCEPT ![w] = s]
      /\ active' = [active EXCEPT ![w] = storedActive] /\ editor' = [editor EXCEPT ![w] = q]
      /\ next' = [next EXCEPT ![w] = nx] /\ dialog' = [dialog EXCEPT ![w] = 0]
      /\ failed' = failed \ {w} /\ Store(w, <<s>>, << >>)
      /\ storedActive' = storedActive /\ over' = over
  BY DEF Open, Up
<1>2. /\ m \in 1 .. MaxActs /\ m \in Nat /\ now <= m /\ o \in BOOLEAN /\ (over => o)
      /\ 0 \in 0 .. MaxActs
  BY <1>1, ActFacts, SizesAssumption DEF IInv
<1>3. Messages(inbox, m) /\ Kept(stored, m, o)
  <2> HIDE DEF m, o
  <2> QED BY <1>2, LaterMessages
<1>4. s \in Seq(Tab) /\ s # << >> /\ InTime(s, m) /\ (~o => Distinct(s))
  <2>1. CASE stored = << >>
    <3> DEFINE t == NewTab(1, {}, 0)
               u == <<t>>
    <3>1. {} \in Texts /\ 1 \in Nat \ {0}
      BY DEF Texts
    <3>2. t \in Tab /\ t.id = 1 /\ t.lastModified = 0
      BY <1>2, <3>1, NewTabIs
    <3> HIDE DEF t
    <3>3. u \in Seq(Tab) /\ u # << >> /\ \A k \in 1 .. Len(u) : k = 1 /\ u[k] = t
      BY <3>2
    <3>4. 1 <= 1000 * m /\ 0 <= m
      <4>1. m \in Nat /\ m >= 1
        BY <1>2, SizesAssumption
      <4> HIDE DEF m
      <4> QED BY <4>1
    <3>5. s = u
      BY <2>1 DEF t
    <3> HIDE DEF u, s, m
    <3>6. InTime(u, m) /\ Distinct(u)
      BY <3>2, <3>3, <3>4 DEF InTime, Distinct
    <3> QED BY <3>3, <3>5, <3>6
  <2>2. CASE stored # << >>
    <3>1. s = stored
      BY <2>2
    <3> HIDE DEF s, m, o
    <3> QED BY <1>3, <2>2, <3>1 DEF Kept
  <2> QED BY <2>1, <2>2
<1> HIDE DEF s
<1>5. Window(s, nx, m, o)
  <2> HIDE DEF m, o
  <2>1. /\ nx \in Nat \ {0} /\ nx <= 1000 * m + 2 /\ NextIsNew(s, nx)
    BY <1>2, <1>4, CountedIsNew
  <2> HIDE DEF nx
  <2> QED BY <1>4, <2>1 DEF Window
<1>6. Heeds(w, s)
  <2>1. Len(tabs[w]) = 0
    BY <1>1
  <2> QED BY <2>1 DEF Heeds, Grow
<1>7. Messages(inbox', m) /\ Kept(stored', m, o)
  <2> DEFINE rest == << >>
  <2>1. rest \in Seq(Seq(Tab)) /\ Len(rest) = 0 /\ Store(w, <<s>>, rest)
    BY <1>1
  <2>2. \A k \in 1 .. Len(rest) : Message(rest[k], m)
    BY <2>1
  <2> HIDE DEF m, o, rest
  <2> QED BY <1>3, <1>4, <2>1, <2>2, StoresOne
<1>8. q \in Texts
  <2>1. storedActive \in Ids(s) => Find(s, storedActive).query \in Texts
    BY <1>4, FindIsTab
  <2>2. s[1].query \in Texts
    <3>1. 1 \in 1 .. Len(s)
      BY <1>4
    <3> QED BY <1>4, <3>1, TabOfSeq
  <2> QED BY <2>1, <2>2
<1> HIDE DEF q
<1>9. /\ active' \in [Windows -> Nat \ {0}] /\ storedActive' \in Nat \ {0}
      /\ dialog' \in [Windows -> Nat] /\ editor' \in [Windows -> Texts]
  BY <1>1, <1>8 DEF IInv
<1>10. failed' \subseteq {x \in Windows : tabs'[x] = << >>} /\ failed' \ failed = {}
  <2>1. \A x \in Windows : tabs'[x] = IF x = w THEN s ELSE tabs[x]
    BY <1>1 DEF IInv
  <2> QED BY <1>1, <2>1 DEF IInv, Up
<1>11. /\ now' \in 1 .. MaxActs /\ now <= now' /\ over' \in BOOLEAN /\ (over => over')
       /\ Window(s, nx, now', over') /\ Messages(inbox', now') /\ Kept(stored', now', over')
  BY <1>2, <1>5, <1>7
<1> HIDE DEF m, o, nx
<1> QED BY <1>1, <1>6, <1>9, <1>10, <1>11, WindowStep

-----------------------------------------------------------------------------
(* The theorems. *)

LEMMA InitKeeps == Init => IInv
<1> SUFFICES ASSUME Init PROVE IInv
  OBVIOUS
<1> USE SizesAssumption
<1>1. 0 \in 0 .. MaxActs /\ 1 \in 0 .. MaxActs /\ {} \in Texts /\ now = 1 /\ now \in 1 .. MaxActs
  BY DEF Init, Texts
<1>2. /\ NewTab(1, {}, 0) \in Tab /\ NewTab(1, {}, 0).id = 1 /\ NewTab(1, {}, 0).lastModified = 0
      /\ NewTab(2, {}, 1) \in Tab /\ NewTab(2, {}, 1).id = 2 /\ NewTab(2, {}, 1).lastModified = 1
  BY <1>1, NewTabIs
<1>3. \/ stored = << >>
      \/ stored = <<NewTab(1, {}, 0)>>
      \/ stored = <<NewTab(1, {}, 0), NewTab(2, {}, 1)>>
  BY DEF Init, Saved
<1>4. /\ stored \in Seq(Tab) /\ InTime(stored, 1) /\ Distinct(stored)
      /\ Len(stored) \in Nat /\ (stored # << >> => Len(stored) \in Nat \ {0})
      /\ \A k \in 1 .. Len(stored) : stored[k].id < Len(stored) + 1
      /\ Len(stored) <= 2
  <2> DEFINE a == NewTab(1, {}, 0)
             b == NewTab(2, {}, 1)
  <2>1. a \in Tab /\ a.id = 1 /\ a.lastModified = 0 /\ b \in Tab /\ b.id = 2 /\ b.lastModified = 1
    BY <1>2
  <2>2. stored = << >> \/ stored = <<a>> \/ stored = <<a, b>>
    BY <1>3
  <2> HIDE DEF a, b
  <2>3. CASE stored = << >>
    BY <2>3 DEF InTime, Distinct
  <2>4. CASE stored = <<a>>
    BY <2>1, <2>4 DEF InTime, Distinct
  <2>5. CASE stored = <<a, b>>
    <3>1. stored \in Seq(Tab) /\ Len(stored) = 2 /\ stored[1] = a /\ stored[2] = b
      BY <2>1, <2>5
    <3>2. \A k \in 1 .. Len(stored) : k = 1 \/ k = 2
      BY <3>1
    <3> QED BY <2>1, <3>1, <3>2 DEF InTime, Distinct
  <2> QED BY <2>2, <2>3, <2>4, <2>5
<1>5. /\ tabs \in [Windows -> Seq(Tab)]
      /\ \A w \in Windows : tabs[w] = << >> \/ (tabs[w] = stored /\ stored # << >>)
  <2>1. << >> \in Seq(Tab) /\ stored \in Seq(Tab) /\ tabs \in [Windows -> {<< >>, stored}]
    BY <1>4 DEF Init
  <2> QED BY <2>1
<1>6. ASSUME NEW w \in Windows
      PROVE  /\ Window(tabs[w], next[w], 1, over) /\ active[w] \in Nat \ {0}
             /\ next[w] \in Nat \ {0}
  <2>1. CASE tabs[w] = << >>
    <3>1. next[w] = 2 /\ active[w] = 1 /\ Len(tabs[w]) = 0 /\ tabs[w] \in Seq(Tab)
      BY <2>1 DEF Init, Up
    <3> QED BY <3>1 DEF Window, InTime, Distinct, NextIsNew
  <2>2. CASE tabs[w] = stored /\ stored # << >>
    <3>1. next[w] = Len(stored) + 1 /\ active[w] = Len(stored)
      BY <2>2 DEF Init, Up
    <3> QED BY <1>4, <2>2, <3>1 DEF Window, NextIsNew
  <2> QED BY <1>5, <2>1, <2>2
<1>7. /\ inbox \in [Windows -> Seq(Seq(Tab))] /\ \A w \in Windows : Len(inbox[w]) = 0
  <2>1. << >> \in Seq(Seq(Tab)) /\ Len(<< >>) = 0 /\ inbox = [w \in Windows |-> << >>]
    BY DEF Init
  <2> QED BY <2>1
<1>8. \A w \in Windows : \A k \in 1 .. Len(inbox[w]) : Message(inbox[w][k], now)
  BY <1>7
<1>9. Kept(stored, now, over)
  BY <1>1, <1>4 DEF Kept
<1>10. storedActive \in Nat \ {0} /\ dialog \in [Windows -> Nat] /\ editor \in [Windows -> Texts]
       /\ failed = {} /\ over \in BOOLEAN
  <2>1. editor = [w \in Windows |-> {}] /\ editor \in [Windows -> Texts]
    BY <1>1 DEF Init
  <2>2. storedActive \in Nat \ {0}
    <3>1. storedActive = IF stored = << >> THEN 1 ELSE Len(stored)
      BY DEF Init
    <3>2. CASE stored = << >>
      BY <3>1, <3>2
    <3>3. CASE stored # << >>
      BY <1>4, <3>1, <3>3
    <3> QED BY <3>2, <3>3
  <2>3. dialog \in [Windows -> Nat] /\ failed = {} /\ over \in BOOLEAN
    BY DEF Init
  <2> QED BY <2>1, <2>2, <2>3
<1>11. next \in [Windows -> Nat \ {0}] /\ active \in [Windows -> Nat \ {0}]
  <2>1. next = [w \in Windows |-> next[w]] /\ active = [w \in Windows |-> active[w]]
    BY DEF Init
  <2> QED BY <1>6, <2>1
<1> QED BY <1>1, <1>5, <1>6, <1>7, <1>8, <1>9, <1>10, <1>11 DEF IInv

LEMMA StepKeeps == IInv /\ [Next]_vars => IInv' /\ Settled
<1> SUFFICES ASSUME IInv, [Next]_vars PROVE IInv' /\ Settled
  OBVIOUS
<1>1. CASE UNCHANGED vars
  <2>1. dialog' \in [Windows -> Nat]
    BY <1>1 DEF IInv, vars
  <2> QED BY <1>1, <2>1, IdleKeeps DEF vars
<1>2. ASSUME NEW w \in Windows, Open(w) PROVE IInv' /\ Settled
  BY <1>2, OpenKeeps
<1>3. ASSUME NEW w \in Windows, CloseWindow(w) PROVE IInv' /\ Settled
  BY <1>3, CloseWindowKeeps
<1>4. ASSUME NEW w \in Windows, Type(w) PROVE IInv' /\ Settled
  BY <1>4, TypeKeeps
<1>5. ASSUME NEW w \in Windows, HandleTabAdd(w) PROVE IInv' /\ Settled
  BY <1>5, TabAddKeeps
<1>6. ASSUME NEW w \in Windows, HandleOpenFile(w) PROVE IInv' /\ Settled
  BY <1>6, OpenFileKeeps
<1>7. ASSUME NEW w \in Windows, CreateTabsWithQueries(w) PROVE IInv' /\ Settled
  BY <1>7, CreateKeeps
<1>8. ASSUME NEW w \in Windows, CloseShortcut(w) PROVE IInv' /\ Settled
  BY <1>8, ShortcutKeeps
<1>9. ASSUME NEW w \in Windows, HandleConfirmCloseTab(w) PROVE IInv' /\ Settled
  BY <1>9, ConfirmKeeps
<1>10. ASSUME NEW w \in Windows, HandleCancelCloseTab(w) PROVE IInv' /\ Settled
  BY <1>10, CancelKeeps
<1>11. ASSUME NEW w \in Windows, Receive(w) PROVE IInv' /\ Settled
  BY <1>11, ReceiveKeeps
<1>12. ASSUME NEW w \in Windows, NEW i \in Ids(tabs[w]), SwitchTab(w, i) PROVE IInv' /\ Settled
  BY <1>12, SwitchKeeps
<1>13. ASSUME NEW w \in Windows, NEW i \in Ids(tabs[w]), RenameTab(w, i) PROVE IInv' /\ Settled
  BY <1>13, RenameKeeps
<1>14. ASSUME NEW w \in Windows, NEW i \in Ids(tabs[w]), HandleTabClose(w, i)
       PROVE IInv' /\ Settled
  BY <1>14, AskKeeps
<1> QED BY <1>1, <1>2, <1>3, <1>4, <1>5, <1>6, <1>7, <1>8, <1>9, <1>10, <1>11, <1>12, <1>13, <1>14
        DEF Next

LEMMA WellFormed == IInv => TabsWellFormed
<1> SUFFICES ASSUME IInv PROVE TabsWellFormed
  OBVIOUS
<1>1. ASSUME NEW w \in Windows
      PROVE  /\ Range(tabs[w]) \subseteq Tab /\ (Up(w) => Ids(tabs[w]) # {})
             /\ \A k \in DOMAIN inbox[w] : inbox[w][k] # << >>
             /\ ~over => IsInjective([k \in DOMAIN tabs[w] |-> tabs[w][k].id])
  <2> DEFINE s == tabs[w]
             b == inbox[w]
             T == Seq(Tab)
  <2>1. s \in Seq(Tab) /\ DOMAIN s = 1 .. Len(s) /\ (~over => Distinct(s)) /\ (Up(w) => s # << >>)
    BY WindowFacts DEF Up
  <2>2. b \in Seq(T) /\ \A k \in 1 .. Len(b) : Message(b[k], now)
    BY DEF IInv
  <2> HIDE DEF s, b, T
  <2>3. Range(s) \subseteq Tab
    BY <2>1 DEF Range
  <2>4. Up(w) => Ids(s) # {}
    BY <2>1, IdsOfSeq
  <2>5. \A k \in DOMAIN b : b[k] # << >>
    <3>1. DOMAIN b = 1 .. Len(b)
      BY <2>2
    <3> QED BY <2>2, <3>1 DEF Message
  <2>6. ~over => IsInjective([k \in DOMAIN s |-> s[k].id])
    <3> DEFINE f == [k \in DOMAIN s |-> s[k].id]
    <3>1. DOMAIN f = 1 .. Len(s) /\ \A k \in 1 .. Len(s) : f[k] = s[k].id
      BY <2>1
    <3> HIDE DEF f
    <3>2. ~over => IsInjective(f)
      BY <2>1, <3>1 DEF IsInjective, Distinct
    <3> QED BY <3>2 DEF f
  <2> QED BY <2>3, <2>4, <2>5, <2>6 DEF s, b
<1>2. TypeOK
  BY <1>1 DEF TypeOK, IInv
<1>3. UniqueIds
  BY <1>1 DEF UniqueIds
<1> QED BY <1>2, <1>3 DEF TabsWellFormed

LEMMA TypedSteps ==
  ASSUME IInv, IInv', Settled, ~over'
  PROVE  /\ \A w \in Windows : \A t \in Range(tabs[w]), u \in Range(tabs'[w]) :
              t.id = u.id => Later(t, u) \/ (u.lastModified = t.lastModified /\ TakenUnstamped(w, t.id))
         /\ \A w \in failed' \ failed : dialog[w] # 0 /\ tabs[w][1].id = dialog[w]
<1>1. ASSUME NEW w \in Windows, NEW t \in Range(tabs[w]), NEW u \in Range(tabs'[w]), t.id = u.id
      PROVE  Later(t, u) \/ (u.lastModified = t.lastModified /\ TakenUnstamped(w, t.id))
  <2> DEFINE s == tabs[w]
             r == tabs'[w]
  <2>1. s \in Seq(Tab) /\ r \in Seq(Tab) /\ t \in Range(s) /\ u \in Range(r)
    BY DEF IInv
  <2>5. \/ Grow(s, r)
        \/ now' = now /\ inbox[w] # << >> /\ Merges(s, r, Head(inbox[w]))
    BY DEF Settled, Heeds
  <2> HIDE DEF s, r
  <2>2. DOMAIN s = 1 .. Len(s) /\ DOMAIN r = 1 .. Len(r)
    BY <2>1
  <2>3. PICK j \in 1 .. Len(s) : t = s[j]
    BY <2>1, <2>2 DEF Range
  <2>4. PICK k \in 1 .. Len(r) : u = r[k]
    BY <2>1, <2>2 DEF Range
  <2>6. CASE Grow(s, r)
    BY <1>1, <2>3, <2>4, <2>6 DEF Grow
  <2>7. CASE now' = now /\ inbox[w] # << >> /\ Merges(s, r, Head(inbox[w]))
    <3>1. Follows(t, u, Head(inbox[w]))
      BY <1>1, <2>3, <2>4, <2>7 DEF Merges
    <3> QED BY <2>7, <3>1 DEF Follows, Unstamped, TakenUnstamped
  <2> QED BY <2>5, <2>6, <2>7
<1>2. \A w \in failed' \ failed : dialog[w] # 0 /\ tabs[w][1].id = dialog[w]
  BY DEF Settled
<1> QED BY <1>1, <1>2

\* The tabs, ids and stored values of all windows, whatever the other windows do:
\* what every handler relies on.
THEOREM InductiveInvariant == Spec => []IInv
<1>1. IInv /\ [Next]_vars => IInv'
  BY StepKeeps
<1> QED BY <1>1, InitKeeps, PTL DEF Spec

\* No two tabs of a window have the same id, though each window gives out the same
\* numbers and takes over the tabs of the others: useTabManager.ts, addTab and
\* handleStorageChange.  The excuse is a file opened beside MAX_TABS tabs.
THEOREM WindowsKeepTabs == Spec => []TabsWellFormed
BY InductiveInvariant, WellFormed, PTL

\* Whatever the users do and the windows merge, the text of a tab in a window gives way
\* only to one with a later stamp, unless handleStorageChange takes a copy without a
\* stamp; and a window loses its last tab only in the dialog of useUnsavedChangesDialog.ts.
THEOREM NewestIsKept == Spec => NoTabLost
<1> DEFINE Texted == ~over' => \A w \in Windows : \A t \in Range(tabs[w]), u \in Range(tabs'[w]) :
                       t.id = u.id =>
                         \/ u.lastModified > t.lastModified
                         \/ u.lastModified = t.lastModified /\ (u.query = t.query \/ TakenUnstamped(w, t.id))
           Asked == ~over' => \A w \in failed' \ failed : dialog[w] # 0 /\ tabs[w][1].id = dialog[w]
<1>1. IInv /\ [Next]_vars => Texted /\ Asked
  <2> SUFFICES ASSUME IInv, [Next]_vars PROVE Texted /\ Asked
    OBVIOUS
  <2>1. IInv' /\ Settled
    BY StepKeeps
  <2> QED BY <2>1, TypedSteps DEF Later
<1>2. IInv /\ [Next]_vars => [Texted]_vars
  BY <1>1
<1>3. IInv /\ [Next]_vars => [Asked]_vars
  BY <1>1
<1> HIDE DEF Texted, Asked
<1>4. Spec => [][Texted]_vars
  BY <1>2, InductiveInvariant, PTL DEF Spec
<1>5. Spec => [][Asked]_vars
  BY <1>3, InductiveInvariant, PTL DEF Spec
<1>6. NewestText <=> [][Texted]_vars
  BY DEF NewestText, TakenUnstamped, Texted
<1>7. LastTabByDialog <=> [][Asked]_vars
  BY DEF LastTabByDialog, Asked
<1> QED BY <1>4, <1>5, <1>6, <1>7 DEF NoTabLost

-----------------------------------------------------------------------------
(* Agreement. *)

\* A window that is up shows what is stored, or will hear of it last.
Heard(w) == Up(w) => tabs[w] = stored \/ (inbox[w] # << >> /\ Last(inbox[w]) = stored)
AllHeard == \A w \in Windows : Heard(w)

LEMMA FilteredNone == \A s : Filtered(s, {}) = << >>
<1>1. Cardinality({}) = 0
  BY FS_EmptySet
<1> QED BY <1>1 DEF Filtered, Placed

LEMMA FilteredOne == ASSUME NEW s, NEW n \in Nat PROVE Filtered(s, {n}) = <<s[n]>>
<1> DEFINE rank == [k \in {n} |-> Cardinality({j \in {n} : j < k}) + 1]
<1>1. {j \in {n} : j < n} = {} /\ Cardinality({}) = 0 /\ Cardinality({n}) = 1
  BY FS_EmptySet, FS_Singleton
<1>2. DOMAIN rank = {n} /\ rank[n] = 1
  BY <1>1
<1> DEFINE at(m) == CHOOSE k \in DOMAIN rank : rank[k] = m
<1>3. Filtered(s, {n}) = [m \in 1 .. 1 |-> s[at(m)]]
  BY <1>1 DEF Filtered, Placed
<1> HIDE DEF rank
<1>4. at(1) = n
  BY <1>2
<1> HIDE DEF at
<1> DEFINE f == Filtered(s, {n})
           g == <<s[n]>>
<1>5. /\ f = [m \in 1 .. 1 |-> f[m]] /\ f[1] = s[n] /\ \A m \in 1 .. 1 : m = 1
  <2>1. f = [m \in 1 .. 1 |-> s[at(m)]]
    BY <1>3
  <2> HIDE DEF f
  <2>2. f = [m \in 1 .. 1 |-> f[m]]
    BY <2>1
  <2>3. f[1] = s[at(1)]
    BY <2>1
  <2> QED BY <1>4, <2>2, <2>3
<1>6. /\ g = [m \in 1 .. 1 |-> g[m]] /\ g[1] = s[n]
  OBVIOUS
<1> HIDE DEF f, g
<1>7. f = g
  BY <1>5, <1>6
<1> QED BY <1>7 DEF f, g

LEMMA FilteredBoth == ASSUME NEW s PROVE Filtered(s, {1, 2}) = <<s[1], s[2]>>
<1> DEFINE rank == [k \in {1, 2} |-> Cardinality({j \in {1, 2} : j < k}) + 1]
<1>1. /\ {j \in {1, 2} : j < 1} = {} /\ {j \in {1, 2} : j < 2} = {1}
      /\ Cardinality({}) = 0 /\ Cardinality({1}) = 1
  <2>1. Cardinality({}) = 0
    BY FS_EmptySet
  <2>2. Cardinality({1}) = 1
    BY FS_Singleton
  <2> QED BY <2>1, <2>2
<1>2. Cardinality({1, 2}) = 2
  <2>1. {1, 2} = {1} \cup {2}
    OBVIOUS
  <2>2. IsFiniteSet({1}) /\ Cardinality({1}) = 1
    BY FS_Singleton
  <2>3. Cardinality({1} \cup {2}) = IF 2 \in {1} THEN 1 ELSE 1 + 1
    BY <2>2, FS_AddElement
  <2> QED BY <2>1, <2>3
<1>3. DOMAIN rank = {1, 2} /\ rank[1] = 1 /\ rank[2] = 2
  BY <1>1
<1> DEFINE at(m) == CHOOSE k \in DOMAIN rank : rank[k] = m
<1>4. Filtered(s, {1, 2}) = [m \in 1 .. 2 |-> s[at(m)]]
  BY <1>2 DEF Filtered, Placed
<1> HIDE DEF rank
<1>5. at(1) = 1 /\ at(2) = 2
  BY <1>3
<1> HIDE DEF at
<1> DEFINE f == Filtered(s, {1, 2})
           g == <<s[1], s[2]>>
<1>6. /\ f = [m \in 1 .. 2 |-> f[m]] /\ f[1] = s[1] /\ f[2] = s[2]
      /\ \A m \in 1 .. 2 : m = 1 \/ m = 2
  <2>1. f = [m \in 1 .. 2 |-> s[at(m)]]
    BY <1>4
  <2> HIDE DEF f
  <2>2. f = [m \in 1 .. 2 |-> f[m]]
    BY <2>1
  <2>3. f[1] = s[at(1)] /\ f[2] = s[at(2)]
    BY <2>1
  <2> QED BY <1>5, <2>2, <2>3
<1>7. /\ g = [m \in 1 .. 2 |-> g[m]] /\ g[1] = s[1] /\ g[2] = s[2]
  OBVIOUS
<1> HIDE DEF f, g
<1>8. f = g
  BY <1>6, <1>7
<1> QED BY <1>8 DEF f, g

LEMMA LastOfMore ==
  ASSUME NEW A, NEW b \in Seq(A), NEW s, NEW t
  PROVE  /\ b \o << >> = b
         /\ b \o <<t>> # << >> /\ Last(b \o <<t>>) = t
         /\ b \o <<s, t>> # << >> /\ Last(b \o <<s, t>>) = t
<1> DEFINE U == A \cup {s, t}
<1>1. b \in Seq(U) /\ <<t>> \in Seq(U) /\ <<s, t>> \in Seq(U) /\ Len(b) \in Nat
  OBVIOUS
<1>2. b \o << >> = b
  OBVIOUS
<1>3. /\ Len(b \o <<t>>) = Len(b) + 1 /\ (b \o <<t>>)[Len(b) + 1] = t
      /\ Len(b \o <<s, t>>) = Len(b) + 2 /\ (b \o <<s, t>>)[Len(b) + 2] = t
  BY <1>1
<1> QED BY <1>1, <1>2, <1>3 DEF Last

\* What is sent of the values ws ends in the last of them, or nothing new is stored.
Sends(w, s, t) ==
  /\ stored' = t
  /\ \E news \in {<< >>, <<t>>, <<s, t>>} :
       /\ news = << >> => t = stored
       /\ \A v \in Windows \ {w} : inbox'[v] = IF Up(v) THEN inbox[v] \o news ELSE inbox[v]

LEMMA NewsIs ==
  ASSUME NEW w, NEW s, NEW t, NEW ws \in {<<t>>, <<s, t>>}, NEW rest, Store(w, ws, rest)
  PROVE  Sends(w, s, t)
<1> DEFINE all == <<stored>> \o ws
           K == {k \in DOMAIN ws : ws[k] # all[k]}
<1>1. /\ stored' = Last(all)
      /\ inbox' = [v \in Windows |-> IF v = w THEN rest
                                     ELSE IF Up(v) THEN inbox[v] \o Filtered(ws, K) ELSE inbox[v]]
  BY DEF Store
<1>2. stored' = t /\ \/ Filtered(ws, K) = << >> /\ t = stored
                     \/ Filtered(ws, K) \in {<<t>>, <<s, t>>}
  <2>a. /\ Len(all) = Len(ws) + 1 /\ Len(ws) \in Nat /\ DOMAIN ws = 1 .. Len(ws)
        /\ all[1] = stored /\ \A k \in 1 .. Len(ws) : all[k + 1] = ws[k]
    <3> DEFINE A == {stored, s, t}
               x == <<stored>>
    <3>1. x \in Seq(A) /\ ws \in Seq(A) /\ Len(x) = 1 /\ x[1] = stored
      <4>1. x \in Seq(A) /\ Len(x) = 1 /\ x[1] = stored
        OBVIOUS
      <4>2. <<t>> \in Seq(A)
        OBVIOUS
      <4>3. <<s, t>> \in Seq(A)
        OBVIOUS
      <4> QED BY <4>1, <4>2, <4>3
    <3> HIDE DEF A, x
    <3>2. /\ Len(x \o ws) = Len(ws) + 1 /\ Len(ws) \in Nat /\ DOMAIN ws = 1 .. Len(ws)
          /\ (x \o ws)[1] = x[1] /\ \A k \in 1 .. Len(ws) : (x \o ws)[k + 1] = ws[k]
      <4>1. Len(x) = 1 /\ Len(ws) \in Nat /\ DOMAIN ws = 1 .. Len(ws)
        BY <3>1
      <4>2. /\ Len(x \o ws) = Len(x) + Len(ws)
            /\ \A i \in 1 .. Len(x) + Len(ws) : (x \o ws)[i] = IF i <= Len(x) THEN x[i] ELSE ws[i - Len(x)]
        BY <3>1, ConcatProperties
      <4>3. (x \o ws)[1] = x[1]
        BY <4>1, <4>2
      <4>4. ASSUME NEW k \in 1 .. Len(ws) PROVE (x \o ws)[k + 1] = ws[k]
        <5>1. k + 1 \in 1 .. Len(x) + Len(ws) /\ ~(k + 1 <= Len(x)) /\ k + 1 - Len(x) = k
          BY <4>1
        <5> QED BY <4>2, <5>1
      <4> QED BY <4>1, <4>2, <4>3, <4>4
    <3> QED BY <3>1, <3>2 DEF x
  <2>b. Last(all) = all[Len(ws) + 1]
    BY <2>a DEF Last
  <2> HIDE DEF all
  <2>1. CASE ws = <<t>>
    <3>1. Len(ws) = 1 /\ ws[1] = t
      BY <2>1
    <3>2. Last(all) = t /\ DOMAIN ws = {1} /\ all[1] = stored
      <4>1. 1 .. 1 = {1}
        OBVIOUS
      <4> QED BY <2>a, <2>b, <3>1, <4>1
    <3>3. (K = {} /\ t = stored) \/ K = {1}
      BY <3>1, <3>2
    <3> HIDE DEF K
    <3> QED BY <1>1, <3>1, <3>2, <3>3, FilteredNone, FilteredOne
  <2>2. CASE ws = <<s, t>>
    <3>1. Len(ws) = 2 /\ ws[1] = s /\ ws[2] = t
      BY <2>2
    <3>2. Last(all) = t /\ DOMAIN ws = {1, 2} /\ all[1] = stored /\ all[2] = s
      <4>1. 1 .. 2 = {1, 2}
        OBVIOUS
      <4>2. 1 \in 1 .. 2 /\ 2 \in 1 .. 2 /\ 1 + 1 = 2
        OBVIOUS
      <4> QED BY <2>a, <2>b, <3>1, <4>1, <4>2
    <3>3. (K = {} /\ t = stored) \/ (K = {1} /\ s = t) \/ K = {2} \/ K = {1, 2}
      BY <3>1, <3>2
    <3> HIDE DEF K
    <3>4. Filtered(ws, {1}) = <<s>> /\ Filtered(ws, {2}) = <<t>> /\ Filtered(ws, {1, 2}) = <<s, t>>
      BY <3>1, FilteredOne, FilteredBoth
    <3> QED BY <1>1, <3>2, <3>3, <3>4, FilteredNone
  <2> QED BY <2>1, <2>2
<1> HIDE DEF K, all
<1>3. PICK news : news = Filtered(ws, K)
  OBVIOUS
<1>4. \A v \in Windows \ {w} : inbox'[v] = IF Up(v) THEN inbox[v] \o news ELSE inbox[v]
  BY <1>1, <1>3
<1> QED BY <1>2, <1>3, <1>4 DEF Sends

LEMMA StoreHeard ==
  ASSUME IInv, AllHeard, NEW w \in Windows, NEW s, NEW t, NEW ws \in {<<t>>, <<s, t>>}, NEW rest,
         Store(w, ws, rest), tabs' = [tabs EXCEPT ![w] = t]
  PROVE  AllHeard'
<1> SUFFICES ASSUME NEW v \in Windows, Up(v)'
             PROVE  \/ tabs'[v] = stored'
                    \/ inbox'[v] # << >> /\ Last(inbox'[v]) = stored'
  BY DEF AllHeard, Heard
<1>1. Sends(w, s, t)
  BY NewsIs
<1>2. CASE v = w
  BY <1>1, <1>2 DEF IInv, Sends
<1>3. CASE v # w
  <2>1. tabs'[v] = tabs[v] /\ Up(v)
    BY <1>3 DEF IInv, Up
  <2>2. PICK news \in {<< >>, <<t>>, <<s, t>>} :
           (news = << >> => t = stored) /\ inbox'[v] = inbox[v] \o news
    BY <1>1, <1>3, <2>1 DEF Sends
  <2>3. inbox[v] \in Seq(Seq(Tab)) /\ Heard(v)
    BY DEF IInv, AllHeard
  <2>4. CASE news = << >>
    <3>1. inbox'[v] = inbox[v] /\ stored' = stored
      <4>1. inbox[v] \o << >> = inbox[v]
        BY <2>3, LastOfMore
      <4>2. stored' = stored
        BY <1>1, <2>2, <2>4 DEF Sends
      <4> QED BY <2>2, <2>4, <4>1, <4>2
    <3> QED BY <2>1, <2>3, <3>1 DEF Heard
  <2>5. CASE news # << >>
    <3>1. inbox'[v] # << >> /\ Last(inbox'[v]) = t
      <4>1. PICK b : b = inbox[v] /\ b \in Seq(Seq(Tab))
        BY <2>3
      <4>2. /\ b \o <<t>> # << >> /\ Last(b \o <<t>>) = t
            /\ b \o <<s, t>> # << >> /\ Last(b \o <<s, t>>) = t
        BY <4>1, LastOfMore
      <4>3. inbox'[v] = b \o <<t>> \/ inbox'[v] = b \o <<s, t>>
        BY <2>2, <2>5, <4>1
      <4> QED BY <4>2, <4>3
    <3> QED BY <1>1, <3>1 DEF Sends
  <2> QED BY <2>4, <2>5
<1> QED BY <1>2, <1>3

\* A window goes, or nothing is stored and sent.
LEMMA QuietHeard ==
  ASSUME AllHeard, NEW w \in Windows, stored' = stored,
         \A v \in Windows \ {w} : tabs'[v] = tabs[v] /\ inbox'[v] = inbox[v],
         \/ ~Up(w)'
         \/ tabs'[w] = tabs[w] /\ inbox'[w] = inbox[w]
  PROVE  AllHeard'
BY DEF AllHeard, Heard, Up

LEMMA RenderHeard ==
  ASSUME IInv, AllHeard, NEW w \in Windows, NEW s, NEW ws, NEW a, NEW n, Render(w, s, ws, a, n),
         ws = <<s>> \/ (ws = << >> /\ a # active[w] /\ a \in Ids(s))
  PROVE  AllHeard'
<1> DEFINE shows == a # active[w] /\ a \in Ids(s)
           v == Find(s, a).query
           t == IF shows THEN Edited(s, a, v) ELSE s
           xs == IF shows THEN ws \o <<t>> ELSE ws
<1>1. tabs' = [tabs EXCEPT ![w] = t] /\ Store(w, xs, inbox[w])
  BY DEF Render
<1>2. xs \in {<<t>>, <<s, t>>}
  <2>1. CASE ~shows
    BY <2>1
  <2>2. CASE shows /\ ws = << >>
    <3>1. << >> \o <<t>> = <<t>>
      OBVIOUS
    <3> QED BY <2>2, <3>1
  <2>3. CASE shows /\ ws = <<s>>
    <3>1. <<s>> \o <<t>> = <<s, t>>
      BY TwoElements
    <3> QED BY <2>3, <3>1
  <2> QED BY <2>1, <2>2, <2>3
<1> HIDE DEF xs, t
<1> QED BY <1>1, <1>2, StoreHeard

LEMMA CloseHeard ==
  ASSUME IInv, AllHeard, NEW w \in Windows, NEW i, CloseTab(w, i)
  PROVE  AllHeard'
<1> DEFINE s == Filtered(tabs[w], {k \in DOMAIN tabs[w] : tabs[w][k].id # i})
<1>1. CASE RenderNothing(w)
  BY <1>1, QuietHeard DEF RenderNothing, IInv, Up
<1>2. ASSUME NEW a, Render(w, s, <<s>>, a, next[w]) PROVE AllHeard'
  <2> HIDE DEF s
  <2> QED BY <1>2, RenderHeard
<1> QED BY <1>1, <1>2 DEF CloseTab

\* A window shows what is stored, or will hear of it last, after each step.
LEMMA HeardKept == IInv /\ AllHeard /\ [Next]_vars => AllHeard'
<1> SUFFICES ASSUME IInv, AllHeard, [Next]_vars PROVE AllHeard'
  OBVIOUS
<1>1. CASE UNCHANGED vars
  BY <1>1 DEF vars, AllHeard, Heard, Up
<1>2. ASSUME NEW w \in Windows, Open(w) PROVE AllHeard'
  <2>1. PICK s : Store(w, <<s>>, << >>) /\ tabs' = [tabs EXCEPT ![w] = s]
    BY <1>2 DEF Open
  <2> QED BY <2>1, StoreHeard
<1>3. ASSUME NEW w \in Windows, CloseWindow(w) PROVE AllHeard'
  BY <1>3, QuietHeard DEF CloseWindow, IInv, Up
<1>4. ASSUME NEW w \in Windows, Type(w) PROVE AllHeard'
  <2>1. PICK s : Store(w, <<s>>, inbox[w]) /\ tabs' = [tabs EXCEPT ![w] = s]
    BY <1>4 DEF Type
  <2> QED BY <2>1, StoreHeard
<1>5. ASSUME NEW w \in Windows, HandleTabAdd(w) PROVE AllHeard'
  BY <1>5, RenderHeard DEF HandleTabAdd
<1>6. ASSUME NEW w \in Windows, HandleOpenFile(w) PROVE AllHeard'
  BY <1>6, RenderHeard DEF HandleOpenFile
<1>7. ASSUME NEW w \in Windows, CreateTabsWithQueries(w) PROVE AllHeard'
  BY <1>7, RenderHeard DEF CreateTabsWithQueries
<1>8. ASSUME NEW w \in Windows, CloseShortcut(w) PROVE AllHeard'
  BY <1>8, CloseHeard DEF CloseShortcut
<1>9. ASSUME NEW w \in Windows, HandleConfirmCloseTab(w) PROVE AllHeard'
  BY <1>9, CloseHeard DEF HandleConfirmCloseTab
<1>10. ASSUME NEW w \in Windows, HandleCancelCloseTab(w) PROVE AllHeard'
  BY <1>10, QuietHeard DEF HandleCancelCloseTab
<1>11. ASSUME NEW w \in Windows, Receive(w) PROVE AllHeard'
  <2>1. PICK s : Store(w, <<s>>, Tail(inbox[w])) /\ tabs' = [tabs EXCEPT ![w] = s]
    BY <1>11 DEF Receive
  <2> QED BY <2>1, StoreHeard
<1>12. ASSUME NEW w \in Windows, NEW i \in Ids(tabs[w]), SwitchTab(w, i) PROVE AllHeard'
  <2>1. i # active[w] /\ Render(w, tabs[w], << >>, i, next[w])
    BY <1>12 DEF SwitchTab
  <2> QED BY <1>12, <2>1, RenderHeard
<1>13. ASSUME NEW w \in Windows, NEW i \in Ids(tabs[w]), RenameTab(w, i) PROVE AllHeard'
  BY <1>13, RenderHeard DEF RenameTab
<1>14. ASSUME NEW w \in Windows, NEW i \in Ids(tabs[w]), HandleTabClose(w, i) PROVE AllHeard'
  BY <1>14, QuietHeard DEF HandleTabClose
<1> QED BY <1>1, <1>2, <1>3, <1>4, <1>5, <1>6, <1>7, <1>8, <1>9, <1>10, <1>11, <1>12, <1>13, <1>14
        DEF Next

LEMMA HeardStart == Init => AllHeard
BY DEF Init, AllHeard, Heard, Up

LEMMA HeardAgree == AllHeard => CalmAgree
BY DEF AllHeard, Heard, CalmAgree, Quiet, Agree

\* Windows agree on the tabs, and on their order, whenever no storage event is under way,
\* for any number of windows and acts, also if users act while events are under way.
THEOREM WindowsAgree == Spec => []CalmAgree
<1>1. IInv /\ AllHeard /\ [Next]_vars => (IInv /\ AllHeard)'
  BY StepKeeps, HeardKept
<1>2. Init => IInv /\ AllHeard
  BY InitKeeps, HeardStart
<1> QED BY <1>1, <1>2, HeardAgree, PTL DEF Spec

-----------------------------------------------------------------------------
(* Uploads: what the values are, and the steps of one upload. *)

Engines == {"duckdb", "bigquery"}
Visible == {"reading", "registering", "listing"}
Phases == {"none", "picking", "done", "lost"} \cup Visible
Upload == [phase : Phases, files : Seq(Bat!Picked), at : Nat, got : Seq(Bat!Picked),
           before : Engines, cloud : BOOLEAN, drop : BOOLEAN]

\* An upload is at one of its files, and shows that it reads them when they were dropped.
UploadFits(u) ==
  /\ u.phase \in {"picking", "reading"} => u.at \in 1 .. Len(u.files)
  /\ u.phase \in {"registering", "listing"} => u.at \in 1 .. Len(u.got)
  /\ u.phase = "picking" => ~u.drop
  /\ u.phase = "reading" => u.drop

UploadTypes ==
  /\ http \in BOOLEAN /\ cloud \in BOOLEAN /\ uploading \in BOOLEAN
  /\ crossed \in BOOLEAN /\ together \in BOOLEAN
  /\ engine \in Engines /\ preferred \in Engines
  /\ progress \in [at : Nat, of : Nat]
  /\ uploads \in [Uploads -> Upload]
  /\ IsFiniteSet(handles)

EveryUploadFits == \A b \in Uploads : UploadFits(uploads[b])

\* Upload b goes on to another phase or file; the others stay.
Moved(b, phase, at, got) ==
  /\ uploads' \in [Uploads -> Upload]
  /\ \A c \in Uploads \ {b} : uploads'[c] = uploads[c]
  /\ uploads'[b].phase = phase /\ uploads'[b].at = at /\ uploads'[b].got = got
  /\ uploads'[b].files = uploads[b].files /\ uploads'[b].before = uploads[b].before
  /\ uploads'[b].cloud = uploads[b].cloud /\ uploads'[b].drop = uploads[b].drop

LEMMA MovedBy ==
  ASSUME uploads \in [Uploads -> Upload], NEW b \in Uploads, NEW phase \in Phases, NEW at \in Nat,
         NEW got \in Seq(Bat!Picked)
  PROVE  LET u == uploads[b]
         IN /\ uploads' = [uploads EXCEPT ![b].phase = phase] => Moved(b, phase, u.at, u.got)
            /\ uploads' = [uploads EXCEPT ![b].at = @ + 1, ![b].phase = phase]
                 => Moved(b, phase, u.at + 1, u.got)
            /\ uploads' = [uploads EXCEPT ![b].at = @ + 1, ![b].got = got]
                 => Moved(b, u.phase, u.at + 1, got)
            /\ uploads' = [uploads EXCEPT ![b].phase = phase, ![b].at = at, ![b].got = got]
                 => Moved(b, phase, at, got)
<1> DEFINE P == Seq(Bat!Picked)
<1>1. got \in P /\ Upload = [phase : Phases, files : P, at : Nat, got : P,
                             before : Engines, cloud : BOOLEAN, drop : BOOLEAN]
  BY DEF Upload
<1> HIDE DEF P
<1>2. uploads[b] \in Upload
  OBVIOUS
<1>3. uploads[b].at \in Nat /\ uploads[b].at + 1 \in Nat /\ uploads[b].got \in P /\ uploads[b].phase \in Phases
  BY <1>1, <1>2
<1>4. ASSUME uploads' = [uploads EXCEPT ![b].phase = phase] PROVE Moved(b, phase, uploads[b].at, uploads[b].got)
  BY <1>1, <1>2, <1>3, <1>4 DEF Moved
<1>5. ASSUME uploads' = [uploads EXCEPT ![b].at = @ + 1, ![b].phase = phase]
      PROVE  Moved(b, phase, uploads[b].at + 1, uploads[b].got)
  BY <1>1, <1>2, <1>3, <1>5 DEF Moved
<1>6. ASSUME uploads' = [uploads EXCEPT ![b].at = @ + 1, ![b].got = got]
      PROVE  Moved(b, uploads[b].phase, uploads[b].at + 1, got)
  BY <1>1, <1>2, <1>3, <1>6 DEF Moved
<1>7. ASSUME uploads' = [uploads EXCEPT ![b].phase = phase, ![b].at = at, ![b].got = got]
      PROVE  Moved(b, phase, at, got)
  BY <1>1, <1>2, <1>3, <1>7 DEF Moved
<1> QED BY <1>4, <1>5, <1>6, <1>7

\* The step of one upload, from the phases at which it may be.
ReadsOn(b, got) ==
  /\ uploads[b].phase \in {"picking", "reading"} /\ uploads[b].at + 1 \in 1 .. Len(uploads[b].files)
  /\ Moved(b, uploads[b].phase, uploads[b].at + 1, got)
  /\ \/ uploads[b].phase = "picking" /\ uploading' = uploading /\ progress' = progress
     \/ /\ uploads[b].phase = "reading" /\ uploading' = uploading
        /\ progress' = [at |-> uploads[b].at + 1, of |-> Len(uploads[b].files)]
  /\ engine' = engine

Registers(b, work) ==
  /\ uploads[b].phase \in {"picking", "reading"} /\ 1 \in 1 .. Len(work)
  /\ Moved(b, "registering", 1, work)
  /\ uploading' \in BOOLEAN /\ (uploading' <=> uploading \/ ~uploads[b].drop)
  /\ progress' = [at |-> 1, of |-> Len(work)]
  /\ engine' = IF uploads[b].before = "duckdb" THEN engine ELSE "duckdb"

Cleared == ~uploading' /\ progress' = [at |-> 0, of |-> 0]

EndsUnread(b, at, got) ==
  /\ uploads[b].phase \in {"picking", "reading"}
  /\ Moved(b, "done", at, got)
  /\ Cleared /\ uploading' \in BOOLEAN /\ engine' = engine

GoesOn(b) ==
  /\ uploads[b].phase \in {"registering", "listing"} /\ uploads[b].at + 1 \in 1 .. Len(uploads[b].got)
  /\ Moved(b, "registering", uploads[b].at + 1, uploads[b].got)
  /\ uploading' = uploading
  /\ progress' = [at |-> uploads[b].at + 1, of |-> Len(uploads[b].got)]
  /\ engine' = engine

Ends(b) ==
  /\ uploads[b].phase \in {"registering", "listing"} /\ uploads[b].at = Len(uploads[b].got)
  /\ Moved(b, "done", uploads[b].at, uploads[b].got)
  /\ Cleared /\ uploading' \in BOOLEAN
  /\ engine' = IF uploads[b].before = "bigquery" /\ uploads[b].cloud THEN "bigquery" ELSE engine

\* What of the files of b, of those read or not, is still to be answered.
ToldOf(b, unread, got, work) == told' = told \cup unread \cup (Bat!Names(got) \ Bat!Names(work))

LEMMA SameFilter == \A s, K : Bat!Filtered(s, K) = Filtered(s, K) /\ Sou!Filtered(s, K) = Filtered(s, K)
<1> SUFFICES ASSUME NEW s, NEW K
             PROVE  Bat!Filtered(s, K) = Filtered(s, K) /\ Sou!Filtered(s, K) = Filtered(s, K)
  OBVIOUS
<1>1. Bat!Filtered(s, K) = Filtered(s, K)
  BY Zenon DEF Bat!Filtered, Bat!Cardinality, Cardinality, Filtered, Placed
<1>2. Sou!Filtered(s, K) = Filtered(s, K)
  BY Zenon DEF Sou!Filtered, Sou!Cardinality, Cardinality, Filtered, Placed
<1> QED BY <1>1, <1>2

\* The cardinality that a module of the instances uses is that of every set.
LEMMA SameSize ==
  ASSUME NEW S
  PROVE  Bat!Cardinality(S) = Cardinality(S) /\ Sou!Cardinality(S) = Cardinality(S)
<1>1. Bat!Cardinality(S) = Cardinality(S)
  BY Zenon DEF Bat!Cardinality, Cardinality
<1>2. Sou!Cardinality(S) = Cardinality(S)
  BY Zenon DEF Sou!Cardinality, Cardinality
<1> QED BY <1>1, <1>2

LEMMA FilteredFiles ==
  ASSUME NEW got \in Seq(Bat!Picked), NEW K, K \subseteq DOMAIN got
  PROVE  Bat!Filtered(got, K) \in Seq(Bat!Picked)
<1> DEFINE P == Bat!Picked
           f == Filtered(got, K)
<1>1. Bat!Filtered(got, K) = f
  BY SameFilter
<1> HIDE DEF P
<1>2. /\ K \subseteq Nat /\ IsFiniteSet(K) /\ DOMAIN got = 1 .. Len(got) /\ Len(got) \in Nat
      /\ \A k \in DOMAIN got : got[k] \in P
  <2>1. got \in Seq(P)
    BY DEF P
  <2>2. DOMAIN got = 1 .. Len(got) /\ Len(got) \in Nat /\ \A k \in DOMAIN got : got[k] \in P
    BY <2>1
  <2>3. IsFiniteSet(1 .. Len(got))
    BY <2>2, FS_Interval
  <2> QED BY <2>2, <2>3, FS_Subset
<1>3. /\ Cardinality(K) \in Nat /\ DOMAIN f = 1 .. Cardinality(K)
      /\ \A m \in 1 .. Cardinality(K) : \E k \in K : f[m] = got[k]
  <2>1. K \subseteq DOMAIN got /\ K \subseteq Nat /\ IsFiniteSet(K)
    BY <1>2
  <2> QED BY <2>1, FilteredPicks
<1>4. f = [m \in 1 .. Cardinality(K) |-> f[m]]
  BY DEF Filtered, Placed
<1> HIDE DEF f
<1>5. \A m \in 1 .. Cardinality(K) : f[m] \in P
  BY <1>2, <1>3
<1>6. PICK n \in Nat : n = Cardinality(K)
  BY <1>3
<1>7. f \in Seq(P)
  BY <1>4, <1>5, <1>6
<1> QED BY <1>1, <1>7 DEF P

\* Reading a file leads to one of three steps.
LEMMA ReadLeads ==
  ASSUME UploadTypes, EveryUploadFits, NEW b \in Uploads, uploads[b].phase \in {"picking", "reading"},
         NEW got \in Seq(Bat!Picked), NEW unread, Bat!Read(b, got, unread)
  PROVE  \/ /\ ReadsOn(b, got) /\ told' = told \cup unread
         \/ /\ uploads[b].at = Len(uploads[b].files)
            /\ \E work \in Seq(Bat!Picked) :
                 /\ ToldOf(b, unread, got, work)
                 /\ \/ Registers(b, work)
                    \/ work = << >> /\ EndsUnread(b, uploads[b].at, uploads[b].got)
<1> DEFINE P == Seq(Bat!Picked)
<1>1. uploads[b] \in Upload /\ UploadFits(uploads[b]) /\ uploading \in BOOLEAN
  BY DEF UploadTypes, EveryUploadFits
<1>2. uploads[b].files \in P /\ uploads[b].at \in Nat /\ uploads[b].at \in 1 .. Len(uploads[b].files)
  BY <1>1 DEF Upload, UploadFits
<1>3. CASE uploads[b].at # Len(uploads[b].files)
  <2>1. /\ uploads' = [uploads EXCEPT ![b].at = @ + 1, ![b].got = got]
        /\ told' = told \cup unread /\ engine' = engine
        /\ IF uploads[b].drop THEN /\ uploading' = uploading
                                   /\ progress' = [at |-> uploads[b].at + 1, of |-> Len(uploads[b].files)]
           ELSE uploading' = uploading /\ progress' = progress
    BY <1>3 DEF Bat!Read, Bat!Show
  <2>2. Moved(b, uploads[b].phase, uploads[b].at + 1, got)
    BY <2>1, MovedBy DEF UploadTypes, Phases
  <2>3. uploads[b].at + 1 \in 1 .. Len(uploads[b].files)
    BY <1>2, <1>3
  <2>4. uploads[b].phase = IF uploads[b].drop THEN "reading" ELSE "picking"
    BY <1>1 DEF UploadFits
  <2> QED BY <2>1, <2>2, <2>3, <2>4 DEF ReadsOn
<1>4. CASE uploads[b].at = Len(uploads[b].files)
  <2> DEFINE K == {i \in DOMAIN got : got[i].path}
             work == IF http THEN Bat!Filtered(got, K) ELSE got
  <2>1. work \in P
    <3>1. K \subseteq DOMAIN got
      OBVIOUS
    <3> HIDE DEF K
    <3>2. Bat!Filtered(got, K) \in P
      BY <3>1, FilteredFiles
    <3> QED BY <3>2
  <2>2. /\ told' = told \cup unread \cup (Bat!Names(got) \ Bat!Names(work))
        /\ IF work = << >> THEN Bat!Ended(b) /\ engine' = engine
           ELSE /\ uploads' = [uploads EXCEPT ![b].phase = "registering", ![b].at = 1, ![b].got = work]
                /\ Bat!Show(uploading \/ ~uploads[b].drop, 1, Len(work))
                /\ engine' = IF uploads[b].before = "duckdb" THEN engine ELSE "duckdb"
    BY <1>4 DEF Bat!Read, Bat!Process
  <2> HIDE DEF work
  <2>3. ToldOf(b, unread, got, work)
    BY <2>2 DEF ToldOf
  <2>4. CASE work = << >>
    <3>1. uploads' = [uploads EXCEPT ![b].phase = "done"] /\ Cleared /\ uploading' = FALSE
      BY <2>2, <2>4 DEF Bat!Ended, Bat!Show, Cleared
    <3>2. Moved(b, "done", uploads[b].at, uploads[b].got)
      BY <3>1, MovedBy DEF UploadTypes, Phases
    <3> QED BY <1>4, <2>1, <2>2, <2>3, <2>4, <3>1, <3>2 DEF EndsUnread
  <2>5. CASE work # << >>
    <3>1. /\ uploads' = [uploads EXCEPT ![b].phase = "registering", ![b].at = 1, ![b].got = work]
          /\ progress' = [at |-> 1, of |-> Len(work)]
          /\ engine' = IF uploads[b].before = "duckdb" THEN engine ELSE "duckdb"
      BY <2>2, <2>5 DEF Bat!Show
    <3>2. uploading' = (uploading \/ ~uploads[b].drop)
      BY <2>2, <2>5 DEF Bat!Show
    <3>3. Moved(b, "registering", 1, work)
      BY <2>1, <3>1, MovedBy DEF UploadTypes, Phases, Visible
    <3>4. 1 \in 1 .. Len(work)
      BY <2>1, <2>5
    <3> QED BY <1>4, <2>1, <2>3, <3>1, <3>2, <3>3, <3>4 DEF Registers
  <2> QED BY <2>4, <2>5
<1> QED BY <1>3, <1>4

LEMMA NextLeads ==
  ASSUME UploadTypes, EveryUploadFits, NEW b \in Uploads, uploads[b].phase \in {"registering", "listing"},
         Bat!NextFile(b)
  PROVE  GoesOn(b) \/ Ends(b)
<1>1. uploads[b] \in Upload /\ UploadFits(uploads[b])
  BY DEF UploadTypes, EveryUploadFits
<1>2. uploads[b].at \in 1 .. Len(uploads[b].got) /\ uploads[b].got \in Seq(Bat!Picked) /\ uploads[b].at \in Nat
  BY <1>1 DEF Upload, UploadFits
<1>3. CASE uploads[b].at = Len(uploads[b].got)
  <2>1. /\ uploads' = [uploads EXCEPT ![b].phase = "done"] /\ Cleared /\ uploading' = FALSE
        /\ engine' = IF uploads[b].before = "bigquery" /\ uploads[b].cloud THEN "bigquery" ELSE engine
    BY <1>3 DEF Bat!NextFile, Bat!Ended, Bat!Show, Bat!EngineAfter, Cleared
  <2>2. Moved(b, "done", uploads[b].at, uploads[b].got)
    BY <1>2, <2>1, MovedBy DEF UploadTypes, Phases
  <2> QED BY <1>3, <2>1, <2>2 DEF Ends
<1>4. CASE uploads[b].at # Len(uploads[b].got)
  <2>1. /\ uploads' = [uploads EXCEPT ![b].at = @ + 1, ![b].phase = "registering"]
        /\ uploading' = uploading /\ engine' = engine
        /\ progress' = [at |-> uploads[b].at + 1, of |-> Len(uploads[b].got)]
    BY <1>4 DEF Bat!NextFile, Bat!Show
  <2>2. Moved(b, "registering", uploads[b].at + 1, uploads[b].got)
    BY <1>2, <2>1, MovedBy DEF UploadTypes, Phases, Visible
  <2>3. uploads[b].at + 1 \in 1 .. Len(uploads[b].got)
    BY <1>2, <1>4
  <2> QED BY <2>1, <2>2, <2>3 DEF GoesOn
<1> QED BY <1>3, <1>4

-----------------------------------------------------------------------------
(* Uploads: what is always so. *)

\* The engine is the one chosen, or DuckDB while an upload lists files that has to put
\* BigQuery back; and it can.
EngineHeld ==
  ~crossed =>
    /\ \A b \in Uploads : Bat!UnderWay(b) /\ uploads[b].before = "bigquery" =>
         uploads[b].cloud /\ preferred = "bigquery"
    /\ \/ engine = preferred
       \/ /\ preferred = "bigquery"
          /\ \E b \in Uploads : uploads[b].phase \in {"registering", "listing"} /\ uploads[b].before = "bigquery"

\* There is something to see only while an upload reads dropped files, or lists files.
DisplayFits ==
  /\ progress.at <= progress.of
  /\ (\A b \in Uploads : uploads[b].phase \notin Visible) => ~uploading /\ progress = [at |-> 0, of |-> 0]
  /\ ~together =>
       /\ \A b, c \in Uploads : Bat!UnderWay(b) /\ Bat!UnderWay(c) => b = c
       /\ \A b \in Uploads :
            /\ uploads[b].phase \in Visible => uploading
            /\ uploads[b].phase \in {"registering", "listing"} =>
                 progress = [at |-> uploads[b].at, of |-> Len(uploads[b].got)]

\* A step of the uploads or of the user keeps all of it.
UploadsKept == UploadTypes' /\ EveryUploadFits' /\ EngineHeld' /\ DisplayFits'

UploadsHold == UploadTypes /\ EveryUploadFits /\ EngineHeld /\ DisplayFits

Still == /\ http' = http /\ cloud' = cloud /\ crossed' = crossed /\ together' = together
         /\ preferred' = preferred /\ IsFiniteSet(handles)'

LEMMA ReadsOnKeeps ==
  ASSUME UploadsHold, Still, NEW b \in Uploads, NEW got \in Seq(Bat!Picked), ReadsOn(b, got)
  PROVE  UploadsKept
<1>1. uploads[b] \in Upload /\ UploadFits(uploads[b])
  BY DEF UploadsHold, UploadTypes, EveryUploadFits
<1>2. PICK n \in Nat : n = Len(uploads[b].files)
  BY <1>1 DEF Upload
<1>3. PICK a \in Nat : a = uploads[b].at
  BY <1>1 DEF Upload
<1>4. UploadTypes'
  BY <1>2, <1>3 DEF UploadsHold, Still, ReadsOn, Moved, UploadTypes
<1>5. EveryUploadFits'
  BY <1>1 DEF UploadsHold, EveryUploadFits, UploadFits, ReadsOn, Moved
<1>6. EngineHeld'
  BY DEF UploadsHold, EngineHeld, Still, ReadsOn, Moved, Bat!UnderWay
<1>7. DisplayFits'
  <2>1. progress'.at <= progress'.of
    BY <1>2, <1>3 DEF UploadsHold, DisplayFits, ReadsOn
  <2>2. ASSUME \A c \in Uploads : uploads'[c].phase \notin Visible
        PROVE  ~uploading' /\ progress' = [at |-> 0, of |-> 0]
    <3>1. \A c \in Uploads : uploads[c].phase \notin Visible
      BY <2>2 DEF ReadsOn, Moved
    <3>2. uploads[b].phase # "reading"
      BY <3>1 DEF Visible
    <3> QED BY <1>1, <3>1, <3>2 DEF UploadsHold, DisplayFits, ReadsOn, UploadFits
  <2>3. ASSUME ~together'
        PROVE  \A c, d \in Uploads : Bat!UnderWay(c)' /\ Bat!UnderWay(d)' => c = d
    BY <2>3 DEF UploadsHold, DisplayFits, Still, ReadsOn, Moved, Bat!UnderWay
  <2>4. ASSUME ~together', NEW c \in Uploads
        PROVE  /\ uploads'[c].phase \in Visible => uploading'
               /\ uploads'[c].phase \in {"registering", "listing"} =>
                    progress' = [at |-> uploads'[c].at, of |-> Len(uploads'[c].got)]
    <3>1. uploading' = uploading /\ uploads'[c].phase = uploads[c].phase
      BY DEF ReadsOn, Moved
    <3>2. uploads'[c].phase \notin {"registering", "listing"}
      <4>1. c # b => ~Bat!UnderWay(c)
        BY <2>4 DEF UploadsHold, DisplayFits, Still, ReadsOn, Bat!UnderWay
      <4> QED BY <3>1, <4>1 DEF ReadsOn, Bat!UnderWay
    <3> QED BY <2>4, <3>1, <3>2 DEF UploadsHold, DisplayFits, Still
  <2> QED BY <2>1, <2>2, <2>3, <2>4 DEF DisplayFits
<1> QED BY <1>4, <1>5, <1>6, <1>7 DEF UploadsKept

LEMMA RegistersKeeps ==
  ASSUME UploadsHold, Still, NEW b \in Uploads, NEW work \in Seq(Bat!Picked), Registers(b, work)
  PROVE  UploadsKept
<1>1. uploads[b] \in Upload /\ UploadFits(uploads[b])
  BY DEF UploadsHold, UploadTypes, EveryUploadFits
<1>2. PICK n \in Nat : n = Len(work)
  OBVIOUS
<1>4. UploadTypes'
  BY <1>2 DEF UploadsHold, Still, Registers, Moved, UploadTypes, Engines
<1>5. EveryUploadFits'
  BY <1>1 DEF UploadsHold, EveryUploadFits, UploadFits, Registers, Moved
<1>6. EngineHeld'
  <2> SUFFICES ASSUME ~crossed' PROVE EngineHeld'
    BY DEF EngineHeld
  <2>1. \A c \in Uploads : Bat!UnderWay(c)' /\ uploads'[c].before = "bigquery" =>
          uploads'[c].cloud /\ preferred' = "bigquery"
    BY DEF UploadsHold, EngineHeld, Still, Registers, Moved, Bat!UnderWay
  <2>2. CASE uploads[b].before = "bigquery"
    BY <2>1, <2>2 DEF EngineHeld, Registers, Moved, Bat!UnderWay
  <2>3. CASE uploads[b].before # "bigquery"
    <3>1. uploads[b].before = "duckdb"
      BY <1>1, <2>3 DEF Upload, Engines
    <3>2. engine' = engine
      BY <3>1 DEF Registers
    <3> QED BY <2>1, <3>2 DEF UploadsHold, EngineHeld, Still, Registers, Moved
  <2> QED BY <2>2, <2>3
<1>7. DisplayFits'
  <2>1. progress'.at <= progress'.of
    BY <1>2 DEF Registers
  <2>2. uploads'[b].phase \in Visible
    BY DEF Registers, Moved, Visible
  <2>3. ASSUME ~together'
        PROVE  \A c, d \in Uploads : Bat!UnderWay(c)' /\ Bat!UnderWay(d)' => c = d
    BY <2>3 DEF UploadsHold, DisplayFits, Still, Registers, Moved, Bat!UnderWay
  <2>4. ASSUME ~together', NEW c \in Uploads
        PROVE  /\ uploads'[c].phase \in Visible => uploading'
               /\ uploads'[c].phase \in {"registering", "listing"} =>
                    progress' = [at |-> uploads'[c].at, of |-> Len(uploads'[c].got)]
    <3>1. CASE c = b
      <4>1. uploading'
        <5>1. uploads[b].drop => uploads[b].phase = "reading"
          BY <1>1 DEF UploadFits, Registers
        <5>2. uploads[b].drop => uploading
          BY <2>4, <5>1 DEF UploadsHold, DisplayFits, Still, Visible
        <5> QED BY <5>2 DEF Registers
      <4> QED BY <3>1, <4>1 DEF Registers, Moved
    <3>2. CASE c # b
      <4>1. ~Bat!UnderWay(c)
        BY <2>4, <3>2 DEF UploadsHold, DisplayFits, Still, Registers, Bat!UnderWay
      <4>2. uploads'[c] = uploads[c]
        BY <3>2 DEF Registers, Moved
      <4> QED BY <4>1, <4>2 DEF Bat!UnderWay, Visible
    <3> QED BY <3>1, <3>2
  <2> QED BY <2>1, <2>2, <2>3, <2>4 DEF DisplayFits
<1> QED BY <1>4, <1>5, <1>6, <1>7 DEF UploadsKept

LEMMA GoesOnKeeps ==
  ASSUME UploadsHold, Still, NEW b \in Uploads, GoesOn(b)
  PROVE  UploadsKept
<1>1. uploads[b] \in Upload /\ UploadFits(uploads[b])
  BY DEF UploadsHold, UploadTypes, EveryUploadFits
<1>2. PICK n \in Nat : n = Len(uploads[b].got)
  BY <1>1 DEF Upload
<1>3. PICK a \in Nat : a = uploads[b].at
  BY <1>1 DEF Upload
<1>4. UploadTypes'
  BY <1>2, <1>3 DEF UploadsHold, Still, GoesOn, Moved, UploadTypes
<1>5. EveryUploadFits'
  BY <1>1 DEF UploadsHold, EveryUploadFits, UploadFits, GoesOn, Moved
<1>6. EngineHeld'
  BY DEF UploadsHold, EngineHeld, Still, GoesOn, Moved, Bat!UnderWay
<1>7. DisplayFits'
  <2>1. progress'.at <= progress'.of
    BY <1>2, <1>3 DEF GoesOn
  <2>2. uploads'[b].phase \in Visible
    BY DEF GoesOn, Moved, Visible
  <2>3. ASSUME ~together'
        PROVE  \A c, d \in Uploads : Bat!UnderWay(c)' /\ Bat!UnderWay(d)' => c = d
    BY <2>3 DEF UploadsHold, DisplayFits, Still, GoesOn, Moved, Bat!UnderWay
  <2>4. ASSUME ~together', NEW c \in Uploads
        PROVE  /\ uploads'[c].phase \in Visible => uploading'
               /\ uploads'[c].phase \in {"registering", "listing"} =>
                    progress' = [at |-> uploads'[c].at, of |-> Len(uploads'[c].got)]
    <3>1. CASE c = b
      BY <2>4, <3>1 DEF UploadsHold, DisplayFits, Still, GoesOn, Moved, Visible
    <3>2. CASE c # b
      <4>1. ~Bat!UnderWay(c)
        BY <2>4, <3>2 DEF UploadsHold, DisplayFits, Still, GoesOn, Bat!UnderWay
      <4>2. uploads'[c] = uploads[c]
        BY <3>2 DEF GoesOn, Moved
      <4> QED BY <4>1, <4>2 DEF Bat!UnderWay, Visible
    <3> QED BY <3>1, <3>2
  <2> QED BY <2>1, <2>2, <2>3, <2>4 DEF DisplayFits
<1> QED BY <1>4, <1>5, <1>6, <1>7 DEF UploadsKept

\* The other uploads, if there is no second one, show nothing.
LEMMA ClearedFits ==
  ASSUME UploadsHold, Still, NEW b \in Uploads, NEW at, NEW got, Bat!UnderWay(b), Moved(b, "done", at, got),
         Cleared
  PROVE  DisplayFits'
<1>1. progress'.at <= progress'.of
  BY DEF Cleared
<1>2. ASSUME ~together'
      PROVE  \A c \in Uploads : ~Bat!UnderWay(c)'
  BY <1>2 DEF UploadsHold, DisplayFits, Still, Moved, Bat!UnderWay
<1>3. \A c \in Uploads : uploads'[c].phase \in Visible => Bat!UnderWay(c)'
  BY DEF Visible, Bat!UnderWay
<1> QED BY <1>1, <1>2, <1>3 DEF DisplayFits, Cleared, Visible

LEMMA EndsUnreadKeeps ==
  ASSUME UploadsHold, Still, NEW b \in Uploads, EndsUnread(b, uploads[b].at, uploads[b].got)
  PROVE  UploadsKept
<1>1. uploads[b] \in Upload /\ UploadFits(uploads[b])
  BY DEF UploadsHold, UploadTypes, EveryUploadFits
<1>2. UploadTypes'
  BY DEF UploadsHold, Still, EndsUnread, Cleared, Moved, UploadTypes
<1>3. EveryUploadFits'
  BY <1>1 DEF UploadsHold, EveryUploadFits, UploadFits, EndsUnread, Moved
<1>4. EngineHeld'
  BY DEF UploadsHold, EngineHeld, Still, EndsUnread, Moved, Bat!UnderWay
<1>5. DisplayFits'
  BY ClearedFits DEF EndsUnread, Bat!UnderWay
<1> QED BY <1>2, <1>3, <1>4, <1>5 DEF UploadsKept

LEMMA EndsKeeps ==
  ASSUME UploadsHold, Still, NEW b \in Uploads, Ends(b)
  PROVE  UploadsKept
<1>1. uploads[b] \in Upload /\ UploadFits(uploads[b])
  BY DEF UploadsHold, UploadTypes, EveryUploadFits
<1>2. UploadTypes'
  BY DEF UploadsHold, Still, Ends, Cleared, Moved, UploadTypes, Engines
<1>3. EveryUploadFits'
  BY <1>1 DEF UploadsHold, EveryUploadFits, UploadFits, Ends, Moved
<1>4. EngineHeld'
  <2> SUFFICES ASSUME ~crossed' PROVE EngineHeld'
    BY DEF EngineHeld
  <2>1. \A c \in Uploads : Bat!UnderWay(c)' /\ uploads'[c].before = "bigquery" =>
          uploads'[c].cloud /\ preferred' = "bigquery"
    BY DEF UploadsHold, EngineHeld, Still, Ends, Moved, Bat!UnderWay
  <2>2. CASE uploads[b].before = "bigquery"
    <3>1. uploads[b].cloud /\ preferred = "bigquery"
      BY <2>2 DEF UploadsHold, EngineHeld, Still, Ends, Bat!UnderWay
    <3>2. engine' = preferred'
      BY <2>2, <3>1 DEF Ends, Still
    <3> QED BY <2>1, <3>2 DEF EngineHeld
  <2>3. CASE uploads[b].before # "bigquery"
    <3>1. engine' = engine
      BY <2>3 DEF Ends
    <3> QED BY <2>1, <2>3, <3>1 DEF UploadsHold, EngineHeld, Still, Ends, Moved
  <2> QED BY <2>2, <2>3
<1>5. DisplayFits'
  BY ClearedFits DEF Ends, Bat!UnderWay
<1> QED BY <1>2, <1>3, <1>4, <1>5 DEF UploadsKept

\* A step of an upload, of whatever kind, keeps what is always so.
LEMMA ReadKeeps ==
  ASSUME UploadsHold, Still, NEW b \in Uploads, uploads[b].phase \in {"picking", "reading"},
         NEW got \in Seq(Bat!Picked), NEW unread, Bat!Read(b, got, unread)
  PROVE  UploadsKept
BY ReadLeads, ReadsOnKeeps, RegistersKeeps, EndsUnreadKeeps DEF UploadsHold

LEMMA NextKeeps ==
  ASSUME UploadsHold, Still, NEW b \in Uploads, uploads[b].phase \in {"registering", "listing"},
         Bat!NextFile(b)
  PROVE  UploadsKept
BY NextLeads, GoesOnKeeps, EndsKeeps DEF UploadsHold

\* An upload goes on, or gives up before anything is seen of it.
LEMMA PhaseKeeps ==
  ASSUME UploadsHold, Still, NEW b \in Uploads, NEW phase,
         \/ uploads[b].phase = "registering" /\ phase = "listing"
         \/ uploads[b].phase = "picking" /\ phase = "lost",
         uploads' = [uploads EXCEPT ![b].phase = phase],
         UNCHANGED <<engine, uploading, progress>>
  PROVE  UploadsKept
<1>1. uploads[b] \in Upload /\ UploadFits(uploads[b])
  BY DEF UploadsHold, UploadTypes, EveryUploadFits
<1>2. uploads[b].at \in Nat /\ uploads[b].got \in Seq(Bat!Picked)
  BY <1>1 DEF Upload
<1>3. Moved(b, phase, uploads[b].at, uploads[b].got)
  BY <1>2, MovedBy DEF UploadsHold, UploadTypes, Phases, Visible
<1>4. UploadTypes'
  BY <1>3 DEF UploadsHold, Still, Moved, UploadTypes
<1>5. EveryUploadFits'
  BY <1>1, <1>3 DEF UploadsHold, EveryUploadFits, UploadFits, Moved
<1>6. EngineHeld'
  BY <1>3 DEF UploadsHold, EngineHeld, Still, Moved, Bat!UnderWay
<1>7. DisplayFits'
  <2>1. \A c \in Uploads : /\ uploads'[c].phase \in Visible <=> uploads[c].phase \in Visible
                           /\ Bat!UnderWay(c)' => Bat!UnderWay(c)
                           /\ uploads'[c].phase \in {"registering", "listing"} <=>
                                uploads[c].phase \in {"registering", "listing"}
                           /\ uploads'[c].at = uploads[c].at /\ uploads'[c].got = uploads[c].got
    BY <1>3 DEF Moved, Visible, Bat!UnderWay
  <2> QED BY <2>1 DEF UploadsHold, DisplayFits, Still
<1> QED BY <1>4, <1>5, <1>6, <1>7 DEF UploadsKept

LEMMA BegunKeeps ==
  ASSUME UploadsHold, NEW b \in Uploads, NEW phase, Bat!Begun(b, phase),
         \/ phase = "picking" /\ UNCHANGED <<uploading, progress>>
         \/ phase = "reading" /\ Bat!Show(TRUE, 1, Len(uploads'[b].files))
  PROVE  UploadsKept
<1>1. PICK files \in Selections[b] :
        uploads' = [uploads EXCEPT ![b] =
          [phase |-> phase, files |-> files, at |-> 1, got |-> << >>, before |-> engine,
           cloud |-> cloud, drop |-> phase = "reading"]]
  BY DEF Bat!Begun
<1>2. files \in Seq(Bat!Picked) /\ files # << >>
  BY UploadsAssumption
<1>3. PICK n \in Nat : n = Len(files) /\ 1 <= n
  BY <1>2
<1> DEFINE u == [phase |-> phase, files |-> files, at |-> 1, got |-> << >>, before |-> engine,
                 cloud |-> cloud, drop |-> phase = "reading"]
<1>4. u \in Upload /\ UploadFits(u) /\ u.phase = phase /\ u.before = engine /\ u.cloud = cloud /\ u.files = files
  <2>1. << >> \in Seq(Bat!Picked)
    OBVIOUS
  <2>2. u \in Upload
    BY <1>2, <2>1 DEF Upload, UploadsHold, UploadTypes, Phases, Visible
  <2>3. UploadFits(u)
    <3>1. CASE phase = "picking"
      <4>1. u.phase = "picking" /\ ~u.drop /\ u.at = 1 /\ u.files = files
        BY <3>1
      <4> HIDE DEF u
      <4> QED BY <1>3, <4>1 DEF UploadFits
    <3>2. CASE phase = "reading"
      <4>1. u.phase = "reading" /\ u.drop /\ u.at = 1 /\ u.files = files
        BY <3>2
      <4> HIDE DEF u
      <4> QED BY <1>3, <4>1 DEF UploadFits
    <3> QED BY <3>1, <3>2
  <2> QED BY <2>2, <2>3
<1> HIDE DEF u
<1>5. /\ uploads' \in [Uploads -> Upload] /\ uploads'[b] = u
      /\ \A c \in Uploads \ {b} : uploads'[c] = uploads[c]
  BY <1>1, <1>4 DEF UploadsHold, UploadTypes, u
<1>6. /\ http' = http /\ cloud' = cloud /\ preferred' = preferred /\ engine' = engine /\ handles' = handles
      /\ together' = ~Bat!Calm /\ crossed' = (crossed \/ (engine = "bigquery" /\ ~cloud))
      /\ uploads[b].phase = "none"
  BY DEF Bat!Begun
<1>7. /\ progress' \in [at : Nat, of : Nat] /\ uploading' \in BOOLEAN
      /\ phase = "reading" => uploading' /\ progress'.at <= progress'.of
      /\ phase = "picking" => uploading' = uploading /\ progress' = progress
  <2>1. CASE phase = "picking"
    BY <2>1 DEF UploadsHold, UploadTypes
  <2>2. CASE phase = "reading"
    <3>1. uploading' = TRUE /\ progress' = [at |-> 1, of |-> n]
      BY <1>3, <1>4, <1>5, <2>2 DEF Bat!Show
    <3> QED BY <1>3, <2>2, <3>1
  <2> QED BY <2>1, <2>2
<1>8. UploadTypes'
  BY <1>5, <1>6, <1>7 DEF UploadsHold, UploadTypes, Bat!Calm
<1>9. EveryUploadFits'
  BY <1>4, <1>5 DEF UploadsHold, EveryUploadFits
<1>10. EngineHeld'
  <2> SUFFICES ASSUME ~crossed' PROVE EngineHeld'
    BY DEF EngineHeld
  <2>1. ~crossed /\ (engine = "bigquery" => cloud)
    BY <1>6
  <2>2. engine = "bigquery" => preferred = "bigquery"
    BY <2>1 DEF UploadsHold, EngineHeld
  <2>3. \A c \in Uploads : Bat!UnderWay(c)' /\ uploads'[c].before = "bigquery" =>
          uploads'[c].cloud /\ preferred' = "bigquery"
    BY <1>4, <1>5, <1>6, <2>1, <2>2 DEF UploadsHold, EngineHeld, Bat!UnderWay
  <2> QED BY <1>4, <1>5, <1>6, <2>1, <2>3 DEF UploadsHold, EngineHeld
<1>11. DisplayFits'
  <2>1. progress'.at <= progress'.of
    BY <1>7 DEF UploadsHold, DisplayFits
  <2>2. ASSUME \A c \in Uploads : uploads'[c].phase \notin Visible
        PROVE  ~uploading' /\ progress' = [at |-> 0, of |-> 0]
    <3>1. phase = "picking"
      BY <1>4, <1>5, <2>2 DEF Visible
    <3>2. \A c \in Uploads : uploads[c].phase \notin Visible
      BY <1>5, <1>6, <2>2 DEF Visible
    <3> QED BY <1>7, <3>1, <3>2 DEF UploadsHold, DisplayFits
  <2>3. ASSUME ~together'
        PROVE  /\ \A c, d \in Uploads : Bat!UnderWay(c)' /\ Bat!UnderWay(d)' => c = d
               /\ \A c \in Uploads : /\ uploads'[c].phase \in Visible => uploading'
                                     /\ uploads'[c].phase \notin {"registering", "listing"}
    <3>1. \A c \in Uploads : ~Bat!UnderWay(c)
      BY <1>6, <2>3 DEF Bat!Calm
    <3>2. \A c \in Uploads \ {b} : ~Bat!UnderWay(c)' /\ uploads'[c].phase \notin Visible
      BY <1>5, <3>1 DEF Bat!UnderWay, Visible
    <3>3. uploads'[b].phase \in {"picking", "reading"} /\ (uploads'[b].phase = "reading" => uploading')
      BY <1>4, <1>5, <1>7
    <3> QED BY <3>2, <3>3 DEF Visible
  <2> QED BY <2>1, <2>2, <2>3 DEF DisplayFits
<1> QED BY <1>8, <1>9, <1>10, <1>11 DEF UploadsKept

-----------------------------------------------------------------------------
(* Uploads: the files that are answered. *)

Known == DOMAIN listed \cup told

UploadsAnswered == \A b \in Uploads : Bat!Names(uploads[b].files) \subseteq Bat!Pending(b) \cup Known

LEMMA FirstName ==
  ASSUME NEW s \in Seq(Bat!Picked), NEW n \in 1 .. Len(s)
  PROVE  /\ Bat!NamesFrom(s, n) \subseteq {s[n].name} \cup Bat!NamesFrom(s, n + 1)
         /\ n = Len(s) => Bat!NamesFrom(s, n) \subseteq {s[n].name}
<1> DEFINE name(i) == s[i].name
<1>1. PICK m \in Nat : m = Len(s)
  OBVIOUS
<1>2. \A i \in n .. m : i = n \/ i \in n + 1 .. m
  BY <1>1
<1>3. n = m => \A i \in n .. m : i = n
  BY <1>1
<1>4. Bat!NamesFrom(s, n) = {name(i) : i \in n .. m} /\ Bat!NamesFrom(s, n + 1) = {name(i) : i \in n + 1 .. m}
  BY <1>1 DEF Bat!NamesFrom
<1> HIDE DEF name
<1>5. Bat!NamesFrom(s, n) \subseteq {name(n)} \cup Bat!NamesFrom(s, n + 1)
  BY <1>2, <1>4
<1>6. n = m => Bat!NamesFrom(s, n) \subseteq {name(n)}
  BY <1>3, <1>4
<1> QED BY <1>1, <1>5, <1>6 DEF name

LEMMA AllNames ==
  ASSUME NEW s \in Seq(Bat!Picked)
  PROVE  Bat!NamesFrom(s, 1) = Bat!Names(s)
<1>1. DOMAIN s = 1 .. Len(s)
  OBVIOUS
<1> QED BY <1>1 DEF Bat!NamesFrom, Bat!Names

LEMMA OneNameMore ==
  ASSUME NEW s \in Seq(Bat!Picked), NEW x \in Bat!Picked
  PROVE  Append(s, x) \in Seq(Bat!Picked) /\ Bat!Names(s) \cup {x.name} \subseteq Bat!Names(Append(s, x))
<1> DEFINE P == Bat!Picked
           t == Append(s, x)
           n == Len(s)
<1> HIDE DEF P
<1>1. s \in Seq(P) /\ x \in P
  BY DEF P
<1>2. /\ t \in Seq(P) /\ n \in Nat /\ DOMAIN s = 1 .. n /\ DOMAIN t = 1 .. n + 1
      /\ t[n + 1] = x /\ \A i \in 1 .. n : t[i] = s[i]
  BY <1>1
<1> HIDE DEF t, n
<1>3. Bat!Names(s) \cup {x.name} \subseteq Bat!Names(t)
  BY <1>2 DEF Bat!Names
<1> QED BY <1>2, <1>3 DEF P, t

\* What is known stays known.
LEMMA OthersAnswered ==
  ASSUME UploadsAnswered, NEW b, Known \subseteq Known',
         \A c \in Uploads \ {b} : uploads'[c] = uploads[c],
         b \in Uploads => Bat!Names(uploads'[b].files) \subseteq Bat!Pending(b)' \cup Known'
  PROVE  UploadsAnswered'
<1> SUFFICES ASSUME NEW c \in Uploads, c # b
             PROVE  Bat!Names(uploads'[c].files) \subseteq Bat!Pending(c)' \cup Known'
  BY DEF UploadsAnswered
<1>1. Bat!Pending(c)' = Bat!Pending(c)
  BY DEF Bat!Pending
<1> QED BY <1>1 DEF UploadsAnswered

\* A file that is read is kept, or the user is told; so are all files when the last is read.
LEMMA ReadAnswers ==
  ASSUME UploadsHold, UploadsAnswered, NEW b \in Uploads, uploads[b].phase \in {"picking", "reading"},
         NEW got \in Seq(Bat!Picked), NEW unread, Bat!Read(b, got, unread), listed' = listed,
         Bat!Names(uploads[b].got) \cup {uploads[b].files[uploads[b].at].name} \subseteq Bat!Names(got) \cup unread
  PROVE  UploadsAnswered'
<1> DEFINE u == uploads[b]
           x == u.files[u.at].name
<1>1. u \in Upload /\ UploadFits(u)
  BY DEF UploadsHold, UploadTypes, EveryUploadFits
<1>2. u.files \in Seq(Bat!Picked) /\ u.at \in 1 .. Len(u.files)
  BY <1>1 DEF Upload, UploadFits
<1>3. Bat!Names(u.files) \subseteq Bat!Names(u.got) \cup Bat!NamesFrom(u.files, u.at) \cup Known
  BY DEF UploadsAnswered, Bat!Pending
<1>4. /\ Bat!NamesFrom(u.files, u.at) \subseteq {x} \cup Bat!NamesFrom(u.files, u.at + 1)
      /\ u.at = Len(u.files) => Bat!NamesFrom(u.files, u.at) \subseteq {x}
  BY <1>2, FirstName
<1>5. CASE ReadsOn(b, got) /\ told' = told \cup unread
  <2>1. /\ \A c \in Uploads \ {b} : uploads'[c] = uploads[c]
        /\ uploads'[b].files = u.files /\ uploads'[b].phase = u.phase /\ uploads'[b].at = u.at + 1
        /\ uploads'[b].got = got
    BY <1>5 DEF ReadsOn, Moved
  <2>2. Bat!Pending(b)' = Bat!Names(got) \cup Bat!NamesFrom(u.files, u.at + 1)
    BY <2>1 DEF Bat!Pending
  <2>3. Known' = Known \cup unread
    BY <1>5 DEF Known
  <2> HIDE DEF u, x
  <2>4. Bat!Names(uploads'[b].files) \subseteq Bat!Pending(b)' \cup Known'
    BY <1>3, <1>4, <2>1, <2>2, <2>3 DEF u, x
  <2> QED BY <2>1, <2>3, <2>4, OthersAnswered
<1>6. ASSUME u.at = Len(u.files), NEW work \in Seq(Bat!Picked), ToldOf(b, unread, got, work),
             Registers(b, work) \/ (work = << >> /\ EndsUnread(b, u.at, u.got))
      PROVE  UploadsAnswered'
  <2>1. Known' = Known \cup unread \cup (Bat!Names(got) \ Bat!Names(work))
    BY <1>6 DEF ToldOf, Known
  <2>2. \A c \in Uploads \ {b} : uploads'[c] = uploads[c]
    BY <1>6 DEF Registers, EndsUnread, Moved
  <2>3. uploads'[b].files = u.files
    BY <1>6 DEF Registers, EndsUnread, Moved
  <2>4. Bat!Names(work) \subseteq Bat!Pending(b)'
    <3>1. CASE Registers(b, work)
      <4>1. uploads'[b].phase = "registering" /\ uploads'[b].at = 1 /\ uploads'[b].got = work
        BY <3>1 DEF Registers, Moved
      <4> QED BY <4>1, AllNames DEF Bat!Pending
    <3>2. CASE work = << >>
      BY <3>2 DEF Bat!Names
    <3> QED BY <1>6, <3>1, <3>2
  <2>5. Bat!Names(u.files) \subseteq Bat!Names(u.got) \cup {x} \cup Known
    BY <1>3, <1>4, <1>6
  <2> HIDE DEF u, x
  <2>6. Bat!Names(u.got) \cup {x} \subseteq Bat!Names(got) \cup unread
    BY DEF u, x
  <2>7. Bat!Names(uploads'[b].files) \subseteq Bat!Pending(b)' \cup Known'
    BY <2>1, <2>3, <2>4, <2>5, <2>6
  <2> QED BY <2>1, <2>2, <2>7, OthersAnswered
<1> QED BY <1>5, <1>6, ReadLeads DEF UploadsHold

\* A file that is listed, or about which the user is told, is answered.
LEMMA NextAnswers ==
  ASSUME UploadsHold, UploadsAnswered, NEW b \in Uploads, uploads[b].phase \in {"registering", "listing"},
         Bat!NextFile(b), Known' = Known \cup {Bat!File(b).name}
  PROVE  UploadsAnswered'
<1> DEFINE u == uploads[b]
           x == u.got[u.at].name
<1>1. u \in Upload /\ UploadFits(u)
  BY DEF UploadsHold, UploadTypes, EveryUploadFits
<1>2. u.got \in Seq(Bat!Picked) /\ u.at \in 1 .. Len(u.got)
  BY <1>1 DEF Upload, UploadFits
<1>3. Bat!Names(u.files) \subseteq Bat!NamesFrom(u.got, u.at) \cup Known
  BY DEF UploadsAnswered, Bat!Pending
<1>4. /\ Bat!NamesFrom(u.got, u.at) \subseteq {x} \cup Bat!NamesFrom(u.got, u.at + 1)
      /\ u.at = Len(u.got) => Bat!NamesFrom(u.got, u.at) \subseteq {x}
  BY <1>2, FirstName
<1>5. Known' = Known \cup {x}
  BY DEF Bat!File
<1>6. GoesOn(b) \/ Ends(b)
  BY NextLeads DEF UploadsHold
<1>7. /\ \A c \in Uploads \ {b} : uploads'[c] = uploads[c]
      /\ uploads'[b].files = u.files
  BY <1>6 DEF GoesOn, Ends, Moved
<1>8. Bat!Names(u.files) \subseteq Bat!Pending(b)' \cup Known'
  <2>1. CASE GoesOn(b)
    <3>1. uploads'[b].phase = "registering" /\ uploads'[b].at = u.at + 1 /\ uploads'[b].got = u.got
      BY <2>1 DEF GoesOn, Moved
    <3>2. Bat!Pending(b)' = Bat!NamesFrom(u.got, u.at + 1)
      BY <3>1 DEF Bat!Pending
    <3> HIDE DEF u, x
    <3> QED BY <1>3, <1>4, <1>5, <3>2
  <2>2. CASE Ends(b)
    <3>1. u.at = Len(u.got)
      BY <2>2 DEF Ends
    <3> HIDE DEF u, x
    <3> QED BY <1>3, <1>4, <1>5, <3>1
  <2> QED BY <1>6, <2>1, <2>2
<1> QED BY <1>5, <1>7, <1>8, OthersAnswered

-----------------------------------------------------------------------------
(* Uploads: the reload. *)

ReloadFits ==
  /\ reload = [phase |-> reload.phase, total |-> reload.total, left |-> reload.left,
               done |-> reload.done, failed |-> reload.failed, read |-> reload.read]
  /\ reload.phase \in {"none", "counted"} => reload.done = 0 /\ reload.failed = 0
  /\ reload.phase = "working" =>
       /\ IsFiniteSet(reload.left) /\ IsFiniteSet(reload.read) /\ reload.left # {}
       /\ reload.done \in Nat /\ reload.failed \in Nat
       /\ reload.done + reload.failed + Cardinality(reload.left) <= Cardinality(reload.read)

\* The handles that are read and done with are answered; so is what is not fine.
HandlesAnswered ==
  /\ \A n \in reload.read \ reload.left : Bat!IsQuery(n) \/ n \in Known
  /\ \A n \in DOMAIN listed : listed[n] # "fine" => n \in told

BatInv == UploadsHold /\ UploadsAnswered /\ ReloadFits /\ HandlesAnswered

LEMMA LeftSize ==
  ASSUME NEW S, IsFiniteSet(S), NEW x \in S
  PROVE  /\ IsFiniteSet(S \ {x}) /\ Cardinality(S) \in Nat /\ Cardinality(S \ {x}) \in Nat
         /\ Cardinality(S) = Cardinality(S \ {x}) + 1
BY FS_RemoveElement, FS_CardinalityType

\* One handle after the other is done with.
LEMMA WentFits ==
  ASSUME ReloadFits, NEW name, NEW done \in Nat, NEW failed_1 \in Nat, done + failed_1 <= 1,
         Bat!Went(name, done, failed_1)
  PROVE  ReloadFits' /\ reload'.read \ reload'.left \subseteq (reload.read \ reload.left) \cup {name}
<1>1. /\ reload.phase = "working" /\ name \in reload.left
      /\ reload' = IF reload.left = {name} THEN [Bat!Unread EXCEPT !.phase = "over", !.read = reload.read]
                   ELSE [reload EXCEPT !.left = @ \ {name}, !.done = @ + done, !.failed = @ + failed_1]
  BY DEF Bat!Went
<1>2. CASE reload.left = {name}
  <2>1. reload' = [phase |-> "over", total |-> 0, left |-> {}, done |-> 0, failed |-> 0, read |-> reload.read]
    BY <1>1, <1>2 DEF Bat!Unread
  <2>2. ReloadFits'
    BY <2>1 DEF ReloadFits
  <2>3. reload'.read = reload.read /\ reload'.left = {}
    BY <2>1
  <2> QED BY <1>2, <2>2, <2>3
<1>3. CASE reload.left # {name}
  <2> DEFINE L == reload.left \ {name}
             d == reload.done + done
             f == reload.failed + failed_1
  <2>1. reload' = [phase |-> "working", total |-> reload.total, left |-> L, done |-> d, failed |-> f,
                   read |-> reload.read]
    BY <1>1, <1>3 DEF ReloadFits
  <2>2. /\ IsFiniteSet(reload.left) /\ IsFiniteSet(reload.read) /\ reload.done \in Nat /\ reload.failed \in Nat
        /\ reload.done + reload.failed + Cardinality(reload.left) <= Cardinality(reload.read)
    BY <1>1 DEF ReloadFits
  <2>3. IsFiniteSet(L) /\ Cardinality(L) \in Nat /\ Cardinality(reload.left) = Cardinality(L) + 1
    BY <1>1, <2>2, LeftSize
  <2>4. Cardinality(reload.read) \in Nat
    BY <2>2, FS_CardinalityType
  <2>5. d \in Nat /\ f \in Nat /\ d + f + Cardinality(L) <= Cardinality(reload.read)
    BY <2>2, <2>3, <2>4
  <2>6. L # {}
    BY <1>1, <1>3
  <2> HIDE DEF L, d, f
  <2>7. /\ reload'.phase = "working" /\ reload'.total = reload.total /\ reload'.left = L /\ reload'.done = d
        /\ reload'.failed = f /\ reload'.read = reload.read
    BY <2>1
  <2>8. ReloadFits'
    BY <2>1, <2>2, <2>3, <2>5, <2>6, <2>7 DEF ReloadFits
  <2> QED BY <2>7, <2>8 DEF L
<1> QED BY <1>2, <1>3

LEMMA MarkedIs ==
  ASSUME NEW name, NEW mark, listed' = Bat!With(listed, name, mark)
  PROVE  /\ DOMAIN listed' = DOMAIN listed \cup {name} /\ listed'[name] = mark
         /\ \A n \in DOMAIN listed \ {name} : listed'[n] = listed[n]
BY DEF Bat!With

\* Marking a source, and telling the user of all that is not fine, answers its handle.
LEMMA MarkedAnswers ==
  ASSUME HandlesAnswered, NEW name, NEW mark, told \subseteq told',
         \/ listed' = Bat!With(listed, name, mark)
         \/ listed' = listed,
         mark = "fine" \/ name \in told',
         \A n \in reload'.read \ reload'.left : n \in reload.read \ reload.left \/ Bat!IsQuery(n) \/ n \in Known'
  PROVE  HandlesAnswered' /\ Known \subseteq Known'
<1>1. /\ DOMAIN listed \subseteq DOMAIN listed'
      /\ \A n \in DOMAIN listed' : listed'[n] # "fine" => n \in told'
  <2>1. CASE listed' = Bat!With(listed, name, mark)
    <3>1. /\ DOMAIN listed' = DOMAIN listed \cup {name} /\ listed'[name] = mark
          /\ \A n \in DOMAIN listed \ {name} : listed'[n] = listed[n]
      BY <2>1, MarkedIs
    <3>2. ASSUME NEW n \in DOMAIN listed', listed'[n] # "fine" PROVE n \in told'
      <4>1. CASE n = name
        BY <3>1, <3>2, <4>1
      <4>2. CASE n # name
        BY <3>1, <3>2, <4>2 DEF HandlesAnswered
      <4> QED BY <4>1, <4>2
    <3> QED BY <3>1, <3>2
  <2>2. CASE listed' = listed
    BY <2>2 DEF HandlesAnswered
  <2> QED BY <2>1, <2>2
<1>2. Known \subseteq Known'
  BY <1>1 DEF Known
<1>3. \A n : Bat!IsQuery(n)' <=> Bat!IsQuery(n)
  BY DEF Bat!IsQuery
<1>4. \A n \in reload'.read \ reload'.left : Bat!IsQuery(n) \/ n \in Known'
  BY <1>2 DEF HandlesAnswered
<1> QED BY <1>1, <1>2, <1>3, <1>4 DEF HandlesAnswered

\* What the reload and the user leave alone.
LEMMA StillHold ==
  ASSUME UploadsHold, Still, UNCHANGED <<uploads, engine, uploading, progress>>
  PROVE  UploadsKept
BY DEF UploadsHold, UploadsKept, Still, UploadTypes, EveryUploadFits, UploadFits, EngineHeld, DisplayFits,
       Bat!UnderWay

LEMMA StillAnswered ==
  ASSUME UploadsAnswered, Known \subseteq Known', uploads' = uploads
  PROVE  UploadsAnswered'
BY DEF UploadsAnswered, Bat!Pending

LEMMA ReloadKeeps ==
  ASSUME BatInv, Bat!ReloadStep
  PROVE  BatInv'
<1>1. /\ UploadsHold /\ UploadsAnswered /\ ReloadFits /\ HandlesAnswered /\ IsFiniteSet(handles)
  BY DEF BatInv, UploadsHold, UploadTypes
<1>2. ASSUME Still, UNCHANGED <<uploads, engine, uploading, progress>>, ReloadFits', HandlesAnswered',
             Known \subseteq Known'
      PROVE  BatInv'
  BY <1>1, <1>2, StillHold, StillAnswered DEF BatInv, UploadsHold, UploadsKept
<1>3. CASE Bat!CountHandles
  <2>1. /\ UNCHANGED <<uploads, engine, uploading, progress, listed, told, handles>>
        /\ UNCHANGED <<http, cloud, crossed, together, preferred>>
        /\ reload.phase = "none"
        /\ reload' = IF handles = {} THEN [reload EXCEPT !.phase = "over"]
                     ELSE [reload EXCEPT !.phase = "counted", !.total = Bat!Cardinality(handles)]
    BY <1>3 DEF Bat!CountHandles, Bat!user, Bat!uploadVars
  <2>2. ReloadFits' /\ reload'.left = reload.left /\ reload'.read = reload.read
    BY <1>1, <2>1 DEF ReloadFits
  <2>3. HandlesAnswered' /\ Known' = Known
    BY <1>1, <2>1, <2>2 DEF HandlesAnswered, Known, Bat!IsQuery
  <2>4. Still
    BY <1>1, <2>1 DEF Still
  <2> QED BY <1>2, <2>1, <2>2, <2>3, <2>4
<1>4. CASE Bat!ListHandles
  <2>1. /\ UNCHANGED <<uploads, engine, uploading, progress, listed, told, handles>>
        /\ UNCHANGED <<http, cloud, crossed, together, preferred>>
        /\ reload.phase = "counted"
        /\ reload' = IF handles = {} THEN [Bat!Unread EXCEPT !.phase = "over"]
                     ELSE [reload EXCEPT !.phase = "working", !.left = handles, !.read = handles]
    BY <1>4 DEF Bat!ListHandles, Bat!user, Bat!uploadVars
  <2>2. Cardinality(handles) \in Nat
    BY <1>1, FS_CardinalityType
  <2>3. ReloadFits' /\ reload'.read \ reload'.left = {}
    <3>1. CASE handles = {}
      <4>1. reload' = [phase |-> "over", total |-> 0, left |-> {}, done |-> 0, failed |-> 0, read |-> {}]
        BY <2>1, <3>1 DEF Bat!Unread
      <4> QED BY <4>1 DEF ReloadFits
    <3>2. CASE handles # {}
      <4>1. reload' = [phase |-> "working", total |-> reload.total, left |-> handles, done |-> 0, failed |-> 0,
                       read |-> handles]
        BY <1>1, <2>1, <3>2 DEF ReloadFits
      <4> QED BY <1>1, <2>2, <3>2, <4>1 DEF ReloadFits
    <3> QED BY <3>1, <3>2
  <2>4. HandlesAnswered' /\ Known' = Known
    BY <1>1, <2>1, <2>3 DEF HandlesAnswered, Known
  <2>5. Still
    BY <1>1, <2>1 DEF Still
  <2> QED BY <1>2, <2>1, <2>3, <2>4, <2>5
<1>5. ASSUME NEW name, Bat!ReloadDenied(name) PROVE BatInv'
  <2>1. /\ UNCHANGED <<uploads, engine, uploading, progress, handles>>
        /\ UNCHANGED <<http, cloud, crossed, together, preferred>>
        /\ Bat!Went(name, 0, 0) /\ told' = told \cup {name}
        /\ listed' = Bat!With(listed, name, "prompt") \/ listed' = listed
    BY <1>5 DEF Bat!ReloadDenied, Bat!user, Bat!uploadVars, Bat!Marked
  <2>2. ReloadFits' /\ reload'.read \ reload'.left \subseteq (reload.read \ reload.left) \cup {name}
    BY <1>1, <2>1, WentFits
  <2>3. name \in Known'
    BY <2>1 DEF Known
  <2>4. HandlesAnswered' /\ Known \subseteq Known'
    BY <1>1, <2>1, <2>2, <2>3, MarkedAnswers
  <2>5. Still
    BY <1>1, <2>1 DEF Still
  <2> QED BY <1>2, <2>1, <2>2, <2>4, <2>5
<1>6. ASSUME NEW name, Bat!ReloadSkips(name) PROVE BatInv'
  <2>1. /\ UNCHANGED <<uploads, engine, uploading, progress, handles, listed, told>>
        /\ UNCHANGED <<http, cloud, crossed, together, preferred>>
        /\ Bat!Went(name, 0, 0) /\ Bat!IsQuery(name)
    BY <1>6 DEF Bat!ReloadSkips, Bat!user, Bat!uploadVars
  <2>2. ReloadFits' /\ reload'.read \ reload'.left \subseteq (reload.read \ reload.left) \cup {name}
    BY <1>1, <2>1, WentFits
  <2>4. HandlesAnswered' /\ Known \subseteq Known'
    BY <1>1, <2>1, <2>2, MarkedAnswers
  <2>5. Still
    BY <1>1, <2>1 DEF Still
  <2> QED BY <1>2, <2>1, <2>2, <2>4, <2>5
<1>7. ASSUME NEW name, Bat!Reloaded(name) PROVE BatInv'
  <2>1. /\ UNCHANGED <<uploads, engine, uploading, progress, handles, told>>
        /\ UNCHANGED <<http, cloud, crossed, together, preferred>>
        /\ Bat!Went(name, 1, 0) /\ listed' = Bat!With(listed, name, "fine")
    BY <1>7 DEF Bat!Reloaded, Bat!user, Bat!uploadVars
  <2>2. ReloadFits' /\ reload'.read \ reload'.left \subseteq (reload.read \ reload.left) \cup {name}
    BY <1>1, <2>1, WentFits
  <2>3. name \in Known'
    BY <2>1, MarkedIs DEF Known
  <2>4. HandlesAnswered' /\ Known \subseteq Known'
    BY <1>1, <2>1, <2>2, <2>3, MarkedAnswers
  <2>5. Still
    BY <1>1, <2>1 DEF Still
  <2> QED BY <1>2, <2>1, <2>2, <2>4, <2>5
<1>8. ASSUME NEW name, Bat!ReloadFails(name) PROVE BatInv'
  <2>1. PICK kind :
           /\ UNCHANGED <<uploads, engine, uploading, progress>>
           /\ UNCHANGED <<http, cloud, crossed, together, preferred>>
           /\ Bat!Went(name, 0, 1)
           /\ handles' = IF kind = "not_found" THEN handles \ {name} ELSE handles
           /\ listed' = Bat!Marked(name, IF kind = "permission" THEN "prompt" ELSE "failed")
           /\ told' = told \cup {name}
    BY <1>8 DEF Bat!ReloadFails, Bat!user, Bat!uploadVars, Bat!WithoutHandle
  <2>2. ReloadFits' /\ reload'.read \ reload'.left \subseteq (reload.read \ reload.left) \cup {name}
    BY <1>1, <2>1, WentFits
  <2>3. name \in Known'
    BY <2>1 DEF Known
  <2>4. HandlesAnswered' /\ Known \subseteq Known'
    <3>1. PICK mark : listed' = Bat!With(listed, name, mark) \/ listed' = listed
      BY <2>1 DEF Bat!Marked
    <3> QED BY <1>1, <2>1, <2>2, <2>3, <3>1, MarkedAnswers
  <2>5. Still
    <3>1. IsFiniteSet(handles)'
      BY <1>1, <2>1, FS_RemoveElement, FS_Subset
    <3> QED BY <2>1, <3>1 DEF Still
  <2> QED BY <1>2, <2>1, <2>2, <2>4, <2>5
<1> QED BY <1>3, <1>4, <1>5, <1>6, <1>7, <1>8 DEF Bat!ReloadStep

-----------------------------------------------------------------------------
(* Uploads: every step. *)

\* The file at hand is read, or could not be.
Takes(b, got, unread) ==
  \/ got = Append(uploads[b].got, uploads[b].files[uploads[b].at]) /\ unread = {}
  \/ got = uploads[b].got /\ unread = {uploads[b].files[uploads[b].at].name}

LEMMA ReadFileKeeps ==
  ASSUME BatInv, NEW b \in Uploads, NEW got, NEW unread, uploads[b].phase \in {"picking", "reading"},
         Takes(b, got, unread), Bat!Read(b, got, unread),
         UNCHANGED <<http, cloud, preferred, crossed, listed, handles, reload, together>>
  PROVE  BatInv'
<1> DEFINE u == uploads[b]
           x == u.files[u.at]
<1>1. u \in Upload /\ UploadFits(u) /\ IsFiniteSet(handles)
  BY DEF BatInv, UploadsHold, UploadTypes, EveryUploadFits
<1>2. u.files \in Seq(Bat!Picked) /\ u.at \in 1 .. Len(u.files) /\ u.got \in Seq(Bat!Picked)
  BY <1>1 DEF Upload, UploadFits
<1>3. x \in Bat!Picked
  <2> DEFINE P == Bat!Picked
  <2>1. u.files \in Seq(P)
    BY <1>2
  <2> HIDE DEF P
  <2>2. x \in P
    BY <1>2, <2>1
  <2> QED BY <2>2 DEF P
<1>4. got \in Seq(Bat!Picked) /\ Bat!Names(u.got) \cup {x.name} \subseteq Bat!Names(got) \cup unread
  BY <1>2, <1>3, OneNameMore DEF Takes
<1>5. Still
  BY <1>1 DEF Still
<1>6. UploadsKept
  BY <1>4, <1>5, ReadKeeps DEF BatInv
<1>7. UploadsAnswered'
  BY <1>4, ReadAnswers DEF BatInv
<1>8. told \subseteq told'
  BY <1>4, ReadLeads DEF ToldOf, BatInv, UploadsHold
<1>9. ReloadFits' /\ HandlesAnswered'
  BY <1>8 DEF BatInv, ReloadFits, HandlesAnswered, Known, Bat!IsQuery
<1> QED BY <1>6, <1>7, <1>9 DEF BatInv, UploadsHold, UploadsKept

LEMMA NextFileKeeps ==
  ASSUME BatInv, NEW b \in Uploads, uploads[b].phase \in {"registering", "listing"}, Bat!NextFile(b),
         \/ listed' = Bat!With(listed, Bat!File(b).name, "fine") /\ told' = told
         \/ listed' = Bat!With(listed, Bat!File(b).name, "fine") /\ told' = told \cup {Bat!File(b).name}
         \/ listed' = listed /\ told' = told \cup {Bat!File(b).name},
         \/ handles' = handles
         \/ handles' = handles \ {Bat!File(b).name}
         \/ handles' = handles \cup {Bat!File(b).name},
         UNCHANGED <<http, cloud, preferred, crossed, reload, together>>
  PROVE  BatInv'
<1> DEFINE x == Bat!File(b).name
<1> HIDE DEF x
<1>1. /\ listed' = listed \/ listed' = Bat!With(listed, x, "fine")
      /\ told' = told \/ told' = told \cup {x}
      /\ listed' = Bat!With(listed, x, "fine") \/ told' = told \cup {x}
      /\ handles' = handles \/ handles' = handles \ {x} \/ handles' = handles \cup {x}
  BY DEF x
<1>2. IsFiniteSet(handles')
  <2>1. IsFiniteSet(handles)
    BY DEF BatInv, UploadsHold, UploadTypes
  <2> QED BY <1>1, <2>1, FS_AddElement, FS_RemoveElement, FS_Subset
<1>3. Still
  BY <1>2 DEF Still
<1>4. Known' = Known \cup {x}
  <2>1. DOMAIN listed' = DOMAIN listed \/ DOMAIN listed' = DOMAIN listed \cup {x}
    BY <1>1, MarkedIs
  <2>2. DOMAIN listed' = DOMAIN listed \cup {x} \/ told' = told \cup {x}
    BY <1>1, MarkedIs
  <2> QED BY <1>1, <2>1, <2>2 DEF Known
<1>5. UploadsKept
  BY <1>3, NextKeeps DEF BatInv
<1>6. UploadsAnswered'
  BY <1>4, NextAnswers DEF BatInv, x
<1>7. HandlesAnswered'
  BY <1>1, MarkedAnswers DEF BatInv
<1>8. ReloadFits'
  BY DEF BatInv, ReloadFits
<1> QED BY <1>5, <1>6, <1>7, <1>8 DEF BatInv, UploadsHold, UploadsKept

LEMMA UploadKeeps ==
  ASSUME BatInv, NEW b \in Uploads, Bat!UploadStep(b)
  PROVE  BatInv'
<1>1. CASE Bat!ReadFile(b)
  <2> DEFINE got == Append(uploads[b].got, uploads[b].files[uploads[b].at])
             unread == {}
  <2>1. uploads[b].phase \in {"picking", "reading"} /\ Bat!Read(b, got, unread)
    BY <1>1 DEF Bat!ReadFile
  <2>2. UNCHANGED <<http, cloud, preferred, crossed, listed, handles, reload, together>>
    BY <1>1 DEF Bat!ReadFile, Bat!user
  <2>3. Takes(b, got, unread)
    BY DEF Takes
  <2> HIDE DEF got, unread
  <2> QED BY <2>1, <2>2, <2>3, ReadFileKeeps
<1>2. CASE Bat!DropUnread(b)
  BY <1>2, ReadFileKeeps DEF Bat!DropUnread, Bat!user, Takes
<1>3. ASSUME NEW phase,
             \/ uploads[b].phase = "registering" /\ phase = "listing"
             \/ uploads[b].phase = "picking" /\ phase = "lost",
             uploads' = [uploads EXCEPT ![b].phase = phase],
             UNCHANGED <<engine, uploading, progress>>,
             UNCHANGED <<http, cloud, preferred, crossed, listed, handles, reload, together, told>>
      PROVE  BatInv'
  <2>1. uploads[b] \in Upload /\ UploadFits(uploads[b]) /\ IsFiniteSet(handles)
    BY DEF BatInv, UploadsHold, UploadTypes, EveryUploadFits
  <2>2. Still
    BY <1>3, <2>1 DEF Still
  <2>3. UploadsKept
    BY <1>3, <2>2, PhaseKeeps DEF BatInv
  <2>4. ReloadFits' /\ HandlesAnswered' /\ Known' = Known
    BY <1>3 DEF BatInv, ReloadFits, HandlesAnswered, Known, Bat!IsQuery
  <2>5. UploadsAnswered'
    <3> DEFINE u == uploads[b]
    <3>1. u.at \in Nat /\ u.got \in Seq(Bat!Picked) /\ u.files \in Seq(Bat!Picked)
      BY <2>1 DEF Upload
    <3>2. Moved(b, phase, u.at, u.got)
      BY <1>3, <3>1, MovedBy DEF BatInv, UploadsHold, UploadTypes, Phases, Visible
    <3>3. Bat!Names(u.files) \subseteq Bat!Pending(b) \cup Known
      BY DEF BatInv, UploadsAnswered
    <3>4. /\ \A c \in Uploads \ {b} : uploads'[c] = uploads[c]
          /\ uploads'[b].files = u.files /\ uploads'[b].at = u.at /\ uploads'[b].got = u.got
          /\ uploads'[b].phase = phase
      BY <3>2 DEF Moved
    <3>5. Bat!Names(u.files) \subseteq Bat!Pending(b)' \cup Known
      <4>1. CASE phase = "listing"
        BY <1>3, <3>3, <3>4, <4>1 DEF Bat!Pending
      <4>2. CASE phase = "lost"
        BY <3>4, <4>2 DEF Bat!Pending
      <4> QED BY <1>3, <4>1, <4>2
    <3> QED BY <2>4, <3>4, <3>5, OthersAnswered DEF BatInv
  <2> QED BY <2>3, <2>4, <2>5 DEF BatInv, UploadsHold, UploadsKept
<1>4. CASE Bat!PickUnread(b)
  BY <1>3, <1>4 DEF Bat!PickUnread, Bat!user
<1>5. CASE Bat!Register(b)
  BY <1>3, <1>5 DEF Bat!Register, Bat!user
<1>6. CASE Bat!RegisterFails(b)
  BY <1>6, NextFileKeeps DEF Bat!RegisterFails, Bat!user
<1>7. CASE Bat!ListFile(b)
  BY <1>7, NextFileKeeps DEF Bat!ListFile, Bat!user, Bat!Replaced, Bat!WithoutHandle
<1>8. CASE Bat!ListWarns(b)
  BY <1>8, NextFileKeeps DEF Bat!ListWarns, Bat!user, Bat!Replaced, Bat!WithoutHandle
<1> QED BY <1>1, <1>2, <1>4, <1>5, <1>6, <1>7, <1>8 DEF Bat!UploadStep

LEMMA BeginKeeps ==
  ASSUME BatInv, NEW b \in Uploads, Bat!PickFiles(b) \/ Bat!DropFiles(b)
  PROVE  BatInv'
<1>1. PICK phase : /\ Bat!Begun(b, phase)
                   /\ \/ phase = "picking" /\ UNCHANGED <<uploading, progress>>
                      \/ phase = "reading" /\ Bat!Show(TRUE, 1, Len(uploads'[b].files))
  BY DEF Bat!PickFiles, Bat!DropFiles
<1>2. UploadsKept
  BY <1>1, BegunKeeps DEF BatInv
<1>3. UNCHANGED <<listed, told, reload>>
  BY <1>1 DEF Bat!Begun
<1>4. ReloadFits' /\ HandlesAnswered' /\ Known' = Known
  BY <1>3 DEF BatInv, ReloadFits, HandlesAnswered, Known, Bat!IsQuery
<1>5. UploadsAnswered'
  <2>1. PICK files \in Selections[b] :
          uploads' = [uploads EXCEPT ![b] =
            [phase |-> phase, files |-> files, at |-> 1, got |-> << >>, before |-> engine,
             cloud |-> cloud, drop |-> phase = "reading"]]
    BY <1>1 DEF Bat!Begun
  <2>2. files \in Seq(Bat!Picked)
    BY UploadsAssumption
  <2>3. /\ \A c \in Uploads \ {b} : uploads'[c] = uploads[c]
        /\ uploads'[b].files = files /\ uploads'[b].phase = phase /\ uploads'[b].at = 1
    BY <2>1 DEF BatInv, UploadsHold, UploadTypes
  <2>4. Bat!Names(files) \subseteq Bat!Pending(b)'
    BY <1>1, <2>2, <2>3, AllNames DEF Bat!Pending
  <2> QED BY <1>4, <2>3, <2>4, OthersAnswered DEF BatInv
<1> QED BY <1>2, <1>4, <1>5 DEF BatInv, UploadsHold, UploadsKept

LEMMA ChoiceKeeps ==
  ASSUME BatInv, Bat!ChooseEngine \/ Bat!ConnectionChanges
  PROVE  BatInv'
<1>1. /\ UNCHANGED <<http, uploads, uploading, progress, listed, handles, reload, told, together>>
      /\ engine' \in Engines /\ preferred' \in Engines /\ cloud' \in BOOLEAN
      /\ \/ engine' = preferred' /\ crossed' = ~Bat!Calm
         \/ engine' = engine /\ preferred' = preferred /\ crossed' = (crossed \/ ~Bat!Calm)
  BY DEF Bat!ChooseEngine, Bat!ConnectionChanges, Bat!others, Engines, BatInv, UploadsHold, UploadTypes
<1>2. UploadTypes' /\ EveryUploadFits' /\ DisplayFits'
  <2>1. crossed' \in BOOLEAN
    BY <1>1 DEF BatInv, UploadsHold, UploadTypes, Bat!Calm
  <2>2. EveryUploadFits' /\ DisplayFits'
    BY <1>1 DEF BatInv, UploadsHold, EveryUploadFits, UploadFits, DisplayFits, Bat!UnderWay
  <2>3. UploadTypes'
    BY <1>1, <2>1 DEF BatInv, UploadsHold, UploadTypes
  <2> QED BY <2>2, <2>3
<1>3. EngineHeld'
  <2> SUFFICES ASSUME ~crossed' PROVE EngineHeld'
    BY DEF EngineHeld
  <2>1. Bat!Calm /\ \A b \in Uploads : ~Bat!UnderWay(b)'
    BY <1>1 DEF Bat!Calm, Bat!UnderWay
  <2>2. engine' = preferred'
    <3>1. CASE engine' = engine /\ preferred' = preferred /\ ~crossed
      BY <2>1, <3>1 DEF BatInv, UploadsHold, EngineHeld, Bat!Calm, Bat!UnderWay
    <3> QED BY <1>1, <3>1
  <2> QED BY <2>1, <2>2 DEF EngineHeld
<1>4. UploadsAnswered' /\ ReloadFits' /\ HandlesAnswered'
  BY <1>1 DEF BatInv, UploadsAnswered, ReloadFits, HandlesAnswered, Known, Bat!IsQuery, Bat!Pending
<1> QED BY <1>2, <1>3, <1>4 DEF BatInv, UploadsHold

LEMMA BatKept == BatInv /\ Bat!BatchNext => BatInv'
BY UploadKeeps, BeginKeeps, ReloadKeeps, ChoiceKeeps DEF Bat!BatchNext

LEMMA BatIdle == BatInv /\ UNCHANGED batchVars => BatInv'
<1> SUFFICES ASSUME BatInv, UNCHANGED batchVars PROVE BatInv'
  OBVIOUS
<1>1. UploadsHold'
  BY DEF batchVars, BatInv, UploadsHold, UploadTypes, EveryUploadFits, UploadFits, EngineHeld, DisplayFits, Bat!UnderWay
<1>2. UploadsAnswered' /\ ReloadFits' /\ HandlesAnswered'
  BY DEF batchVars, BatInv, UploadsAnswered, ReloadFits, HandlesAnswered, Known, Bat!IsQuery, Bat!Pending
<1> QED BY <1>1, <1>2 DEF BatInv

LEMMA BatStart == Bat!BatchInit => BatInv
<1> SUFFICES ASSUME Bat!BatchInit PROVE BatInv
  OBVIOUS
<1>1. /\ Bat!None \in Upload /\ UploadFits(Bat!None) /\ Bat!None.phase = "none" /\ Bat!None.files = << >>
  BY DEF Bat!None, Upload, UploadFits, Phases, Engines
<1>2. uploads \in [Uploads -> Upload] /\ \A b \in Uploads : uploads[b] = Bat!None
  BY <1>1 DEF Bat!BatchInit
<1>3. UploadTypes
  BY <1>2, UploadsAssumption DEF Bat!BatchInit, UploadTypes, Engines
<1>4. EveryUploadFits
  BY <1>1, <1>2 DEF EveryUploadFits
<1>5. \A b \in Uploads : ~Bat!UnderWay(b) /\ uploads[b].phase \notin Visible
  BY <1>1, <1>2 DEF Bat!UnderWay, Visible
<1>6. EngineHeld
  BY <1>5 DEF Bat!BatchInit, EngineHeld
<1>7. DisplayFits
  BY <1>5 DEF Bat!BatchInit, DisplayFits, Visible
<1>8. UploadsAnswered
  BY <1>1, <1>2 DEF UploadsAnswered, Bat!Names
<1>9. ReloadFits /\ reload.read = {}
  <2>1. PICK phase \in {"none", "over"} :
          reload = [phase |-> phase, total |-> 0, left |-> {}, done |-> 0, failed |-> 0, read |-> {}]
    BY DEF Bat!BatchInit, Bat!Unread
  <2> QED BY <2>1 DEF ReloadFits
<1>10. HandlesAnswered
  BY <1>9 DEF Bat!BatchInit, HandlesAnswered
<1> QED BY <1>3, <1>4, <1>6, <1>7, <1>8, <1>9, <1>10 DEF BatInv, UploadsHold

LEMMA KindsAgreeAlways == Bat!KindsAgree
BY DEF Bat!KindsAgree, Bat!Accepted, Bat!TypeOf, Bat!IsDuckDBFile, Bat!IsSQLFile

LEMMA BatCalm == BatInv => Bat!FilesAnswered /\ Bat!EngineKept /\ Bat!ProgressFits
<1> SUFFICES ASSUME BatInv PROVE Bat!FilesAnswered /\ Bat!EngineKept /\ Bat!ProgressFits
  OBVIOUS
<1>1. Bat!FilesAnswered
  BY DEF BatInv, UploadsAnswered, HandlesAnswered, Known, Bat!FilesAnswered
<1>2. Bat!EngineKept
  BY DEF BatInv, UploadsHold, EngineHeld, Bat!EngineKept, Bat!Calm, Bat!UnderWay
<1>3. Bat!ProgressFits
  <2>1. Bat!Calm => ~uploading /\ progress = [at |-> 0, of |-> 0]
    BY DEF BatInv, UploadsHold, DisplayFits, Bat!Calm, Bat!UnderWay, Visible
  <2>2. reload.phase = "working" =>
          /\ Bat!Cardinality(reload.read) = reload.total => reload.done + reload.failed < reload.total
          /\ reload.done + reload.failed + Bat!Cardinality(reload.left) <= Bat!Cardinality(reload.read)
    <3> SUFFICES ASSUME reload.phase = "working"
                 PROVE  /\ Bat!Cardinality(reload.read) = reload.total => reload.done + reload.failed < reload.total
                        /\ reload.done + reload.failed + Bat!Cardinality(reload.left) <= Bat!Cardinality(reload.read)
      OBVIOUS
    <3>1. /\ IsFiniteSet(reload.left) /\ IsFiniteSet(reload.read) /\ reload.left # {}
          /\ reload.done \in Nat /\ reload.failed \in Nat
          /\ reload.done + reload.failed + Cardinality(reload.left) <= Cardinality(reload.read)
      BY DEF BatInv, ReloadFits
    <3>2. Cardinality(reload.left) \in Nat \ {0} /\ Cardinality(reload.read) \in Nat
      BY <3>1, FS_CardinalityType, FS_EmptySet
    <3>3. Bat!Cardinality(reload.left) = Cardinality(reload.left) /\ Bat!Cardinality(reload.read) = Cardinality(reload.read)
      BY SameSize
    <3> QED BY <3>1, <3>2, <3>3
  <2> QED BY <2>1, <2>2 DEF BatInv, UploadsHold, DisplayFits, Bat!ProgressFits, Visible
<1> QED BY <1>1, <1>2, <1>3

-----------------------------------------------------------------------------
(* Data sources: the lists. *)

\* A list without two sources of one path; and one in which of two there is a newer.
Fine(l) == l \in Seq(Sou!Source) /\ \A i, j \in DOMAIN l : l[i].path = l[j].path => i = j
Keyed(l) ==
  l \in Seq(Sou!Source) /\ \A i, j \in DOMAIN l : l[i].path = l[j].path /\ l[i].at = l[j].at => i = j

LEMMA FineKeyed == \A l : Fine(l) => Keyed(l)
BY DEF Fine, Keyed

LEMMA LastingIs ==
  ASSUME NEW l, NEW e
  PROVE  e \in Sou!Lasting(l) <=> \E i \in DOMAIN l : l[i].kind # "volatile" /\ e = Sou!Identity(l[i])
BY DEF Sou!Lasting, Sou!ToSet

LEMMA SourceOf ==
  ASSUME NEW l, l \in Seq(Sou!Source)
  PROVE  /\ Len(l) \in Nat /\ DOMAIN l = 1 .. Len(l)
         /\ \A i \in DOMAIN l :
              /\ l[i] \in Sou!Source /\ l[i].path \in STRING /\ l[i].at \in Nat
              /\ l[i] = [path |-> l[i].path, at |-> l[i].at, kind |-> l[i].kind, attached |-> l[i].attached,
                         failed |-> l[i].failed]
<1> DEFINE S == Sou!Source
<1>1. \A x \in S : /\ x.path \in STRING /\ x.at \in Nat
                   /\ x = [path |-> x.path, at |-> x.at, kind |-> x.kind, attached |-> x.attached, failed |-> x.failed]
  BY DEF Sou!Source
<1> HIDE DEF S
<1>2. l \in Seq(S)
  BY DEF S
<1>3. Len(l) \in Nat /\ DOMAIN l = 1 .. Len(l) /\ \A i \in DOMAIN l : l[i] \in S
  BY <1>2
<1> QED BY <1>1, <1>3 DEF S

LEMMA NoLasting == Sou!Lasting(<< >>) = {} /\ Fine(<< >>)
BY DEF Sou!Lasting, Sou!ToSet, Fine

\* A list with the sources of l, some of whose other marks may differ.
Alike(m, l) ==
  /\ DOMAIN m = DOMAIN l
  /\ \A i \in DOMAIN l : m[i].path = l[i].path /\ m[i].at = l[i].at /\ m[i].kind = l[i].kind

LEMMA AlikeLasting ==
  ASSUME NEW l, NEW m, Alike(m, l)
  PROVE  Sou!Lasting(m) = Sou!Lasting(l)
<1>1. \A e : e \in Sou!Lasting(m) <=> e \in Sou!Lasting(l)
  BY LastingIs DEF Alike, Sou!Identity
<1> QED BY <1>1

LEMMA AlikeFine ==
  ASSUME NEW l, Fine(l), NEW m, Alike(m, l), \A i \in DOMAIN l : m[i] \in Sou!Source,
         m = [i \in DOMAIN l |-> m[i]]
  PROVE  Fine(m)
<1> DEFINE S == Sou!Source
<1> HIDE DEF S
<1>1. Len(l) \in Nat /\ DOMAIN l = 1 .. Len(l)
  BY SourceOf DEF Fine
<1>2. m = [i \in 1 .. Len(l) |-> m[i]] /\ \A i \in 1 .. Len(l) : m[i] \in S
  BY <1>1 DEF S
<1>3. m \in Seq(S)
  BY <1>1, <1>2
<1> QED BY <1>3 DEF Fine, Alike, S

LEMMA SyncedIs ==
  ASSUME NEW l, Fine(l)
  PROVE  Fine(Sou!Synced(l)) /\ Sou!Lasting(Sou!Synced(l)) = Sou!Lasting(l)
<1> DEFINE m == [i \in DOMAIN l |-> [l[i] EXCEPT !.attached = FALSE]]
<1>1. l # Sou!NoList
  <2> SUFFICES ASSUME l = Sou!NoList PROVE FALSE
    OBVIOUS
  <2>1. 1 \in DOMAIN l /\ l[1].kind = "none"
    <3>1. PICK x : /\ x = [path |-> "", at |-> 0, kind |-> "none", attached |-> FALSE, failed |-> FALSE]
                   /\ Sou!NoList = <<x>>
      BY DEF Sou!NoList
    <3>2. x.kind = "none"
      BY <3>1
    <3>3. 1 \in DOMAIN <<x>> /\ <<x>>[1] = x
      OBVIOUS
    <3>4. l = <<x>>
      BY <3>1
    <3> HIDE DEF m
    <3> QED BY Zenon, <3>2, <3>3, <3>4
  <2>2. l[1] \in Sou!Source
    BY <2>1, SourceOf DEF Fine
  <2> QED BY <2>1, <2>2 DEF Sou!Source
<1>2. Sou!Synced(l) = m
  BY <1>1 DEF Sou!Synced, Sou!Value
<1>3. Alike(m, l) /\ \A i \in DOMAIN l : m[i] \in Sou!Source
  <2>1. ASSUME NEW i \in DOMAIN l
        PROVE  /\ m[i] \in Sou!Source
               /\ m[i].path = l[i].path /\ m[i].at = l[i].at /\ m[i].kind = l[i].kind
    <3>1. m[i] = [l[i] EXCEPT !.attached = FALSE]
      OBVIOUS
    <3>2. PICK x \in Sou!Source : x = l[i]
      BY SourceOf DEF Fine
    <3>3. m[i] = [x EXCEPT !.attached = FALSE]
      BY <3>1, <3>2
    <3> HIDE DEF m
    <3> QED BY <3>2, <3>3 DEF Sou!Source
  <2>2. DOMAIN m = DOMAIN l
    OBVIOUS
  <2> HIDE DEF m
  <2> QED BY <2>1, <2>2 DEF Alike
<1>4. m = [i \in DOMAIN l |-> m[i]]
  OBVIOUS
<1> HIDE DEF m
<1> QED BY <1>2, <1>3, <1>4, AlikeFine, AlikeLasting

LEMMA SyncedNone == Sou!Synced(Sou!NoList) = << >>
BY DEF Sou!Synced, Sou!Value

\* A filtered list has the sources that are kept.
LEMMA FilteredLasting ==
  ASSUME NEW l, l \in Seq(Sou!Source), NEW K, K \subseteq DOMAIN l,
         \A i, j \in K : l[i].path = l[j].path => i = j
  PROVE  /\ Fine(Sou!Filtered(l, K))
         /\ \A i \in DOMAIN Sou!Filtered(l, K) : \E k \in K : Sou!Filtered(l, K)[i] = l[k]
         /\ \A k \in K : \E i \in DOMAIN Sou!Filtered(l, K) : Sou!Filtered(l, K)[i] = l[k]
<1> DEFINE S == Sou!Source
           f == Filtered(l, K)
<1>1. Sou!Filtered(l, K) = f
  BY SameFilter
<1> HIDE DEF S
<1>2. Len(l) \in Nat /\ DOMAIN l = 1 .. Len(l) /\ \A i \in DOMAIN l : l[i] \in S
  BY SourceOf DEF S
<1>3. K \subseteq Nat /\ IsFiniteSet(K)
  <2>1. IsFiniteSet(1 .. Len(l))
    BY <1>2, FS_Interval
  <2> QED BY <1>2, <2>1, FS_Subset
<1>4. EachOnce(f, l, K)
  BY <1>3, FilteredAll
<1>5. PICK n \in Nat : n = Cardinality(K)
  BY <1>4 DEF EachOnce
<1>6. PICK p \in [1 .. n -> K] :
        /\ f = [m \in 1 .. n |-> l[p[m]]]
        /\ \A j, m \in 1 .. n : p[j] = p[m] => j = m
        /\ \A k \in K : \E m \in 1 .. n : p[m] = k
  BY <1>4, <1>5 DEF EachOnce
<1> HIDE DEF f
<1>7. DOMAIN f = 1 .. n /\ \A m \in 1 .. n : f[m] = l[p[m]] /\ f[m] \in S
  BY <1>2, <1>6
<1>8. f \in Seq(S)
  BY <1>2, <1>6
<1>9. ASSUME NEW i \in DOMAIN f, NEW j \in DOMAIN f, f[i].path = f[j].path PROVE i = j
  <2>1. p[i] \in K /\ p[j] \in K /\ l[p[i]].path = l[p[j]].path
    BY <1>7, <1>9
  <2> QED BY <1>6, <1>7, <2>1
<1>10. Fine(f)
  BY <1>8, <1>9 DEF Fine, S
<1>11. /\ \A i \in DOMAIN f : \E k \in K : f[i] = l[k]
       /\ \A k \in K : \E i \in DOMAIN f : f[i] = l[k]
  BY <1>6, <1>7
<1> QED BY <1>1, <1>10, <1>11

LEMMA WithoutIs ==
  ASSUME NEW l, Fine(l), NEW path
  PROVE  /\ Fine(Sou!Without(l, path))
         /\ \A i \in DOMAIN Sou!Without(l, path) : Sou!Without(l, path)[i].path # path
         /\ Sou!Lasting(Sou!Without(l, path)) = {x \in Sou!Lasting(l) : x.path # path}
<1> DEFINE K == {i \in DOMAIN l : l[i].path # path}
           f == Sou!Filtered(l, K)
<1>1. Sou!Without(l, path) = f
  BY DEF Sou!Without
<1>2. /\ K \subseteq DOMAIN l /\ l \in Seq(Sou!Source)
      /\ \A i, j \in K : l[i].path = l[j].path => i = j
  BY DEF Fine
<1>3. \A i \in DOMAIN l : i \in K <=> l[i].path # path
  OBVIOUS
<1> HIDE DEF K
<1>4. /\ Fine(f)
      /\ \A i \in DOMAIN f : \E k \in K : f[i] = l[k]
      /\ \A k \in K : \E i \in DOMAIN f : f[i] = l[k]
  BY <1>2, FilteredLasting
<1> HIDE DEF f
<1>5. \A i \in DOMAIN f : f[i].path # path
  BY <1>2, <1>3, <1>4
<1>6. ASSUME NEW e PROVE e \in Sou!Lasting(f) <=> e \in Sou!Lasting(l) /\ e.path # path
  <2>1. ASSUME e \in Sou!Lasting(f) PROVE e \in Sou!Lasting(l) /\ e.path # path
    <3>1. PICK i \in DOMAIN f : f[i].kind # "volatile" /\ e = Sou!Identity(f[i])
      BY <2>1, LastingIs
    <3>2. PICK k \in K : f[i] = l[k]
      BY <1>4
    <3>3. k \in DOMAIN l /\ l[k].path # path
      BY <1>2, <1>3
    <3>4. e.path = l[k].path
      BY <3>1, <3>2 DEF Sou!Identity
    <3> QED BY <3>1, <3>2, <3>3, <3>4, LastingIs
  <2>2. ASSUME e \in Sou!Lasting(l), e.path # path PROVE e \in Sou!Lasting(f)
    <3>1. PICK k \in DOMAIN l : l[k].kind # "volatile" /\ e = Sou!Identity(l[k])
      BY <2>2, LastingIs
    <3>2. e.path = l[k].path
      BY <3>1 DEF Sou!Identity
    <3>3. PICK i \in DOMAIN f : f[i] = l[k]
      BY <1>3, <1>4, <2>2, <3>2
    <3> QED BY <3>1, <3>3, LastingIs
  <2> QED BY <2>1, <2>2
<1> QED BY <1>1, <1>4, <1>5, <1>6

LEMMA AppendIs ==
  ASSUME NEW l, Fine(l), NEW s \in Sou!Source, \A i \in DOMAIN l : l[i].path # s.path
  PROVE  /\ Fine(Append(l, s))
         /\ Sou!Lasting(Append(l, s)) =
              Sou!Lasting(l) \cup (IF s.kind = "volatile" THEN {} ELSE {Sou!Identity(s)})
<1> DEFINE S == Sou!Source
           t == Append(l, s)
           n == Len(l)
<1> HIDE DEF S
<1>1. l \in Seq(S) /\ s \in S
  BY DEF Fine, S
<1>2. /\ t \in Seq(S) /\ n \in Nat /\ DOMAIN l = 1 .. n /\ DOMAIN t = 1 .. n + 1
      /\ t[n + 1] = s /\ \A i \in 1 .. n : t[i] = l[i]
  BY <1>1
<1> HIDE DEF t, n
<1>3. \A i \in DOMAIN t : i = n + 1 \/ (i \in DOMAIN l /\ t[i] = l[i])
  BY <1>2
<1>4. n + 1 \in DOMAIN t /\ \A i \in DOMAIN l : i \in DOMAIN t
  BY <1>2
<1>5. Fine(t)
  <2>1. ASSUME NEW i \in DOMAIN t, NEW j \in DOMAIN t, t[i].path = t[j].path PROVE i = j
    BY <1>2, <1>3, <2>1 DEF Fine
  <2> QED BY <1>2, <2>1 DEF Fine, S
<1>6. ASSUME NEW e
      PROVE  e \in Sou!Lasting(t) <=> e \in Sou!Lasting(l) \/ (s.kind # "volatile" /\ e = Sou!Identity(s))
  <2>1. ASSUME e \in Sou!Lasting(t)
        PROVE  e \in Sou!Lasting(l) \/ (s.kind # "volatile" /\ e = Sou!Identity(s))
    <3>1. PICK i \in DOMAIN t : t[i].kind # "volatile" /\ e = Sou!Identity(t[i])
      BY <2>1, LastingIs
    <3> QED BY <1>2, <1>3, <3>1, LastingIs
  <2>2. ASSUME e \in Sou!Lasting(l) PROVE e \in Sou!Lasting(t)
    <3>1. PICK i \in DOMAIN l : l[i].kind # "volatile" /\ e = Sou!Identity(l[i])
      BY <2>2, LastingIs
    <3>2. i \in DOMAIN t /\ t[i] = l[i]
      BY <1>2, <1>4
    <3> QED BY <3>1, <3>2, LastingIs
  <2>3. ASSUME s.kind # "volatile", e = Sou!Identity(s) PROVE e \in Sou!Lasting(t)
    BY <1>2, <1>4, <2>3, LastingIs
  <2> QED BY <2>1, <2>2, <2>3
<1> QED BY <1>5, <1>6 DEF t

\* addDataSource: the new source, and the others but one of its path.
LEMMA AddedIs ==
  ASSUME NEW l, Fine(l), NEW s \in Sou!Source
  PROVE  /\ Fine(Append(Sou!Without(l, s.path), s))
         /\ Sou!Lasting(Append(Sou!Without(l, s.path), s)) =
              {x \in Sou!Lasting(l) : x.path # s.path} \cup
              (IF s.kind = "volatile" THEN {} ELSE {Sou!Identity(s)})
<1> DEFINE w == Sou!Without(l, s.path)
<1>1. /\ Fine(w) /\ \A i \in DOMAIN w : w[i].path # s.path
      /\ Sou!Lasting(w) = {x \in Sou!Lasting(l) : x.path # s.path}
  BY WithoutIs
<1> HIDE DEF w
<1>2. Fine(Append(w, s)) /\ Sou!Lasting(Append(w, s)) =
        Sou!Lasting(w) \cup (IF s.kind = "volatile" THEN {} ELSE {Sou!Identity(s)})
  BY <1>1, AppendIs
<1> QED BY <1>1, <1>2 DEF w

\* removeDataSource: only the source goes that has the path.
LEMMA RemovedIs ==
  ASSUME NEW l, Fine(l), NEW k \in DOMAIN l
  PROVE  Sou!Lasting(Sou!Without(l, l[k].path)) = Sou!Lasting(l) \ {Sou!Identity(l[k])}
<1>1. Sou!Lasting(Sou!Without(l, l[k].path)) = {x \in Sou!Lasting(l) : x.path # l[k].path}
  BY WithoutIs
<1>2. ASSUME NEW e \in Sou!Lasting(l) PROVE e.path # l[k].path <=> e # Sou!Identity(l[k])
  <2>1. PICK i \in DOMAIN l : l[i].kind # "volatile" /\ e = Sou!Identity(l[i])
    BY LastingIs
  <2>2. e.path = l[i].path /\ (l[i].path = l[k].path => i = k)
    BY <2>1 DEF Sou!Identity, Fine
  <2>3. Sou!Identity(l[k]).path = l[k].path
    BY DEF Sou!Identity
  <2> QED BY <2>1, <2>2, <2>3
<1> QED BY <1>1, <1>2

LEMMA AttachedIs ==
  ASSUME NEW l, Fine(l), NEW k \in DOMAIN l
  PROVE  LET m == [l EXCEPT ![k].attached = ~@] IN Fine(m) /\ Sou!Lasting(m) = Sou!Lasting(l)
<1> DEFINE m == [l EXCEPT ![k].attached = ~@]
           S == Sou!Source
<1>1. \A x \in S : [x EXCEPT !.attached = ~@] \in S
  BY DEF Sou!Source
<1>2. \A x : /\ [x EXCEPT !.attached = ~@].path = x.path
             /\ [x EXCEPT !.attached = ~@].at = x.at
             /\ [x EXCEPT !.attached = ~@].kind = x.kind
  OBVIOUS
<1>3. DOMAIN m = DOMAIN l /\ m = [i \in DOMAIN l |-> m[i]]
      /\ \A i \in DOMAIN l : m[i] = IF i = k THEN [l[k] EXCEPT !.attached = ~@] ELSE l[i]
  <2>1. Len(l) \in Nat /\ DOMAIN l = 1 .. Len(l)
    BY SourceOf DEF Fine
  <2>2. m = [i \in DOMAIN l |-> IF i = k THEN [l[k] EXCEPT !.attached = ~@] ELSE l[i]]
    OBVIOUS
  <2> HIDE DEF m
  <2> QED BY <2>2
<1> HIDE DEF m
<1>4. \A i \in DOMAIN l : l[i] \in S
  BY SourceOf DEF Fine
<1>5. ASSUME NEW i \in DOMAIN l
      PROVE  m[i] \in S /\ m[i].path = l[i].path /\ m[i].at = l[i].at /\ m[i].kind = l[i].kind
  <2>1. PICK x \in S : x = l[i]
    BY <1>4
  <2>2. m[i] = x \/ m[i] = [x EXCEPT !.attached = ~@]
    BY <1>3, <2>1
  <2> HIDE DEF S
  <2> QED BY <1>1, <1>2, <2>1, <2>2
<1>6. Alike(m, l)
  BY <1>3, <1>5 DEF Alike
<1>7. Fine(m)
  BY <1>3, <1>5, <1>6, AlikeFine
<1> QED BY <1>6, <1>7, AlikeLasting DEF m

-----------------------------------------------------------------------------
(* Data sources: what is loaded. *)

\* There is a time after all of a list.
LEMMA TimesBounded ==
  ASSUME NEW l, l \in Seq(Sou!Source)
  PROVE  \E b \in Nat : \A i \in DOMAIN l : l[i].at <= b
<1> DEFINE at(i) == l[i].at
           n == Len(l)
           U == {m \in Nat : m <= n /\ ~\E b \in Nat : \A i \in 1 .. m : at(i) <= b}
<1>1. n \in Nat /\ DOMAIN l = 1 .. n /\ \A i \in 1 .. n : at(i) \in Nat
  BY SourceOf
<1> HIDE DEF at, n
<1>2. CASE U = {}
  <2>1. \E b \in Nat : \A i \in 1 .. n : at(i) <= b
    <3>1. n <= n /\ n \in Nat
      BY <1>1
    <3>2. n \notin U
      BY <1>2
    <3> QED BY <3>1, <3>2
  <2> QED BY <1>1, <2>1 DEF at
<1>3. CASE U # {}
  <2>1. U \subseteq Nat
    OBVIOUS
  <2>2. PICK m \in U : \A x \in U : m <= x
    <3> HIDE DEF U
    <3> QED BY <1>3, <2>1, Least
  <2>3. m # 0
    <3> SUFFICES ASSUME m = 0 PROVE FALSE
      OBVIOUS
    <3>1. \A i \in 1 .. m : at(i) <= 0
      OBVIOUS
    <3> QED BY <3>1
  <2>4. m - 1 \in Nat /\ m - 1 <= n /\ m \in 1 .. n
    BY <1>1, <2>3
  <2>5. m - 1 \notin U
    <3> HIDE DEF U
    <3> QED BY <2>1, <2>2, <2>4
  <2>6. PICK b \in Nat : \A i \in 1 .. m - 1 : at(i) <= b
    BY <2>4, <2>5
  <2>7. PICK a \in Nat : a = at(m)
    BY <1>1, <2>4
  <2>8. \A i \in 1 .. m : at(i) <= a + b
    <3> SUFFICES ASSUME NEW i \in 1 .. m PROVE at(i) <= a + b
      OBVIOUS
    <3>1. at(i) \in Nat
      BY <1>1, <2>4
    <3>2. i = m \/ i \in 1 .. m - 1
      BY <2>4
    <3>3. PICK c \in Nat : c = at(i)
      BY <3>1
    <3>4. c = a \/ c <= b
      BY <2>6, <2>7, <3>2, <3>3
    <3>5. c <= a + b
      BY <3>4
    <3> QED BY <3>3, <3>5
  <2>9. a + b \in Nat
    OBVIOUS
  <2>10. m \notin U
    BY <2>8, <2>9
  <2> QED BY <2>2, <2>10
<1> QED BY <1>2, <1>3

LEMMA NewestIs ==
  ASSUME NEW l, l \in Seq(Sou!Source), NEW i \in DOMAIN l
  PROVE  LET x == Sou!Newest({s \in Sou!ToSet(l) : s.path = l[i].path})
         IN \E k \in DOMAIN l : /\ x = l[k] /\ l[k].path = l[i].path
                                /\ \A j \in DOMAIN l : l[j].path = l[i].path => l[j].at <= l[k].at
<1> DEFINE S == {s \in Sou!ToSet(l) : s.path = l[i].path}
           J == {k \in DOMAIN l : l[k].path = l[i].path}
           A == {l[k].at : k \in J}
<1>1. \A x : x \in S <=> \E k \in J : x = l[k]
  BY DEF Sou!ToSet
<1>2. A # {} /\ A \subseteq Nat
  <2>1. \A k \in DOMAIN l : l[k].at \in Nat
    BY SourceOf
  <2>2. i \in J
    OBVIOUS
  <2>3. A # {}
    BY <2>2
  <2> QED BY <2>1, <2>3
<1>3. PICK b \in Nat : \A k \in DOMAIN l : l[k].at <= b
  BY TimesBounded
<1>4. \A a \in A : a <= b
  BY <1>3
<1>5. Max(A) \in A /\ \A a \in A : a <= Max(A)
  <2> HIDE DEF A
  <2> QED BY <1>2, <1>4, Greatest
<1>6. \E x \in S : \A y \in S : y.at <= x.at
  <2>1. PICK k \in J : l[k].at = Max(A)
    BY <1>5
  <2>2. \A j \in J : l[j].at <= l[k].at
    BY <1>5, <2>1
  <2> HIDE DEF S, J, A
  <2> QED BY <1>1, <2>2
<1>7. Sou!Newest(S) \in S /\ \A y \in S : y.at <= Sou!Newest(S).at
  <2> HIDE DEF S
  <2> QED BY <1>6 DEF Sou!Newest
<1>8. PICK x : x = Sou!Newest(S)
  OBVIOUS
<1>9. \E k \in J : x = l[k] /\ \A j \in J : l[j].at <= l[k].at
  <2>1. x \in S /\ \A y \in S : y.at <= x.at
    BY <1>7, <1>8
  <2> HIDE DEF S, J
  <2> QED BY <1>1, <2>1
<1>10. \A k \in DOMAIN l : k \in J <=> l[k].path = l[i].path
  OBVIOUS
<1>11. J \subseteq DOMAIN l
  OBVIOUS
<1> HIDE DEF S, J
<1>12. \E k \in DOMAIN l : /\ x = l[k] /\ l[k].path = l[i].path
                           /\ \A j \in DOMAIN l : l[j].path = l[i].path => l[j].at <= l[k].at
  BY <1>9, <1>10, <1>11
<1> QED BY <1>8, <1>12 DEF S

\* The sources of l that are the newest of their path, but volatile ones.
Newer(l, e) ==
  \E k \in DOMAIN l : /\ l[k].kind # "volatile" /\ e = Sou!Identity(l[k])
                      /\ \A j \in DOMAIN l : l[j].path = l[k].path => l[j].at <= l[k].at

LEMMA CleanedIs ==
  ASSUME NEW l, Keyed(l)
  PROVE  Fine(Sou!Cleaned(l)) /\ \A e : e \in Sou!Lasting(Sou!Cleaned(l)) <=> Newer(l, e)
<1> DEFINE d == [i \in DOMAIN l |-> Sou!Newest({s \in Sou!ToSet(l) : s.path = l[i].path})]
           K == {i \in DOMAIN l : /\ \A j \in 1 .. i - 1 : l[j].path # l[i].path
                                  /\ d[i].kind # "volatile"}
           f == Sou!Filtered(d, K)
<1>1. Sou!Cleaned(l) = f
  BY DEF Sou!Cleaned
<1>2. l \in Seq(Sou!Source)
  BY DEF Keyed
<1>3. ASSUME NEW i \in DOMAIN l
      PROVE  \E k \in DOMAIN l : /\ d[i] = l[k] /\ l[k].path = l[i].path
                                 /\ \A j \in DOMAIN l : l[j].path = l[i].path => l[j].at <= l[k].at
  BY <1>2, NewestIs
<1>4. d = [i \in DOMAIN l |-> d[i]] /\ DOMAIN d = DOMAIN l
  OBVIOUS
<1> HIDE DEF d
<1>5. PICK n \in Nat : n = Len(l) /\ DOMAIN l = 1 .. n /\ \A i \in 1 .. n : l[i] \in Sou!Source
  BY <1>2, SourceOf
<1>6. d \in Seq(Sou!Source)
  <2> DEFINE S == Sou!Source
  <2>1. \A i \in 1 .. n : d[i] \in S
    BY <1>3, <1>5
  <2> HIDE DEF S
  <2>2. d \in [1 .. n -> S]
    BY <1>4, <1>5, <2>1
  <2>3. d \in Seq(S)
    BY <2>2
  <2> QED BY <2>3 DEF S
<1>7. \A i \in DOMAIN l : d[i].path = l[i].path
  BY <1>3
<1>8. ASSUME NEW i \in K, NEW j \in K, d[i].path = d[j].path PROVE i = j
  <2>1. i \in 1 .. n /\ j \in 1 .. n /\ l[i].path = l[j].path
    BY <1>5, <1>7, <1>8
  <2>2. ~(i < j) /\ ~(j < i)
    <3>1. \A a \in 1 .. i - 1 : l[a].path # l[i].path
      OBVIOUS
    <3>2. \A a \in 1 .. j - 1 : l[a].path # l[j].path
      OBVIOUS
    <3> HIDE DEF K
    <3>3. i < j => i \in 1 .. j - 1
      BY <2>1
    <3>4. j < i => j \in 1 .. i - 1
      BY <2>1
    <3> QED BY <2>1, <3>1, <3>2, <3>3, <3>4
  <2> QED BY <2>1, <2>2
<1>9. /\ Fine(f)
      /\ \A i \in DOMAIN f : \E k \in K : f[i] = d[k]
      /\ \A k \in K : \E i \in DOMAIN f : f[i] = d[k]
  <2>1. K \subseteq DOMAIN d
    BY <1>4
  <2> HIDE DEF K
  <2> QED BY <1>6, <1>8, <2>1, FilteredLasting
<1> HIDE DEF f
<1>10. ASSUME NEW e, e \in Sou!Lasting(f) PROVE Newer(l, e)
  <2>1. PICK i \in DOMAIN f : f[i].kind # "volatile" /\ e = Sou!Identity(f[i])
    BY <1>10, LastingIs
  <2>2. PICK k \in DOMAIN l : f[i] = d[k]
    BY <1>9
  <2>3. PICK m \in DOMAIN l : /\ d[k] = l[m] /\ l[m].path = l[k].path
                              /\ \A j \in DOMAIN l : l[j].path = l[k].path => l[j].at <= l[m].at
    BY <1>3
  <2> QED BY <2>1, <2>2, <2>3 DEF Newer
<1>11. ASSUME NEW e, Newer(l, e) PROVE e \in Sou!Lasting(f)
  <2>1. PICK k \in DOMAIN l : /\ l[k].kind # "volatile" /\ e = Sou!Identity(l[k])
                              /\ \A j \in DOMAIN l : l[j].path = l[k].path => l[j].at <= l[k].at
    BY <1>11 DEF Newer
  <2> DEFINE I == {i \in DOMAIN l : l[i].path = l[k].path}
  <2>2. I # {} /\ I \subseteq Nat
    BY <1>5
  <2>3. PICK i \in I : \A j \in I : i <= j
    <3> HIDE DEF I
    <3> QED BY <2>2, Least
  <2>4. i \in 1 .. n /\ l[i].path = l[k].path
    BY <1>5
  <2>5. \A j \in 1 .. i - 1 : l[j].path # l[i].path
    <3> SUFFICES ASSUME NEW j \in 1 .. i - 1, l[j].path = l[i].path PROVE FALSE
      OBVIOUS
    <3>1. j \in 1 .. n
      BY <2>4
    <3>2. j \in I
      BY <1>5, <2>4, <3>1
    <3> QED BY <2>3, <2>4, <3>2
  <2>6. PICK m \in DOMAIN l : /\ d[i] = l[m] /\ l[m].path = l[i].path
                              /\ \A j \in DOMAIN l : l[j].path = l[i].path => l[j].at <= l[m].at
    BY <1>3, <1>5, <2>4
  <2>7. m = k
    <3>1. l[m].at <= l[k].at /\ l[k].at <= l[m].at
      BY <2>1, <2>4, <2>6
    <3>2. l[m].at \in Nat /\ l[k].at \in Nat
      BY <1>2, SourceOf
    <3>3. l[m].at = l[k].at
      BY <3>1, <3>2
    <3> QED BY <2>4, <2>6, <3>3 DEF Keyed
  <2>8. i \in K
    BY <1>5, <2>1, <2>4, <2>5, <2>6, <2>7
  <2>9. PICK j \in DOMAIN f : f[j] = d[i]
    BY <1>9, <2>8
  <2>10. f[j] = l[k]
    BY <2>6, <2>7, <2>9
  <2> QED BY <2>1, <2>10, LastingIs
<1>12. \A e : e \in Sou!Lasting(f) <=> Newer(l, e)
  BY <1>10, <1>11
<1> QED BY <1>1, <1>9, <1>12

LEMMA LoadedIs ==
  ASSUME NEW l, Keyed(l)
  PROVE  Fine(Sou!Loaded(l)) /\ \A e : e \in Sou!Lasting(Sou!Loaded(l)) <=> Newer(l, e)
<1> DEFINE c == Sou!Cleaned(l)
           m == [i \in DOMAIN c |-> [c[i] EXCEPT !.attached = FALSE, !.failed = c[i].kind = "bare"]]
<1>1. l # Sou!NoList
  <2> SUFFICES ASSUME l = Sou!NoList PROVE FALSE
    OBVIOUS
  <2>1. 1 \in DOMAIN l /\ l[1].kind = "none"
    <3>1. PICK x : /\ x = [path |-> "", at |-> 0, kind |-> "none", attached |-> FALSE, failed |-> FALSE]
                   /\ Sou!NoList = <<x>>
      BY DEF Sou!NoList
    <3>2. x.kind = "none"
      BY <3>1
    <3>3. 1 \in DOMAIN <<x>> /\ <<x>>[1] = x
      OBVIOUS
    <3>4. l = <<x>>
      BY <3>1
    <3> HIDE DEF m
    <3> QED BY Zenon, <3>2, <3>3, <3>4
  <2>2. l[1] \in Sou!Source
    BY <2>1, SourceOf DEF Keyed
  <2> QED BY <2>1, <2>2 DEF Sou!Source
<1>2. Sou!Loaded(l) = m
  BY <1>1 DEF Sou!Loaded, Sou!Value
<1>3. Fine(c) /\ \A e : e \in Sou!Lasting(c) <=> Newer(l, e)
  BY CleanedIs
<1> HIDE DEF c
<1>4. ASSUME NEW i \in DOMAIN c
      PROVE  /\ m[i] \in Sou!Source
             /\ m[i].path = c[i].path /\ m[i].at = c[i].at /\ m[i].kind = c[i].kind
  <2>1. PICK x \in Sou!Source : x = c[i]
    BY <1>3, SourceOf DEF Fine
  <2>2. CASE x.kind = "bare"
    <3>1. m[i] = [x EXCEPT !.attached = FALSE, !.failed = TRUE]
      BY <2>1, <2>2
    <3> HIDE DEF m
    <3> QED BY <2>1, <3>1 DEF Sou!Source
  <2>3. CASE x.kind # "bare"
    <3>1. m[i] = [x EXCEPT !.attached = FALSE, !.failed = FALSE]
      BY <2>1, <2>3
    <3> HIDE DEF m
    <3> QED BY <2>1, <3>1 DEF Sou!Source
  <2> QED BY <2>2, <2>3
<1>5. DOMAIN m = DOMAIN c /\ m = [i \in DOMAIN c |-> m[i]]
  OBVIOUS
<1> HIDE DEF m
<1>6. Alike(m, c)
  BY <1>4, <1>5 DEF Alike
<1>7. Fine(m)
  BY <1>3, <1>4, <1>5, <1>6, AlikeFine
<1>8. Sou!Lasting(m) = Sou!Lasting(c)
  BY <1>6, AlikeLasting
<1> QED BY <1>2, <1>3, <1>7, <1>8

\* A list without two sources of one path loses nothing.
LEMMA LoadedFine ==
  ASSUME NEW l, Fine(l)
  PROVE  Fine(Sou!Loaded(l)) /\ Sou!Lasting(Sou!Loaded(l)) = Sou!Lasting(l)
<1>1. Keyed(l)
  BY FineKeyed
<1>2. Fine(Sou!Loaded(l)) /\ \A e : e \in Sou!Lasting(Sou!Loaded(l)) <=> Newer(l, e)
  BY <1>1, LoadedIs
<1>3. ASSUME NEW e PROVE Newer(l, e) <=> e \in Sou!Lasting(l)
  <2>1. \A k \in DOMAIN l : l[k].at \in Nat
    BY SourceOf DEF Fine
  <2>2. \A k \in DOMAIN l : \A j \in DOMAIN l : l[j].path = l[k].path => l[j].at <= l[k].at
    BY <2>1 DEF Fine
  <2> QED BY <2>2, LastingIs DEF Newer
<1> QED BY <1>2, <1>3

LEMMA LoadedNone == Sou!Loaded(Sou!NoList) = << >>
<1> DEFINE c == Sou!Cleaned(<< >>)
<1>1. Sou!Loaded(Sou!NoList) =
        [i \in DOMAIN c |-> [c[i] EXCEPT !.attached = FALSE, !.failed = c[i].kind = "bare"]]
  BY DEF Sou!Loaded, Sou!Value
<1>2. DOMAIN c = {}
  <2>1. Keyed(<< >>)
    BY DEF Keyed
  <2>2. \A e : ~Newer(<< >>, e)
    BY DEF Newer
  <2> DEFINE d == [i \in DOMAIN << >> |-> Sou!Newest({s \in Sou!ToSet(<< >>) : s.path = << >>[i].path})]
             K == {i \in DOMAIN << >> : /\ \A j \in 1 .. i - 1 : << >>[j].path # << >>[i].path
                                        /\ d[i].kind # "volatile"}
  <2>3. c = Sou!Filtered(d, K)
    BY DEF Sou!Cleaned
  <2>4. K = {}
    OBVIOUS
  <2> HIDE DEF d, K
  <2>5. c = Filtered(d, {})
    BY <2>3, <2>4, SameFilter
  <2>6. Cardinality({}) = 0
    BY FS_EmptySet
  <2> HIDE DEF c
  <2>7. DOMAIN Filtered(d, {}) = 1 .. Cardinality({})
    BY DEF Filtered, Placed
  <2> QED BY <2>5, <2>6, <2>7
<1> HIDE DEF c
<1> DEFINE m == [i \in DOMAIN c |-> [c[i] EXCEPT !.attached = FALSE, !.failed = c[i].kind = "bare"]]
<1>3. DOMAIN m = {}
  BY <1>2
<1>4. m = [i \in DOMAIN m |-> m[i]]
  OBVIOUS
<1> HIDE DEF m
<1>5. m = << >>
  BY <1>3, <1>4
<1> QED BY <1>1, <1>5 DEF m

-----------------------------------------------------------------------------
(* Data sources: what is always so. *)

Items == {Sou!NoList} \cup {l \in Seq(Sou!Source) : Fine(l)}

\* The sources that an item of the storage stands for.
Means(item) == Sou!Lasting(Sou!Loaded(item))

SouTypes ==
  /\ open \subseteq Windows /\ timers \subseteq open
  /\ lists = [p \in Windows |-> lists[p]] /\ \A p \in Windows : Fine(lists[p])
  /\ boxes = [p \in Windows |-> boxes[p]] /\ \A p \in Windows : boxes[p] \in Seq(Items)
  /\ \A p \in Windows \ open : boxes[p] = << >>
  /\ kept \in Items \/ Keyed(kept)
  /\ acts \in Nat /\ disturbed \in BOOLEAN

\* What page p has still to receive is what is wanted, and so is what it shows if it has
\* still to save it or has nothing to receive.
Hears(p) ==
  /\ \A k \in 1 .. Len(boxes[p]) : Means(boxes[p][k]) = wanted
  /\ p \in timers \/ boxes[p] = << >> => Sou!Lasting(lists[p]) = wanted

InStep == Means(kept) = wanted /\ \A p \in open : Hears(p)

\* Page w shows what is wanted and has still to save it; the others show what is stored.
Ahead(w) ==
  /\ w \in open /\ w \in timers /\ boxes[w] = << >> /\ Sou!Lasting(lists[w]) = wanted
  /\ \A p \in open \ {w} : ~Sou!Busy(p) /\ Sou!Lasting(lists[p]) = Means(kept)

SouInv == SouTypes /\ (~disturbed => InStep \/ \E w \in open : Ahead(w))

LEMMA ItemIs ==
  ASSUME NEW l \in Items
  PROVE  Fine(Sou!Synced(l)) /\ Sou!Lasting(Sou!Synced(l)) = Means(l)
BY SyncedIs, SyncedNone, LoadedFine, LoadedNone, NoLasting DEF Items, Means

LEMMA KeptLoads == ASSUME SouTypes PROVE Fine(Sou!Loaded(kept))
BY LoadedIs, LoadedFine, LoadedNone, NoLasting DEF SouTypes, Items

\* Nobody else is busy: page w shows what is wanted, the others what is stored.
LEMMA CalmBefore ==
  ASSUME SouInv, ~disturbed, NEW w \in open, boxes[w] = << >>, \A p \in open \ {w} : ~Sou!Busy(p)
  PROVE  /\ Sou!Lasting(lists[w]) = wanted
         /\ \A p \in open \ {w} : Sou!Lasting(lists[p]) = Means(kept)
<1>1. CASE InStep
  BY <1>1 DEF InStep, Hears, Sou!Busy
<1>2. ASSUME NEW v \in open, Ahead(v)
      PROVE  /\ Sou!Lasting(lists[w]) = wanted
             /\ \A p \in open \ {w} : Sou!Lasting(lists[p]) = Means(kept)
  <2>1. v = w
    BY <1>2 DEF Ahead, Sou!Busy
  <2> QED BY <1>2, <2>1 DEF Ahead
<1> QED BY <1>1, <1>2 DEF SouInv

\* What page w writes reaches the storage and the others, who show or will hear of it.
LEMMA Spreads ==
  ASSUME SouTypes, NEW w \in Windows, NEW item \in Items, NEW rest, Sou!Written(w, item, rest),
         Means(item) = wanted', \A p \in open \ {w} : lists'[p] = lists[p] /\ (p \in timers' <=> p \in timers),
         \/ InStep /\ wanted' = wanted
         \/ \A p \in open \ {w} : ~Sou!Busy(p) /\ Sou!Lasting(lists[p]) = Means(kept)
  PROVE  Means(kept') = wanted' /\ \A p \in open \ {w} : Hears(p)'
<1>1. kept' = item
  BY DEF Sou!Written
<1>2. ASSUME NEW p \in open \ {w} PROVE Hears(p)'
  <2>1. p \in Windows /\ boxes[p] \in Seq(Items)
    BY DEF SouTypes
  <2>2. \/ boxes'[p] = boxes[p] /\ kept = item
        \/ boxes'[p] = Append(boxes[p], item)
    BY <2>1 DEF Sou!Written
  <2>3. /\ \A k \in 1 .. Len(boxes[p]) : Means(boxes[p][k]) = wanted'
        /\ p \in timers \/ (boxes[p] = << >> /\ kept = item) => Sou!Lasting(lists[p]) = wanted'
    <3>1. CASE InStep /\ wanted' = wanted
      BY <3>1 DEF InStep, Hears
    <3>2. CASE ~Sou!Busy(p) /\ Sou!Lasting(lists[p]) = Means(kept)
      <4>1. p \notin timers /\ boxes[p] = << >>
        BY <3>2 DEF Sou!Busy
      <4> QED BY <3>2, <4>1
    <3> QED BY <3>1, <3>2
  <2>4. lists'[p] = lists[p] /\ (p \in timers' <=> p \in timers)
    OBVIOUS
  <2>5. CASE boxes'[p] = boxes[p] /\ kept = item
    BY <2>3, <2>4, <2>5 DEF Hears, Means
  <2>6. CASE boxes'[p] = Append(boxes[p], item)
    <3>1. PICK b \in Seq(Items) : b = boxes[p]
      BY <2>1
    <3>2. PICK c : c = Append(b, item) /\ c = boxes'[p]
      BY <2>6, <3>1
    <3>3. PICK n \in Nat : n = Len(b)
      BY <3>1
    <3>4. /\ Len(c) = n + 1 /\ c # << >> /\ c[n + 1] = item
          /\ \A k \in 1 .. n : c[k] = b[k]
      <4> DEFINE I == Items
      <4>1. b \in Seq(I) /\ item \in I /\ c = Append(b, item)
        BY <3>1, <3>2
      <4> HIDE DEF I
      <4> QED BY <4>1, <3>3
    <3>5. \A k \in 1 .. n : Means(b[k]) = wanted'
      BY <2>3, <3>1, <3>3
    <3>6. \A k \in 1 .. n + 1 : k = n + 1 \/ k \in 1 .. n
      OBVIOUS
    <3>7. \A k \in 1 .. n + 1 : Means(c[k]) = wanted'
      BY <3>4, <3>5, <3>6
    <3>8. p \in timers' => Sou!Lasting(lists'[p]) = wanted'
      BY <2>3, <2>4
    <3> QED BY <3>2, <3>4, <3>7, <3>8 DEF Hears, Means
  <2> QED BY <2>2, <2>5, <2>6
<1> QED BY <1>1, <1>2

LEMMA WrittenTypes ==
  ASSUME SouTypes, NEW w \in open, NEW item \in Items, NEW rest \in Seq(Items), Sou!Written(w, item, rest)
  PROVE  /\ kept' = item /\ boxes' = [p \in Windows |-> boxes'[p]]
         /\ \A p \in Windows : boxes'[p] \in Seq(Items)
         /\ boxes'[w] = rest /\ \A p \in Windows \ open : boxes'[p] = << >>
<1>1. /\ kept' = item
      /\ boxes' = [p \in Windows |-> IF p = w THEN rest
                                     ELSE IF p \in open /\ kept # item THEN Append(boxes[p], item) ELSE boxes[p]]
  BY DEF Sou!Written
<1>2. boxes' = [p \in Windows |-> boxes'[p]]
  BY <1>1
<1>3. ASSUME NEW p \in Windows PROVE boxes'[p] \in Seq(Items)
  <2>1. boxes[p] \in Seq(Items)
    BY DEF SouTypes
  <2>2. Append(boxes[p], item) \in Seq(Items)
    BY <2>1
  <2> QED BY <1>1, <2>1, <2>2
<1>4. boxes'[w] = rest
  BY <1>1 DEF SouTypes
<1>5. ASSUME NEW p \in Windows \ open PROVE boxes'[p] = << >>
  BY <1>1 DEF SouTypes
<1> QED BY <1>1, <1>2, <1>3, <1>4, <1>5

-----------------------------------------------------------------------------
(* Data sources: the steps. *)

\* A user changes the list of page w, which then shows what is wanted.
LEMMA ActKeeps ==
  ASSUME SouInv, NEW w \in Windows, NEW list, Sou!Act(w, list), Fine(list),
         Sou!Lasting(lists[w]) = wanted => Sou!Lasting(list) = wanted'
  PROVE  SouInv'
<1>1. /\ w \in open /\ acts' = acts + 1 /\ open' = open /\ timers' = timers \cup {w}
      /\ lists' = [lists EXCEPT ![w] = list] /\ boxes' = boxes /\ kept' = kept
      /\ disturbed' = (disturbed \/ boxes[w] # << >> \/ \E p \in open \ {w} : Sou!Busy(p))
  BY DEF Sou!Act, Sou!Changes
<1>2. SouTypes
  BY DEF SouInv
<1>3. lists' = [p \in Windows |-> lists'[p]] /\ lists'[w] = list /\ \A p \in Windows \ {w} : lists'[p] = lists[p]
  BY <1>1, <1>2 DEF SouTypes
<1>4. SouTypes'
  BY <1>1, <1>2, <1>3 DEF SouTypes
<1>5. ASSUME ~disturbed' PROVE Ahead(w)'
  <2>1. ~disturbed /\ boxes[w] = << >> /\ \A p \in open \ {w} : ~Sou!Busy(p)
    BY <1>1, <1>5
  <2>2. Sou!Lasting(lists[w]) = wanted /\ \A p \in open \ {w} : Sou!Lasting(lists[p]) = Means(kept)
    BY <1>1, <2>1, CalmBefore
  <2>3. \A p \in open \ {w} : p \in Windows \ {w}
    BY <1>2 DEF SouTypes
  <2> QED BY <1>1, <1>3, <2>1, <2>2, <2>3 DEF Ahead, Sou!Busy, Means
<1> QED BY <1>1, <1>4, <1>5 DEF SouInv

LEMMA AddSourceKeeps == ASSUME SouInv, NEW w \in Windows, Sou!Add(w) PROVE SouInv'
<1>1. PICK path \in Paths, kind \in {"database", "file", "bare", "volatile"} :
        LET s == [path |-> path, at |-> acts + 1, kind |-> kind, attached |-> kind = "database", failed |-> FALSE]
        IN /\ Sou!Act(w, Append(Sou!Without(lists[w], path), s))
           /\ wanted' = {x \in wanted : x.path # path}
                        \cup (IF kind = "volatile" THEN {} ELSE {Sou!Identity(s)})
  BY Zenon DEF Sou!Add
<1> DEFINE s == [path |-> path, at |-> acts + 1, kind |-> kind, attached |-> kind = "database", failed |-> FALSE]
<1>2. Fine(lists[w]) /\ acts \in Nat /\ path \in STRING
  BY SourcesAssumption DEF SouInv, SouTypes
<1>3. s \in Sou!Source /\ s.path = path /\ s.kind = kind
  BY <1>2 DEF Sou!Source
<1> HIDE DEF s
<1>4. /\ Sou!Act(w, Append(Sou!Without(lists[w], path), s))
      /\ wanted' = {x \in wanted : x.path # path}
                   \cup (IF kind = "volatile" THEN {} ELSE {Sou!Identity(s)})
  BY <1>1 DEF s
<1>5. /\ Fine(Append(Sou!Without(lists[w], path), s))
      /\ Sou!Lasting(Append(Sou!Without(lists[w], path), s)) =
           {x \in Sou!Lasting(lists[w]) : x.path # path}
           \cup (IF kind = "volatile" THEN {} ELSE {Sou!Identity(s)})
  BY <1>2, <1>3, AddedIs
<1> DEFINE list == Append(Sou!Without(lists[w], path), s)
<1>6. Sou!Lasting(lists[w]) = wanted => Sou!Lasting(list) = wanted'
  BY <1>4, <1>5
<1> HIDE DEF list
<1>7. Sou!Act(w, list) /\ Fine(list)
  BY <1>4, <1>5 DEF list
<1> QED BY Zenon, <1>6, <1>7, ActKeeps

LEMMA RemoveSourceKeeps == ASSUME SouInv, NEW w \in Windows, Sou!RemoveSource(w) PROVE SouInv'
<1>1. PICK s \in Sou!ToSet(lists[w]) : /\ Sou!Act(w, Sou!Without(lists[w], s.path))
                                       /\ wanted' = wanted \ {Sou!Identity(s)}
  BY DEF Sou!RemoveSource
<1>2. PICK k \in DOMAIN lists[w] : s = lists[w][k]
  BY DEF Sou!ToSet
<1>3. Fine(lists[w])
  BY DEF SouInv, SouTypes
<1> DEFINE list == Sou!Without(lists[w], s.path)
<1>4. Fine(list)
  BY <1>3, WithoutIs
<1>5. Sou!Lasting(list) = Sou!Lasting(lists[w]) \ {Sou!Identity(s)}
  BY <1>2, <1>3, RemovedIs
<1>6. Sou!Act(w, list)
  BY <1>1
<1> HIDE DEF list
<1>7. Sou!Lasting(lists[w]) = wanted => Sou!Lasting(list) = wanted'
  BY <1>1, <1>5
<1> QED BY <1>4, <1>6, <1>7, ActKeeps

LEMMA AttachKeeps == ASSUME SouInv, NEW w \in Windows, Sou!Attach(w) PROVE SouInv'
<1>1. PICK i \in DOMAIN lists[w] : Sou!Act(w, [lists[w] EXCEPT ![i].attached = ~@]) /\ wanted' = wanted
  BY DEF Sou!Attach
<1>2. Fine(lists[w])
  BY DEF SouInv, SouTypes
<1> DEFINE list == [lists[w] EXCEPT ![i].attached = ~@]
<1>3. Fine(list) /\ Sou!Lasting(list) = Sou!Lasting(lists[w])
  BY <1>2, AttachedIs
<1>4. Sou!Act(w, list)
  BY <1>1
<1> HIDE DEF list
<1> QED BY <1>1, <1>3, <1>4, ActKeeps

LEMMA ClearAllKeeps == ASSUME SouInv, NEW w \in Windows, Sou!ClearAll(w) PROVE SouInv'
<1>1. /\ w \in open /\ acts' = acts + 1 /\ open' = open /\ timers' = timers \cup {w}
      /\ lists' = [lists EXCEPT ![w] = << >>] /\ wanted' = {}
      /\ disturbed' = (disturbed \/ boxes[w] # << >> \/ \E p \in open \ {w} : Sou!Busy(p))
      /\ Sou!Written(w, Sou!NoList, boxes[w])
  BY DEF Sou!ClearAll, Sou!Changes
<1>2. SouTypes /\ boxes[w] \in Seq(Items) /\ Sou!NoList \in Items
  BY DEF SouInv, SouTypes, Items
<1>3. lists' = [p \in Windows |-> lists'[p]] /\ lists'[w] = << >> /\ \A p \in Windows \ {w} : lists'[p] = lists[p]
  BY <1>1, <1>2 DEF SouTypes
<1>4. /\ kept' = Sou!NoList /\ boxes' = [p \in Windows |-> boxes'[p]]
      /\ \A p \in Windows : boxes'[p] \in Seq(Items)
      /\ boxes'[w] = boxes[w] /\ \A p \in Windows \ open : boxes'[p] = << >>
  BY <1>1, <1>2, WrittenTypes
<1>5. SouTypes'
  BY <1>1, <1>2, <1>3, <1>4, NoLasting DEF SouTypes
<1>6. ASSUME ~disturbed' PROVE InStep'
  <2>1. ~disturbed /\ boxes[w] = << >> /\ \A p \in open \ {w} : ~Sou!Busy(p)
    BY <1>1, <1>6
  <2>2. \A p \in open \ {w} : Sou!Lasting(lists[p]) = Means(kept)
    BY <1>1, <2>1, CalmBefore
  <2>3. \A p \in open \ {w} : lists'[p] = lists[p] /\ (p \in timers' <=> p \in timers)
    BY <1>1, <1>2, <1>3 DEF SouTypes
  <2>4. Means(Sou!NoList) = wanted'
    BY <1>1, LoadedNone, NoLasting DEF Means
  <2>5. Means(kept') = wanted' /\ \A p \in open \ {w} : Hears(p)'
    BY <1>1, <1>2, <2>1, <2>2, <2>3, <2>4, Spreads
  <2>6. Sou!Lasting(lists'[w]) = wanted'
    BY <1>1, <1>3, NoLasting
  <2>7. Hears(w)'
    BY <1>4, <2>1, <2>6 DEF Hears
  <2> QED BY <1>1, <2>5, <2>7 DEF InStep, Means
<1> QED BY <1>5, <1>6 DEF SouInv

LEMMA SaveKeeps == ASSUME SouInv, NEW w \in Windows, Sou!Save(w) PROVE SouInv'
<1>1. /\ w \in timers /\ timers' = timers \ {w} /\ Sou!Written(w, lists[w], boxes[w])
      /\ lists' = lists /\ open' = open /\ wanted' = wanted /\ disturbed' = disturbed /\ acts' = acts
  BY DEF Sou!Save
<1>2. /\ SouTypes /\ boxes[w] \in Seq(Items) /\ lists[w] \in Items /\ w \in open
      /\ Means(lists[w]) = Sou!Lasting(lists[w])
  BY <1>1, LoadedFine DEF SouInv, SouTypes, Items, Fine, Means
<1>3. /\ kept' = lists[w] /\ boxes' = [p \in Windows |-> boxes'[p]]
      /\ \A p \in Windows : boxes'[p] \in Seq(Items)
      /\ boxes'[w] = boxes[w] /\ \A p \in Windows \ open : boxes'[p] = << >>
  BY <1>1, <1>2, WrittenTypes
<1>4. SouTypes'
  BY <1>1, <1>2, <1>3 DEF SouTypes
<1>5. ASSUME ~disturbed PROVE InStep'
  <2>1. \A p \in open \ {w} : lists'[p] = lists[p] /\ (p \in timers' <=> p \in timers)
    BY <1>1
  <2>2. CASE InStep
    <3>1. Sou!Lasting(lists[w]) = wanted /\ \A k \in 1 .. Len(boxes[w]) : Means(boxes[w][k]) = wanted
      BY <1>1, <1>2, <2>2 DEF InStep, Hears
    <3>2. Means(kept') = wanted' /\ \A p \in open \ {w} : Hears(p)'
      BY <1>1, <1>2, <2>1, <2>2, <3>1, Spreads
    <3>3. Hears(w)'
      BY <1>1, <1>3, <3>1 DEF Hears, Means
    <3> QED BY <1>1, <3>2, <3>3 DEF InStep, Means
  <2>3. ASSUME NEW v \in open, Ahead(v) PROVE InStep'
    <3>1. v = w
      BY <1>1, <1>2, <2>3 DEF Ahead, Sou!Busy
    <3>2. /\ boxes[w] = << >> /\ Sou!Lasting(lists[w]) = wanted
          /\ \A p \in open \ {w} : ~Sou!Busy(p) /\ Sou!Lasting(lists[p]) = Means(kept)
      BY <2>3, <3>1 DEF Ahead
    <3>3. Means(kept') = wanted' /\ \A p \in open \ {w} : Hears(p)'
      BY <1>1, <1>2, <2>1, <3>2, Spreads
    <3>4. Hears(w)'
      BY <1>1, <1>3, <3>2 DEF Hears
    <3> QED BY <1>1, <3>3, <3>4 DEF InStep, Means
  <2> QED BY <1>5, <2>2, <2>3 DEF SouInv
<1> QED BY <1>1, <1>4, <1>5 DEF SouInv

LEMMA ReceiveListKeeps == ASSUME SouInv, NEW w \in Windows, Sou!ReceiveList(w) PROVE SouInv'
<1>1. /\ w \in open /\ boxes[w] # << >> /\ lists' = [lists EXCEPT ![w] = Sou!Synced(Head(boxes[w]))]
      /\ boxes' = [boxes EXCEPT ![w] = Tail(boxes[w])] /\ timers' = timers \cup {w} /\ open' = open
      /\ kept' = kept /\ wanted' = wanted /\ disturbed' = disturbed /\ acts' = acts
  BY DEF Sou!ReceiveList
<1>2. SouTypes /\ boxes[w] \in Seq(Items)
  BY DEF SouInv, SouTypes
<1>3. PICK b \in Seq(Items) : b = boxes[w] /\ b # << >>
  BY <1>1, <1>2
<1>4. PICK n \in Nat : Len(b) = n
  BY <1>3
<1>5. /\ n > 0 /\ Head(b) = b[1] /\ Head(b) \in Items /\ Tail(b) \in Seq(Items)
      /\ Len(Tail(b)) = n - 1 /\ \A k \in 1 .. n - 1 : Tail(b)[k] = b[k + 1]
  <2> DEFINE I == Items
  <2>1. b \in Seq(I) /\ b # << >>
    BY <1>3
  <2> HIDE DEF I
  <2>2. /\ n > 0 /\ Head(b) = b[1] /\ Head(b) \in I /\ Tail(b) \in Seq(I)
        /\ Len(Tail(b)) = n - 1 /\ \A k \in 1 .. n - 1 : Tail(b)[k] = b[k + 1]
    BY <2>1, <1>4
  <2> QED BY <2>2 DEF I
<1>6. Fine(Sou!Synced(Head(b))) /\ Sou!Lasting(Sou!Synced(Head(b))) = Means(Head(b))
  BY <1>5, ItemIs
<1>7. /\ lists' = [p \in Windows |-> lists'[p]] /\ lists'[w] = Sou!Synced(Head(b))
      /\ boxes' = [p \in Windows |-> boxes'[p]] /\ boxes'[w] = Tail(b)
      /\ \A p \in Windows \ {w} : lists'[p] = lists[p] /\ boxes'[p] = boxes[p]
  BY <1>1, <1>2, <1>3 DEF SouTypes
<1>8. \A p \in Windows : Fine(lists'[p]) /\ boxes'[p] \in Seq(Items)
  BY <1>2, <1>5, <1>6, <1>7 DEF SouTypes
<1>9. SouTypes'
  BY <1>1, <1>2, <1>7, <1>8 DEF SouTypes
<1>10. ASSUME ~disturbed PROVE InStep'
  <2>1. \A v \in open : ~Ahead(v)
    BY <1>1 DEF Ahead, Sou!Busy
  <2>2. InStep
    BY <1>10, <2>1 DEF SouInv
  <2>3. \A k \in 1 .. n : Means(b[k]) = wanted
    BY <1>1, <1>3, <1>4, <2>2 DEF InStep, Hears
  <2>4. Means(Head(b)) = wanted
    BY <1>5, <2>3
  <2>5. \A k \in 1 .. n - 1 : Means(Tail(b)[k]) = wanted
    BY <1>5, <2>3
  <2>6. Hears(w)'
    <3> DEFINE t == Tail(b)
    <3>1. Len(t) = n - 1 /\ boxes'[w] = t /\ \A k \in 1 .. n - 1 : Means(t[k]) = wanted
      BY <1>5, <1>7, <2>5
    <3> HIDE DEF t
    <3>2. Sou!Lasting(lists'[w]) = wanted'
      BY <1>1, <1>6, <1>7, <2>4
    <3> QED BY <1>1, <3>1, <3>2 DEF Hears, Means
  <2>7. ASSUME NEW p \in open \ {w} PROVE Hears(p)'
    <3>1. lists'[p] = lists[p] /\ boxes'[p] = boxes[p] /\ (p \in timers' <=> p \in timers)
      BY <1>1, <1>2, <1>7 DEF SouTypes
    <3>2. Hears(p)
      BY <2>2 DEF InStep
    <3> QED BY <1>1, <3>1, <3>2 DEF Hears, Means
  <2>8. Means(kept') = wanted'
    BY <1>1, <2>2 DEF InStep
  <2> QED BY <1>1, <2>6, <2>7, <2>8 DEF InStep, Means
<1> QED BY <1>1, <1>9, <1>10 DEF SouInv

LEMMA OpenPageKeeps == ASSUME SouInv, NEW w \in Windows, Sou!OpenPage(w) PROVE SouInv'
<1>1. /\ w \notin open /\ open' = open \cup {w} /\ lists' = [lists EXCEPT ![w] = Sou!Loaded(kept)]
      /\ acts' = acts + 1 /\ timers' = timers /\ boxes' = boxes /\ kept' = kept /\ wanted' = wanted
      /\ disturbed' = disturbed
  BY DEF Sou!OpenPage
<1>2. SouTypes /\ boxes[w] = << >> /\ w \notin timers
  BY <1>1 DEF SouInv, SouTypes
<1>3. /\ lists' = [p \in Windows |-> lists'[p]] /\ lists'[w] = Sou!Loaded(kept)
      /\ \A p \in Windows \ {w} : lists'[p] = lists[p]
  BY <1>1, <1>2 DEF SouTypes
<1>4. Fine(lists'[w]) /\ Sou!Lasting(lists'[w]) = Means(kept)
  BY <1>2, <1>3, KeptLoads DEF Means
<1>5. SouTypes'
  BY <1>1, <1>2, <1>3, <1>4 DEF SouTypes
<1>6. \A p \in open : p # w /\ lists'[p] = lists[p]
  BY <1>1, <1>2, <1>3 DEF SouTypes
<1>7. ASSUME InStep PROVE InStep'
  <2>1. Hears(w)'
    BY <1>1, <1>2, <1>4, <1>7 DEF InStep, Hears
  <2>2. ASSUME NEW p \in open PROVE Hears(p)'
    BY <1>1, <1>6, <1>7 DEF InStep, Hears, Means
  <2> QED BY <1>1, <1>7, <2>1, <2>2 DEF InStep, Means
<1>8. ASSUME NEW v \in open, Ahead(v) PROVE Ahead(v)'
  <2>1. /\ v \in timers /\ boxes[v] = << >> /\ Sou!Lasting(lists[v]) = wanted
        /\ \A p \in open \ {v} : ~Sou!Busy(p) /\ Sou!Lasting(lists[p]) = Means(kept)
    BY <1>8 DEF Ahead
  <2>2. ~Sou!Busy(w)' /\ Sou!Lasting(lists'[w]) = Means(kept')
    BY <1>1, <1>2, <1>4 DEF Sou!Busy, Means
  <2>3. ASSUME NEW p \in open \ {v} PROVE ~Sou!Busy(p)' /\ Sou!Lasting(lists'[p]) = Means(kept')
    BY <1>1, <1>6, <2>1 DEF Sou!Busy, Means
  <2> QED BY <1>1, <1>6, <2>1, <2>2, <2>3 DEF Ahead, Means
<1> QED BY <1>1, <1>5, <1>7, <1>8 DEF SouInv

LEMMA ClosePageKeeps == ASSUME SouInv, NEW w \in Windows, Sou!ClosePage(w) PROVE SouInv'
<1>1. /\ w \in open /\ open' = open \ {w} /\ lists' = [lists EXCEPT ![w] = << >>]
      /\ timers' = timers \ {w} /\ acts' = acts + 1 /\ wanted' = wanted
  BY DEF Sou!ClosePage
<1>2. \/ /\ Sou!Written(w, lists[w], << >>)
         /\ disturbed' = (disturbed \/ boxes[w] # << >> \/ \E p \in open \ {w} : Sou!Busy(p))
      \/ /\ boxes' = [boxes EXCEPT ![w] = << >>]
         /\ disturbed' = (disturbed \/ w \in timers)
         /\ kept' = kept
  BY DEF Sou!ClosePage
<1>3. /\ SouTypes /\ << >> \in Seq(Items) /\ lists[w] \in Items
      /\ Means(lists[w]) = Sou!Lasting(lists[w])
  <2>1. SouTypes /\ w \in Windows /\ Fine(lists[w])
    BY DEF SouInv, SouTypes
  <2>2. lists[w] \in Items
    BY <2>1 DEF Items, Fine
  <2>3. << >> \in Seq(Items)
    OBVIOUS
  <2> QED BY <2>1, <2>2, <2>3, LoadedFine DEF Means
<1>4. lists' = [p \in Windows |-> lists'[p]] /\ lists'[w] = << >> /\ \A p \in Windows \ {w} : lists'[p] = lists[p]
  BY <1>1, <1>3 DEF SouTypes
<1>5. \A p \in open \ {w} : lists'[p] = lists[p] /\ (p \in timers' <=> p \in timers)
  BY <1>1, <1>3, <1>4 DEF SouTypes
<1>6. CASE /\ Sou!Written(w, lists[w], << >>)
           /\ disturbed' = (disturbed \/ boxes[w] # << >> \/ \E p \in open \ {w} : Sou!Busy(p))
  <2>1. /\ kept' = lists[w] /\ boxes' = [p \in Windows |-> boxes'[p]]
        /\ \A p \in Windows : boxes'[p] \in Seq(Items)
        /\ boxes'[w] = << >> /\ \A p \in Windows \ open : boxes'[p] = << >>
    BY <1>1, <1>3, <1>6, WrittenTypes
  <2>2. SouTypes'
    BY <1>1, <1>3, <1>4, <1>6, <2>1, NoLasting DEF SouTypes
  <2>3. ASSUME ~disturbed' PROVE InStep'
    <3>1. ~disturbed /\ boxes[w] = << >> /\ \A p \in open \ {w} : ~Sou!Busy(p)
      BY <1>6, <2>3
    <3>2. Sou!Lasting(lists[w]) = wanted /\ \A p \in open \ {w} : Sou!Lasting(lists[p]) = Means(kept)
      BY <1>1, <3>1, CalmBefore
    <3>3. Means(kept') = wanted' /\ \A p \in open \ {w} : Hears(p)'
      BY <1>1, <1>3, <1>5, <1>6, <3>1, <3>2, Spreads
    <3> QED BY <1>1, <3>3 DEF InStep, Means
  <2> QED BY <2>2, <2>3 DEF SouInv
<1>7. CASE /\ boxes' = [boxes EXCEPT ![w] = << >>]
           /\ disturbed' = (disturbed \/ w \in timers)
           /\ kept' = kept
  <2>1. /\ boxes' = [p \in Windows |-> boxes'[p]] /\ boxes'[w] = << >>
        /\ \A p \in Windows \ {w} : boxes'[p] = boxes[p]
    BY <1>3, <1>7 DEF SouTypes
  <2>2. SouTypes'
    BY <1>1, <1>3, <1>4, <1>7, <2>1, NoLasting DEF SouTypes
  <2>3. \A p \in open \ {w} : boxes'[p] = boxes[p]
    BY <1>3, <2>1 DEF SouTypes
  <2>4. ASSUME InStep PROVE InStep'
    BY <1>1, <1>5, <1>7, <2>3, <2>4 DEF InStep, Hears, Means
  <2>5. ASSUME ~disturbed', NEW v \in open, Ahead(v) PROVE v \in open' /\ Ahead(v)'
    <3>1. /\ v \in timers /\ boxes[v] = << >> /\ Sou!Lasting(lists[v]) = wanted
          /\ \A p \in open \ {v} : ~Sou!Busy(p) /\ Sou!Lasting(lists[p]) = Means(kept)
      BY <2>5 DEF Ahead
    <3>2. v # w
      BY <1>7, <2>5, <3>1
    <3> QED BY <1>1, <1>5, <1>7, <2>3, <3>1, <3>2 DEF Ahead, Sou!Busy, Means
  <2> QED BY <1>7, <2>2, <2>4, <2>5 DEF SouInv
<1> QED BY <1>2, <1>6, <1>7

LEMMA SouKept == SouInv /\ Sou!SyncNext => SouInv'
<1> SUFFICES ASSUME SouInv, Sou!SyncNext PROVE SouInv'
  OBVIOUS
<1>1. PICK w \in Windows : \/ Sou!Add(w) \/ Sou!RemoveSource(w) \/ Sou!Attach(w) \/ Sou!ClearAll(w)
                           \/ Sou!Save(w) \/ Sou!ReceiveList(w) \/ Sou!OpenPage(w) \/ Sou!ClosePage(w)
  BY DEF Sou!SyncNext
<1>2. CASE Sou!Add(w)
  BY <1>2, AddSourceKeeps
<1>3. CASE Sou!RemoveSource(w)
  BY <1>3, RemoveSourceKeeps
<1>4. CASE Sou!Attach(w)
  BY <1>4, AttachKeeps
<1>5. CASE Sou!ClearAll(w)
  BY <1>5, ClearAllKeeps
<1>6. CASE Sou!Save(w)
  BY <1>6, SaveKeeps
<1>7. CASE Sou!ReceiveList(w)
  BY <1>7, ReceiveListKeeps
<1>8. CASE Sou!OpenPage(w)
  BY <1>8, OpenPageKeeps
<1>9. CASE Sou!ClosePage(w)
  BY <1>9, ClosePageKeeps
<1> QED BY <1>1, <1>2, <1>3, <1>4, <1>5, <1>6, <1>7, <1>8, <1>9

LEMMA SouIdle == SouInv /\ UNCHANGED syncVars => SouInv'
<1> SUFFICES ASSUME SouInv, UNCHANGED syncVars PROVE SouInv'
  OBVIOUS
<1>1. /\ lists' = lists /\ open' = open /\ timers' = timers /\ boxes' = boxes /\ kept' = kept
      /\ wanted' = wanted /\ disturbed' = disturbed /\ acts' = acts
  BY DEF syncVars
<1>2. SouTypes' /\ \A p \in open : Hears(p) => Hears(p)'
  BY <1>1 DEF SouInv, SouTypes, Hears, Means
<1>3. InStep => InStep'
  BY <1>1, <1>2 DEF InStep, Means
<1>4. \A w \in open : Ahead(w) => Ahead(w)'
  BY <1>1 DEF Ahead, Means, Sou!Busy
<1> QED BY <1>1, <1>2, <1>3, <1>4 DEF SouInv

\* What earlier sessions have stored is what the users want of them.
LEMMA SouStart == Sou!SyncInit => SouInv
<1> SUFFICES ASSUME Sou!SyncInit PROVE SouInv
  OBVIOUS
<1>1. /\ kept \in Left /\ open \subseteq Windows
      /\ lists = [p \in Windows |-> IF p \in open THEN Sou!Loaded(kept) ELSE << >>]
      /\ wanted = {Sou!Identity(s) : s \in {x \in Sou!ToSet(Sou!Value(kept)) :
                                              /\ x.kind # "volatile"
                                              /\ \A y \in Sou!ToSet(kept) : x.path = y.path => x.at >= y.at}}
      /\ timers = {} /\ boxes = [p \in Windows |-> << >>] /\ disturbed = FALSE /\ acts = 1
  BY DEF Sou!SyncInit
<1>2. kept = Sou!NoList \/ Keyed(kept)
  BY <1>1, SourcesAssumption DEF Keyed
<1>3. kept \in Items \/ Keyed(kept)
  BY <1>2 DEF Items
<1>4. Fine(Sou!Loaded(kept))
  BY <1>2, LoadedIs, LoadedNone, NoLasting
<1>5. << >> \in Seq(Items)
  OBVIOUS
<1>6. SouTypes
  BY <1>1, <1>3, <1>4, <1>5, NoLasting DEF SouTypes
<1>7. Means(kept) = wanted
  <2>1. CASE kept = Sou!NoList
    <3>1. Sou!ToSet(Sou!Value(kept)) = {}
      BY <2>1 DEF Sou!Value, Sou!ToSet
    <3> QED BY <1>1, <2>1, <3>1, LoadedNone, NoLasting DEF Means
  <2>2. CASE kept # Sou!NoList
    <3>1. Keyed(kept) /\ Sou!Value(kept) = kept
      BY <1>2, <2>2 DEF Sou!Value
    <3>2. \A e : e \in Means(kept) <=> Newer(kept, e)
      BY <3>1, LoadedIs DEF Means
    <3>3. \A k \in DOMAIN kept : kept[k].at \in Nat
      BY <3>1, SourceOf DEF Keyed
    <3>4. \A e : e \in wanted <=> \E k \in DOMAIN kept :
                                    /\ kept[k].kind # "volatile" /\ e = Sou!Identity(kept[k])
                                    /\ \A j \in DOMAIN kept : kept[k].path = kept[j].path => kept[k].at >= kept[j].at
      BY <1>1, <3>1 DEF Sou!ToSet
    <3>5. \A e : e \in wanted <=> Newer(kept, e)
      BY <3>3, <3>4 DEF Newer
    <3>6. \A e : e \in Means(kept) <=> e \in wanted
      BY <3>2, <3>5
    <3> QED BY <3>6
  <2> QED BY <2>1, <2>2
<1>8. InStep
  BY <1>1, <1>7 DEF InStep, Hears, Means
<1> QED BY <1>6, <1>8 DEF SouInv

\* At rest no page is ahead of the storage.
LEMMA SouCalm == SouInv => Sou!CalmLists /\ Sou!OnePath
<1> SUFFICES ASSUME SouInv PROVE Sou!CalmLists /\ Sou!OnePath
  OBVIOUS
<1>1. Sou!OnePath
  BY DEF SouInv, SouTypes, Fine, Sou!OnePath
<1>2. ASSUME ~disturbed, Sou!AtRest
      PROVE  \A list \in {Sou!Loaded(kept)} \cup {lists[p] : p \in open} : Sou!Lasting(list) = wanted
  <2>1. InStep
    BY <1>2 DEF SouInv, Ahead, Sou!AtRest, Sou!Busy
  <2> QED BY <1>2, <2>1 DEF InStep, Hears, Means, Sou!AtRest, Sou!Busy
<1> QED BY <1>1, <1>2 DEF Sou!CalmLists

-----------------------------------------------------------------------------
(* The three beside each other. *)

\* Windows at rest agree on their tabs, whatever their users do; pages at rest have the
\* data sources the users have added and not removed, as long as nobody changes a list
\* beside a busy page; and uploads that overlap answer for every file and leave the engine
\* the user has chosen: useTabManager.ts, dataSourceStore/persistence.ts, useFileUpload.ts.
THEOREM WindowsAreCalm == MCSpec => []CalmWindows
<1> DEFINE AllInv == IInv /\ AllHeard /\ SouInv /\ BatInv
<1>1. MCInit => AllInv
  BY InitKeeps, HeardStart, SouStart, BatStart DEF MCInit
<1>2. ASSUME AllInv, [MCNext]_<<part, vars, syncVars, batchVars>> PROVE AllInv'
  <2>1. [Next]_vars /\ (Sou!SyncNext \/ UNCHANGED syncVars) /\ (Bat!BatchNext \/ UNCHANGED batchVars)
    BY <1>2 DEF MCNext
  <2>2. IInv' /\ AllHeard'
    BY <1>2, <2>1, StepKeeps, HeardKept
  <2>3. SouInv'
    BY <1>2, <2>1, SouKept, SouIdle
  <2>4. BatInv'
    BY <1>2, <2>1, BatKept, BatIdle
  <2> QED BY <2>2, <2>3, <2>4
<1>3. AllInv => CalmWindows
  BY HeardAgree, SouCalm, BatCalm, KindsAgreeAlways DEF CalmWindows
<1> HIDE DEF AllInv
<1> QED BY <1>1, <1>2, <1>3, PTL DEF MCSpec
===============================================================================
