-------------------------- MODULE ResultTable_proofs --------------------------
(***************************************************************************)
(* What ResultTable promises, for any statements, pages and thresholds, and   *)
(* what the cells (ResultGrid) and the export promise, for pages of any size  *)
(* and any number of batches.                                                *)
(*                                                                           *)
(* No property is inductive.  The cache is whole because of what a run   *)
(* that caches has at every page: the first pages of its statement, if the   *)
(* service pages it, or else the whole answer once for each page, which is at *)
(* least a page long, so that too many of them pass the threshold before the *)
(* loop ends (Whole).  That is said of the last run only, and only while a    *)
(* statement is streamed: an overtaken run never keeps what it has.  The page *)
(* shown is the right one because, as long as nobody acts with a spinner or a *)
(* run under way, only the last run is under way, a page is awaited only when *)
(* nothing is sorted, and an order stands only beside a complete cache        *)
(* (Calm).                                                                    *)
(*                                                                           *)
(* A step exchanges few values, so the invariant is stated of values: each    *)
(* handler has a lemma that says what it makes of them, and the lemmas on     *)
(* rows and numbers (PageIs, OneMore, NextIs) know nothing of the state.      *)
(*                                                                           *)
(* The selection stays on its page because nothing but a new page moves it    *)
(* off, and no end of a range is left without the other (Sound, AllOn); what  *)
(* is copied is what is painted of any sound selection, the page's or not.    *)
(* The engine is the user's after an export because a Parquet export of the   *)
(* rows shown is the only one that changes it, and knows to what it was       *)
(* (EngineIsMine).                                                           *)
(***************************************************************************)
EXTENDS MCResultTable, SequenceTheorems, FiniteSetTheorems, TLAPS

-----------------------------------------------------------------------------
(* The inductive invariant, stated of values where a step exchanges them.    *)

Row == Statements \X Nat
Run == {a \in [of : Statements, step : {"first", "caching", "over"}, skip : BOOLEAN,
              next : Nat \ {0}, rows : Seq(Row), partial : Nat] :
          a.step = "first" => a.next = 1}
Load == [id : 1 .. MaxLoads, of : Statements, page : 0 .. MaxPage]

\* The data of the page are not typed: a sort makes them.
State(data) ==
  [page : 0 .. MaxPage, data : {data}, columns : Statements \cup {None}, total : Nat,
   loading : BOOLEAN, error : BOOLEAN, loadingPage : BOOLEAN, order : Orders,
   cached : Seq(Row), complete : BOOLEAN, caching : BOOLEAN, initialSort : BOOLEAN]

Typed ==
  /\ shown \in [mode : {None, "sql", "result"}, of : Statements \cup {None}]
  /\ (shown.mode # None => shown.of \in Statements)
  /\ duckdb \in BOOLEAN /\ hurried \in BOOLEAN
  /\ t \in State(t.data) /\ at \in Seq(Run) /\ loads \subseteq Load

\* What a run that caches has got, if the engine did not change: the first pages,
\* or the whole answer once for each page.
Got(a, paged) ==
  /\ Len(AllRows(a.of)) >= PageSize
  /\ IF paged
     THEN a.rows = SubSeq(AllRows(a.of), 1, Min({a.next * PageSize, Len(AllRows(a.of))}))
     ELSE Len(a.rows) = a.next * Len(AllRows(a.of))

Whole ==
  Streaming =>
    /\ at # << >> /\ at[run].of = shown.of
    /\ at[run].step = "caching" => Got(at[run], Paged(at[run].of))
    /\ t.complete => t.cached = AllRows(shown.of)

\* As long as nobody acts with a spinner or a run under way.
Waits(step, u) ==
  step = "first" => u.loading /\ ~u.complete /\ ~u.error /\ u.order = None /\ u.page = 0
Sorts(step, u) ==
  /\ step = "caching" => u.caching /\ u.order = None
  /\ u.order # None => u.complete /\ u.cached # << >>
  /\ u.complete => u.total = Len(u.cached)
  /\ u.columns # None => ~u.initialSort
OnPage(step, u, s, paged) ==
  paged /\ step # "first" => u.error \/ u.data = Slice(AllRows(s), u.page, u.order)

Calm ==
  ~hurried =>
    /\ UnderWay \subseteq {run} /\ (UnderWay # {} => Streaming)
    /\ loads # {} => Streaming /\ t.order = None /\ at[run].step # "first"
    /\ \A l \in loads : l.of = shown.of
    /\ Streaming => /\ Waits(at[run].step, t) /\ Sorts(at[run].step, t)
                    /\ OnPage(at[run].step, t, shown.of, Paged(shown.of))

IInv == Typed /\ Whole /\ Calm

-----------------------------------------------------------------------------
(* Numbers and rows. *)

LEMMA MinOfTwo ==
  ASSUME NEW a \in Int, NEW b \in Int
  PROVE  Min({a, b}) = IF a <= b THEN a ELSE b
<1>1. \E x \in {a, b} : \A y \in {a, b} : x <= y
  OBVIOUS
<1>2. Min({a, b}) \in {a, b} /\ \A y \in {a, b} : Min({a, b}) <= y
  BY <1>1 DEF Min
<1> QED BY <1>2

LEMMA CeilDivIs ==
  ASSUME NEW a \in Nat, NEW b \in Nat \ {0}
  PROVE  /\ CeilDiv(a, b) \in Nat /\ CeilDiv(a, b) * b >= a
         /\ \A p \in Nat : p <= CeilDiv(a, b) - 1 => p * b < a
<1> DEFINE c == a + b - 1
           q == c \div b
           m == c % b
<1>1. c \in Nat /\ b \in Nat /\ b > 0
  OBVIOUS
<1>2. q \in Int /\ m \in Int /\ c = b * q + m /\ 0 <= m /\ m < b
  <2> HIDE DEF c
  <2> QED BY <1>1
<1>3. q \in Nat
  <2> SUFFICES ASSUME q < 0 PROVE FALSE
    BY <1>2
  <2> HIDE DEF q, m
  <2>1. b * q <= -b
    BY <1>1, <1>2
  <2> HIDE DEF c
  <2> QED BY <1>1, <1>2, <2>1
<1>4. CeilDiv(a, b) = q
  BY DEF CeilDiv
<1>5. b * q >= a
  <2> HIDE DEF q, m
  <2> DEFINE x == b * q
  <2>1. x \in Int /\ a + b - 1 = x + m
    BY <1>1, <1>2
  <2> HIDE DEF x
  <2>2. x >= a
    BY <1>2, <2>1
  <2> QED BY <2>2 DEF x
<1>6. ASSUME NEW p \in Nat, p <= q - 1 PROVE p * b < a
  <2> HIDE DEF q, m
  <2> DEFINE x == b * q
             y == p * b
  <2>1. x \in Int /\ y \in Int /\ y + b <= x
    BY <1>1, <1>2, <1>6
  <2>2. a + b - 1 = x + m
    BY <1>2
  <2> HIDE DEF x, y
  <2>3. y < a
    BY <1>1, <1>2, <2>1, <2>2
  <2> QED BY <2>3 DEF y
<1> HIDE DEF q
<1> QED BY <1>3, <1>4, <1>5, <1>6

LEMMA RowsOf ==
  ASSUME NEW s \in Statements
  PROVE  AllRows(s) \in Seq(Row) /\ Len(AllRows(s)) = Len(Values[s]) /\ Len(Values[s]) \in Nat
<1>1. Values[s] \in Seq(Nat) /\ DOMAIN Values[s] = 1 .. Len(Values[s]) /\ Len(Values[s]) \in Nat
  BY TableAssumption
<1>2. AllRows(s) = [k \in 1 .. Len(Values[s]) |-> <<s, k>>]
  BY <1>1 DEF AllRows
<1>3. \A k \in 1 .. Len(Values[s]) : <<s, k>> \in Row
  BY <1>1 DEF Row
<1> QED BY <1>1, <1>2, <1>3

LEMMA SubSeqIs ==
  ASSUME NEW S, NEW s \in Seq(S), NEW m \in Nat, NEW n \in Nat, n <= Len(s)
  PROVE  /\ SubSeq(s, m + 1, n) \in Seq(S)
         /\ Len(SubSeq(s, m + 1, n)) = IF m < n THEN n - m ELSE 0
         /\ \A i \in 1 .. n - m : SubSeq(s, m + 1, n)[i] = s[i + m]
<1> DEFINE j == m + 1
<1>1. j \in Int /\ n \in Int /\ \A i \in j .. n : s[i] \in S
  OBVIOUS
<1>2. j = m + 1 /\ m \in Nat
  OBVIOUS
<1> HIDE DEF j
<1>3. /\ SubSeq(s, j, n) \in Seq(S)
      /\ Len(SubSeq(s, j, n)) = IF j <= n THEN n - j + 1 ELSE 0
      /\ \A i \in 1 .. n - j + 1 : SubSeq(s, j, n)[i] = s[j + i - 1]
  BY <1>1, SubSeqProperties
<1> DEFINE z == SubSeq(s, j, n)
<1> HIDE DEF z
<1>4. /\ z \in Seq(S) /\ Len(z) = (IF m < n THEN n - m ELSE 0)
      /\ \A i \in 1 .. n - m : z[i] = s[i + m]
  <2>1. /\ z \in Seq(S) /\ Len(z) = (IF j <= n THEN n - j + 1 ELSE 0)
        /\ \A i \in 1 .. n - j + 1 : z[i] = s[j + i - 1]
    BY <1>3 DEF z
  <2>2. n - j + 1 = n - m /\ (j <= n <=> m < n)
    BY <1>2
  <2>3. \A i \in 1 .. n - m : j + i - 1 = i + m
    BY <1>2
  <2> QED BY <2>1, <2>2, <2>3
<1> QED BY <1>4 DEF z, j

\* One page.
LEMMA PageIs ==
  ASSUME NEW all \in Seq(Row), NEW p \in Nat
  PROVE  /\ Slice(all, p, None) \in Seq(Row)
         /\ Slice(all, p, None)
              = SubSeq(all, p * PageSize + 1, Min({p * PageSize + PageSize, Len(all)}))
         /\ Len(Slice(all, p, None)) <= PageSize
         /\ p * PageSize + PageSize <= Len(all) => Len(Slice(all, p, None)) = PageSize
         /\ Len(Slice(all, p, None)) < PageSize => p * PageSize + PageSize >= Len(all)
         /\ Slice(all, p, None) = << >> <=> p * PageSize >= Len(all)
<1> DEFINE first == p * PageSize
           last == Min({first + PageSize, Len(all)})
           new == Slice(all, p, None)
<1>1. first \in Nat /\ PageSize \in Nat /\ PageSize > 0 /\ Len(all) \in Nat
  BY TableAssumption
<1>2. new = SubSeq(all, first + 1, last)
  BY DEF Slice, SortRows, None
<1> HIDE DEF first, new
<1>3. last = IF first + PageSize <= Len(all) THEN first + PageSize ELSE Len(all)
  BY <1>1, MinOfTwo
<1>4. last \in Nat /\ last <= Len(all)
  BY <1>1, <1>3
<1> HIDE DEF last
<1>5. /\ new \in Seq(Row)
      /\ Len(new) = IF first < last THEN last - first ELSE 0
  BY <1>1, <1>2, <1>4, SubSeqIs
<1>6. new = << >> <=> Len(new) = 0
  BY <1>5
<1>7. /\ Len(new) <= PageSize
      /\ first + PageSize <= Len(all) => Len(new) = PageSize
      /\ Len(new) < PageSize => first + PageSize >= Len(all)
      /\ new = << >> <=> first >= Len(all)
  <2> DEFINE l == Len(all)
  <2> HIDE DEF l
  <2>1. l \in Nat /\ last = IF first + PageSize <= l THEN first + PageSize ELSE l
    BY <1>1, <1>3 DEF l
  <2> QED BY <1>1, <1>5, <1>6, <2>1 DEF l
<1> QED BY <1>2, <1>5, <1>7 DEF first, new, last

\* The first pages, and one more.
LEMMA OneMore ==
  ASSUME NEW all \in Seq(Row), NEW p \in Nat
  PROVE  SubSeq(all, 1, Min({p * PageSize, Len(all)})) \o Slice(all, p, None)
           = SubSeq(all, 1, Min({(p + 1) * PageSize, Len(all)}))
<1> DEFINE x == p * PageSize
           y == (p + 1) * PageSize
           l == Len(all)
           m == Min({x, l})
           n == Min({y, l})
           a == SubSeq(all, 1, m)
           b == Slice(all, p, None)
           c == SubSeq(all, 1, n)
<1>1. /\ x \in Nat /\ y \in Nat /\ y = x + PageSize /\ l \in Nat /\ PageSize \in Nat
      /\ b = SubSeq(all, x + 1, Min({x + PageSize, l}))
  <2>1. b = SubSeq(all, x + 1, Min({x + PageSize, l}))
    BY PageIs
  <2>2. PageSize \in Nat
    BY TableAssumption
  <2> QED BY <2>1, <2>2
<1>2. b = SubSeq(all, x + 1, n)
  BY <1>1
<1> HIDE DEF x, y, b
<1>3. m = (IF x <= l THEN x ELSE l) /\ n = IF y <= l THEN y ELSE l
  BY <1>1, MinOfTwo
<1> HIDE DEF m, n
<1>4. m \in Nat /\ n \in Nat /\ m <= n /\ n <= l /\ (x < n => m = x) /\ (x >= n => m = n)
  BY <1>1, <1>3
<1>5. /\ a \in Seq(Row) /\ Len(a) = m /\ \A i \in 1 .. m : a[i] = all[i]
      /\ c \in Seq(Row) /\ Len(c) = n /\ \A i \in 1 .. n : c[i] = all[i]
  <2>1. /\ a \in Seq(Row) /\ Len(a) = m /\ \A i \in 1 .. m : a[i] = all[i]
    BY <1>1, <1>4, SubSeqProperties
  <2>2. c \in Seq(Row) /\ Len(c) = n /\ \A i \in 1 .. n : c[i] = all[i]
    BY <1>1, <1>4, SubSeqProperties
  <2> QED BY <2>1, <2>2
<1>6. b \in Seq(Row) /\ Len(b) = n - m /\ \A i \in 1 .. n - m : b[i] = all[i + m]
  <2> DEFINE z == SubSeq(all, x + 1, n)
  <2>4. x \in Nat /\ n \in Nat /\ n <= Len(all)
    BY <1>1, <1>4
  <2>5. /\ z \in Seq(Row) /\ Len(z) = (IF x < n THEN n - x ELSE 0)
        /\ \A i \in 1 .. n - x : z[i] = all[i + x]
    BY <2>4, SubSeqIs
  <2>6. b = z
    BY <1>2
  <2> HIDE DEF z
  <2>1. CASE x >= n
    <3>1. m = n
      BY <1>1, <1>4, <2>1
    <3>2. b \in Seq(Row) /\ Len(b) = 0
      BY <2>1, <2>4, <2>5, <2>6
    <3>3. n - m = 0
      BY <1>4, <3>1
    <3> HIDE DEF a, c
    <3> QED BY <3>2, <3>3
  <2>2. CASE x < n
    <3>1. m = x
      BY <1>1, <1>4, <2>2
    <3>2. /\ b \in Seq(Row) /\ Len(b) = n - x
          /\ \A i \in 1 .. n - x : b[i] = all[i + x]
      BY <2>2, <2>4, <2>5, <2>6
    <3> QED BY <3>1, <3>2
  <2>3. x >= n \/ x < n
    BY <1>1, <1>4
  <2> QED BY <2>1, <2>2, <2>3
<1> HIDE DEF a, c
<1>7. /\ a \o b \in Seq(Row) /\ Len(a \o b) = n
      /\ \A i \in 1 .. n : (a \o b)[i] = c[i]
  <2>1. /\ a \o b \in Seq(Row) /\ Len(a \o b) = m + (n - m)
        /\ \A i \in 1 .. m + (n - m) : (a \o b)[i] = IF i <= m THEN a[i] ELSE b[i - m]
    <3> DEFINE k == n - m
    <3>1. a \in Seq(Row) /\ Len(a) = m /\ b \in Seq(Row) /\ Len(b) = k
      BY <1>5, <1>6
    <3> HIDE DEF k
    <3>2. /\ a \o b \in Seq(Row) /\ Len(a \o b) = Len(a) + Len(b)
          /\ \A i \in 1 .. Len(a) + Len(b) : (a \o b)[i] = IF i <= Len(a) THEN a[i] ELSE b[i - Len(a)]
      BY <3>1, ConcatProperties
    <3> QED BY <3>1, <3>2 DEF k
  <2>2. m + (n - m) = n
    BY <1>4
  <2>3. ASSUME NEW i \in 1 .. n PROVE (a \o b)[i] = c[i]
    <3>1. CASE i <= m
      <4>1. i \in 1 .. m
        BY <1>4, <3>1
      <4> QED BY <1>4, <1>5, <2>1, <2>2, <3>1, <4>1
    <3>2. CASE i > m
      <4>1. i - m \in 1 .. n - m /\ i - m + m = i
        BY <1>4, <3>2
      <4>2. (a \o b)[i] = b[i - m]
        BY <1>4, <2>1, <2>2, <3>2
      <4> QED BY <1>5, <1>6, <4>1, <4>2
    <3>3. i <= m \/ i > m
      BY <1>4
    <3> QED BY <3>1, <3>2, <3>3
  <2> QED BY <2>1, <2>2, <2>3
<1>8. a \o b = c
  BY <1>5, <1>7, SeqEqual
<1> QED BY <1>8 DEF a, b, c, m, n, x, y

-----------------------------------------------------------------------------
(* What the effects that sort make of a state. *)

LEMMA SortedIs ==
  ASSUME NEW d, NEW u \in State(d), NEW v, v = Sorted(u)
  PROVE  /\ v \in State(v.data)
         /\ v.columns = u.columns /\ v.total = u.total /\ v.loading = u.loading
         /\ v.error = u.error /\ v.loadingPage = u.loadingPage /\ v.cached = u.cached
         /\ v.complete = u.complete /\ v.caching = u.caching
         /\ Streaming => /\ v.columns # None => ~v.initialSort
                         /\ u.order = None => v.order = None /\ v.page = u.page /\ v.data = u.data
                         /\ u.columns # None /\ ~u.initialSort /\ ~u.caching /\ u.order # None =>
                              \/ /\ v.order = None /\ v.page = u.page /\ v.data = u.data
                                 /\ ~(u.complete /\ u.cached # << >>)
                              \/ /\ v.order = u.order /\ v.complete /\ v.cached # << >>
                                 /\ v.page = 0 /\ v.data = Slice(v.cached, 0, v.order)
<1> USE DEF Orders, None
<1>0. 0 \in 0 .. MaxPage
  BY TableAssumption
<1>1. CASE v = u
  <2>1. u.data = d
    BY DEF State
  <2>2. CASE ~Streaming
    BY <1>1, <2>1, <2>2 DEF Streaming
  <2>3. CASE Streaming
    <3>1. v = SortEffect(u, u)
      BY <2>3 DEF Sorted, Streaming
    <3>2. u.columns # None => ~u.initialSort
      <4> SUFFICES ASSUME u.columns # None, u.initialSort PROVE FALSE
        OBVIOUS
      <4>1. v = [u EXCEPT !.initialSort = FALSE]
        BY <3>1 DEF SortEffect
      <4> QED BY <1>1, <4>1 DEF State
    <3>3. ASSUME u.columns # None, ~u.initialSort, ~u.caching, u.order # None
          PROVE  u.complete /\ u.cached # << >> /\ u.page = 0 /\ u.data = Slice(u.cached, 0, u.order)
      <4>1. CASE u.complete /\ u.cached # << >>
        <5> DEFINE new == Slice(u.cached, 0, u.order)
        <5>1. v = [u EXCEPT !.page = 0, !.data = Slice(u.cached, 0, u.order)]
          BY <3>1, <3>3, <4>1 DEF SortEffect
        <5> HIDE DEF new
        <5>2. v = [u EXCEPT !.page = 0, !.data = new]
          BY <5>1 DEF new
        <5>3. v.page = 0 /\ v.data = new
          BY <5>2 DEF State
        <5> QED BY <1>1, <4>1, <5>3 DEF new
      <4>2. CASE ~(u.complete /\ u.cached # << >>)
        <5>1. v = [u EXCEPT !.order = None]
          BY <3>1, <3>3, <4>2 DEF SortEffect
        <5>2. v.order = None
          BY <5>1 DEF State
        <5> QED BY <1>1, <3>3, <5>2
      <4> QED BY <4>1, <4>2
    <3>4. \/ u.columns = None \/ u.caching \/ u.order = None
          \/ u.complete /\ u.cached # << >> /\ u.page = 0 /\ u.data = Slice(u.cached, 0, u.order)
      BY <3>2, <3>3
    <3> QED BY <1>1, <2>1, <3>2, <3>4
  <2> QED BY <2>2, <2>3
<1>2. CASE v # u
  <2>1. CASE shown.mode = "sql"
    <3>1. v = SortEffect(u, u) /\ u.columns # None
      BY <1>2, <2>1 DEF Sorted, SortEffect
    <3>2. CASE u.initialSort
      <4>1. v = [u EXCEPT !.initialSort = FALSE]
        BY <3>1, <3>2 DEF SortEffect
      <4> QED BY <3>1, <3>2, <4>1 DEF State
    <3>3. CASE ~u.initialSort /\ u.complete /\ u.cached # << >>
      <4>1. v = [u EXCEPT !.page = 0, !.data = Slice(u.cached, 0, u.order)] /\ u.order # None
        BY <1>2, <3>1, <3>3 DEF SortEffect
      <4> DEFINE new == Slice(u.cached, 0, u.order)
      <4> HIDE DEF new
      <4>2. v = [u EXCEPT !.page = 0, !.data = new]
        BY <4>1 DEF new
      <4>3. /\ v \in State(v.data) /\ v.page = 0 /\ v.data = new /\ v.order = u.order
            /\ v.columns = u.columns /\ v.total = u.total /\ v.loading = u.loading
            /\ v.error = u.error /\ v.loadingPage = u.loadingPage /\ v.cached = u.cached
            /\ v.complete = u.complete /\ v.caching = u.caching /\ v.initialSort = u.initialSort
        BY <1>0, <4>2 DEF State
      <4> QED BY <3>3, <4>1, <4>3 DEF new
    <3>4. CASE ~u.initialSort /\ ~(u.complete /\ u.cached # << >>)
      <4>1. v = [u EXCEPT !.order = None] /\ u.order # None
        BY <1>2, <3>1, <3>4 DEF SortEffect
      <4> QED BY <3>4, <4>1 DEF State
    <3> QED BY <3>2, <3>3, <3>4
  <2>2. CASE shown.mode # "sql"
    <3> DEFINE new == Slice(AllRows(shown.of), 0, u.order)
    <3> HIDE DEF new
    <3>1. v = [u EXCEPT !.page = 0, !.data = new]
      BY <1>2, <2>2 DEF Sorted, new
    <3> QED BY <1>0, <2>2, <3>1 DEF State, Streaming
  <2> QED BY <2>1, <2>2
<1> QED BY <1>1, <1>2

LEMMA CacheIs ==
  ASSUME NEW d, NEW u \in State(d), NEW rows \in Seq(Row), NEW v, v = Cache(u, rows)
  PROVE  /\ v \in State(d) /\ v.cached = rows /\ v.complete /\ ~v.caching
         /\ v.total = Len(rows) /\ v.columns = u.columns /\ v.order = u.order
         /\ v.page = u.page /\ v.data = u.data /\ v.error = u.error
<1>1. Len(rows) \in Nat
  OBVIOUS
<1> QED BY <1>1 DEF Cache, State

LEMMA NoCacheIs ==
  ASSUME NEW d, NEW u \in State(d), NEW n \in Nat, NEW v,
         v = [NoCache(u) EXCEPT !.total = n] \/ v = NoCache(u)
  PROVE  /\ v \in State(d) /\ v.cached = << >> /\ ~v.complete /\ ~v.caching
         /\ v.columns = u.columns /\ v.order = u.order
         /\ v.page = u.page /\ v.data = u.data /\ v.error = u.error
<1>1. << >> \in Seq(Row)
  OBVIOUS
<1> QED BY <1>1 DEF NoCache, State

-----------------------------------------------------------------------------
(* The steps of the calls of executeQuery. *)

LEMMA RunFacts ==
  ASSUME IInv, NEW r \in UnderWay
  PROVE  /\ r \in 1 .. Len(at) /\ at[r] \in Run /\ at[r].of \in Statements /\ at[r].step # "over"
         /\ at # << >> /\ run \in 1 .. Len(at) /\ run \in Nat
         /\ ~hurried => r = run /\ Streaming
         /\ Streaming => at[run].of = shown.of /\ shown.of \in Statements
<1>1. at \in Seq(Run) /\ r \in DOMAIN at /\ at[r].step # "over"
  BY DEF UnderWay, IInv, Typed
<1>2. r \in 1 .. Len(at) /\ at[r] \in Run /\ Len(at) \in Nat
  BY <1>1
<1>3. at[r].of \in Statements
  BY <1>2 DEF Run
<1>4. at # << >> /\ run \in 1 .. Len(at) /\ run \in Nat
  BY <1>2 DEF run
<1>5. ~hurried => r = run /\ Streaming
  BY DEF IInv, Calm
<1>6. Streaming => at[run].of = shown.of /\ shown.of \in Statements
  BY DEF IInv, Whole, Typed, Streaming, None
<1> QED BY <1>1, <1>2, <1>3, <1>4, <1>5, <1>6

LEMMA AnswerKeeps ==
  ASSUME IInv, NEW r \in UnderWay, NEW a \in Run, a.of = at[r].of, a.step # "first",
         at' = [at EXCEPT ![r] = a], shown' = shown, duckdb' = duckdb, loads' = loads,
         hurried' = hurried, t' \in State(t'.data),
         Streaming /\ t'.complete => t'.cached = AllRows(shown.of),
         Streaming /\ r = run /\ a.step = "caching" => Got(a, Paged(a.of)),
         Streaming /\ r = run /\ ~hurried =>
            /\ Sorts(a.step, t') /\ OnPage(a.step, t', shown.of, Paged(shown.of))
            /\ t'.order = None
  PROVE  IInv'
<1>1. /\ r \in 1 .. Len(at) /\ at \in Seq(Run) /\ run \in 1 .. Len(at) /\ run = Len(at)
      /\ Len(at) \in Nat
  BY RunFacts DEF IInv, Typed, run
<1>2. /\ at' \in Seq(Run) /\ Len(at') = Len(at) /\ at' # << >>
      /\ \A i \in 1 .. Len(at) : at'[i] = IF i = r THEN a ELSE at[i]
  BY <1>1
<1>3. run' = run /\ (Streaming' <=> Streaming) /\ at'[run] = IF run = r THEN a ELSE at[run]
  BY <1>1, <1>2 DEF run, Streaming
<1>4. \A s : Paged(s)' = Paged(s)
  BY DEF Paged
<1>5. Typed'
  BY <1>2 DEF IInv, Typed
<1>6. Whole'
  <2> SUFFICES ASSUME Streaming
               PROVE  /\ at'[run].of = shown.of
                      /\ at'[run].step = "caching" => Got(at'[run], Paged(at'[run].of))
                      /\ t'.complete => t'.cached = AllRows(shown.of)
    BY <1>2, <1>3, <1>4 DEF Whole
  <2>1. at[run].of = shown.of /\ (at[run].step = "caching" => Got(at[run], Paged(at[run].of)))
    BY DEF IInv, Whole
  <2> QED BY <1>3, <2>1
<1>7. UnderWay' \subseteq UnderWay
  BY <1>1, <1>2 DEF UnderWay
<1>8. Calm'
  <2> SUFFICES ASSUME ~hurried
               PROVE  /\ UnderWay' \subseteq {run} /\ (UnderWay' # {} => Streaming)
                      /\ loads # {} => Streaming /\ t'.order = None /\ at'[run].step # "first"
                      /\ \A l \in loads : l.of = shown.of
                      /\ Streaming =>
                           /\ Waits(at'[run].step, t') /\ Sorts(at'[run].step, t')
                           /\ OnPage(at'[run].step, t', shown.of, Paged(shown.of))
    BY <1>3, <1>4 DEF Calm
  <2>1. r = run /\ Streaming /\ at'[run] = a
    BY <1>3, RunFacts
  <2>2. Waits(a.step, t')
    BY DEF Waits
  <2>3. /\ UnderWay \subseteq {run} /\ \A l \in loads : l.of = shown.of
    BY DEF IInv, Calm
  <2> QED BY <1>7, <2>1, <2>2, <2>3
<1> QED BY <1>5, <1>6, <1>8 DEF IInv

\* A run that is over.
LEMMA EndKeeps ==
  ASSUME IInv, NEW r \in UnderWay, Over(r), shown' = shown, duckdb' = duckdb,
         loads' = loads, hurried' = hurried, t' \in State(t'.data),
         Streaming /\ t'.complete => t'.cached = AllRows(shown.of),
         Streaming /\ r = run /\ ~hurried =>
            /\ Sorts("over", t') /\ OnPage("over", t', shown.of, Paged(shown.of))
            /\ t'.order = None
  PROVE  IInv'
<1> DEFINE a == [of |-> at[r].of, step |-> "over", skip |-> FALSE, next |-> 1,
                 rows |-> << >>, partial |-> 0]
<1>1. at' = [at EXCEPT ![r] = a]
  BY DEF Over, Step
<1>2. a \in Run /\ a.of = at[r].of /\ a.step = "over"
  <2>1. at[r].of \in Statements /\ << >> \in Seq(Row)
    BY RunFacts
  <2> QED BY <2>1 DEF Run
<1> HIDE DEF a
<1> QED BY <1>1, <1>2, AnswerKeeps

LEMMA PrefixIs ==
  ASSUME NEW all \in Seq(Row), NEW n \in Nat
  PROVE  /\ SubSeq(all, 1, Min({n, Len(all)})) \in Seq(Row)
         /\ Len(SubSeq(all, 1, Min({n, Len(all)}))) = (IF n <= Len(all) THEN n ELSE Len(all))
         /\ n >= Len(all) => SubSeq(all, 1, Min({n, Len(all)})) = all
<1> DEFINE m == Min({n, Len(all)})
           z == SubSeq(all, 1, m)
<1>1. Len(all) \in Nat /\ m = IF n <= Len(all) THEN n ELSE Len(all)
  BY MinOfTwo
<1> HIDE DEF m
<1>2. m \in Nat /\ m <= Len(all)
  BY <1>1
<1>3. z \in Seq(Row) /\ Len(z) = m /\ \A i \in 1 .. m : z[i] = all[i]
  BY <1>2, SubSeqProperties
<1> HIDE DEF z
<1>4. ASSUME n >= Len(all) PROVE z = all
  <2>1. m = Len(all)
    BY <1>1, <1>4
  <2> QED BY <1>3, <2>1, SeqEqual
<1> QED BY <1>1, <1>3, <1>4 DEF z, m

\* What the service answers.
LEMMA GetPageIs ==
  ASSUME NEW s \in Statements, NEW p \in Nat
  PROVE  /\ GetPage(s, p) \in Seq(Row)
         /\ Paged(s) => GetPage(s, p) = Slice(AllRows(s), p, None)
         /\ ~Paged(s) => GetPage(s, p) = AllRows(s)
<1>1. AllRows(s) \in Seq(Row)
  BY RowsOf
<1> DEFINE all == AllRows(s)
<1> HIDE DEF all
<1>2. Slice(all, p, None) \in Seq(Row)
  BY <1>1, PageIs DEF all
<1> QED BY <1>1, <1>2 DEF GetPage, all

\* The first page, of which the others are the continuation.
LEMMA FirstIs ==
  ASSUME NEW s \in Statements
  PROVE  /\ Len(GetPage(s, 0)) < PageSize => GetPage(s, 0) = AllRows(s)
         /\ Len(GetPage(s, 0)) >= PageSize =>
              \A a \in Run : a.of = s /\ a.next = 1 /\ a.rows = GetPage(s, 0) => Got(a, Paged(s))
<1> DEFINE all == AllRows(s)
           rows == GetPage(s, 0)
<1>1. all \in Seq(Row) /\ rows \in Seq(Row) /\ PageSize \in Nat \ {0}
  BY RowsOf, GetPageIs, TableAssumption
<1>2. CASE Paged(s)
  <2>1. rows = Slice(all, 0, None)
    BY <1>2, GetPageIs
  <2> HIDE DEF rows, all
  <2>2. Slice(all, 0, None) = SubSeq(all, 0 * PageSize + 1, Min({0 * PageSize + PageSize, Len(all)}))
    BY <1>1, PageIs
  <2>3. 0 * PageSize + 1 = 1 /\ 0 * PageSize + PageSize = PageSize /\ 1 * PageSize = PageSize
    BY <1>1
  <2>4. rows = SubSeq(all, 1, Min({PageSize, Len(all)}))
    BY <2>1, <2>2, <2>3
  <2>5. /\ Len(rows) = (IF PageSize <= Len(all) THEN PageSize ELSE Len(all))
        /\ PageSize >= Len(all) => rows = all
    BY <1>1, <2>4, PrefixIs
  <2>6. Len(rows) < PageSize => PageSize >= Len(all)
    BY <1>1, <2>5
  <2>7. Len(rows) >= PageSize => Len(all) >= PageSize
    BY <1>1, <2>5
  <2>8. ASSUME Len(rows) >= PageSize, NEW a \in Run, a.of = s, a.next = 1, a.rows = rows
        PROVE  Got(a, TRUE)
    <3>1. a.next * PageSize = PageSize
      BY <2>3, <2>8
    <3> QED BY <2>4, <2>7, <2>8, <3>1 DEF Got, all
  <2> QED BY <1>2, <2>5, <2>6, <2>8 DEF all, rows
<1>3. CASE ~Paged(s)
  <2>1. rows = all
    BY <1>3, GetPageIs
  <2>2. ASSUME Len(rows) >= PageSize, NEW a \in Run, a.of = s, a.next = 1, a.rows = rows
        PROVE  Got(a, FALSE)
    <3>0. AllRows(a.of) = all
      BY <2>2
    <3> HIDE DEF all, rows
    <3>1. Len(all) \in Nat
      BY <1>1
    <3> QED BY <2>1, <2>2, <3>0, <3>1 DEF Got
  <2>3. Paged(s) = FALSE
    BY <1>3 DEF Paged
  <2> HIDE DEF rows, all
  <2> QED BY <2>1, <2>2, <2>3 DEF rows, all
<1> QED BY <1>2, <1>3

\* One more page of a run that caches: when it ends the loop, all rows are there.
LEMMA NextIs ==
  ASSUME NEW a \in Run, Got(a, Paged(a.of))
  PROVE  LET all == AllRows(a.of)
             new == GetPage(a.of, a.next)
             rows == a.rows \o new
         IN /\ new \in Seq(Row) /\ rows \in Seq(Row)
            /\ new = << >> => a.rows = all
            /\ Len(rows) < Threshold /\ (Len(new) < PageSize \/ a.next + 1 >= MaxPagesToFetch)
                 => rows = all
            /\ \A b \in Run : b.of = a.of /\ b.next = a.next + 1 /\ b.rows = rows
                             => Got(b, Paged(b.of))
<1> DEFINE paged == Paged(a.of)
           all == AllRows(a.of)
           new == GetPage(a.of, a.next)
<1>0. a.next \in Nat \ {0} /\ a.rows \in Seq(Row) /\ a.of \in Statements
  BY DEF Run
<1>00. /\ Got(a, paged) /\ paged \in BOOLEAN
       /\ paged => new = Slice(all, a.next, None)
       /\ ~paged => new = all
  BY <1>0, GetPageIs DEF Paged
<1>01. all = AllRows(a.of)
  OBVIOUS
<1> HIDE DEF paged, new, all
<1> DEFINE n == a.next
           rows == a.rows \o new
<1>1. all \in Seq(Row) /\ PageSize \in Nat \ {0} /\ Threshold \in Nat /\ Len(all) \in Nat
  BY <1>0, <1>01, RowsOf, TableAssumption
<1>2. CeilDiv(Threshold, PageSize) \in Nat /\ CeilDiv(Threshold, PageSize) * PageSize >= Threshold
  BY <1>1, CeilDivIs
<1>3. ASSUME n + 1 >= MaxPagesToFetch PROVE (n + 1) * PageSize >= Threshold /\ n * PageSize >= Threshold
  <2> DEFINE c == CeilDiv(Threshold, PageSize)
  <2> HIDE DEF c, n
  <2>1. n >= c /\ n \in Nat /\ c \in Nat
    BY <1>0, <1>2, <1>3 DEF MaxPagesToFetch, c, n
  <2>2. n * PageSize >= c * PageSize /\ n * PageSize \in Nat /\ c * PageSize \in Nat
        /\ (n + 1) * PageSize >= n * PageSize /\ (n + 1) * PageSize \in Nat
    BY <1>1, <2>1
  <2>3. c * PageSize >= Threshold
    BY <1>2 DEF c
  <2> DEFINE x == n * PageSize
             y == (n + 1) * PageSize
             z == c * PageSize
  <2>4. x \in Nat /\ y \in Nat /\ z \in Nat /\ x >= z /\ y >= x /\ z >= Threshold
    BY <2>2, <2>3
  <2> HIDE DEF x, y, z
  <2>5. x >= Threshold /\ y >= Threshold
    BY <1>1, <2>4
  <2> QED BY <2>5 DEF x, y
<1>4. CASE paged
  <2>1. new = Slice(all, n, None) /\ a.rows = SubSeq(all, 1, Min({n * PageSize, Len(all)}))
        /\ Len(all) >= PageSize
    BY <1>00, <1>01, <1>4 DEF Got
  <2> HIDE DEF n
  <2>2. n \in Nat /\ n + 1 \in Nat
    BY <1>0 DEF n
  <2>3. /\ new \in Seq(Row)
        /\ Len(new) < PageSize => n * PageSize + PageSize >= Len(all)
        /\ new = << >> => n * PageSize >= Len(all)
    <3> DEFINE z == Slice(all, n, None)
    <3>1. /\ z \in Seq(Row)
          /\ Len(z) < PageSize => n * PageSize + PageSize >= Len(all)
          /\ z = << >> <=> n * PageSize >= Len(all)
      BY <1>1, <2>2, PageIs
    <3>2. z = new
      BY <2>1
    <3> HIDE DEF z
    <3> QED BY <3>1, <3>2
  <2>4. rows = SubSeq(all, 1, Min({(n + 1) * PageSize, Len(all)}))
    BY <1>1, <2>1, <2>2, OneMore
  <2> DEFINE x == n * PageSize
             y == (n + 1) * PageSize
  <2>5. x \in Nat /\ y \in Nat /\ y = x + PageSize
    BY <1>1, <2>2
  <2> HIDE DEF x, y, rows
  <2>6. x >= Len(all) => a.rows = all
    BY <1>1, <2>1, <2>5, PrefixIs DEF x
  <2>7. /\ rows \in Seq(Row) /\ Len(rows) = (IF y <= Len(all) THEN y ELSE Len(all))
        /\ y >= Len(all) => rows = all
    BY <1>1, <2>4, <2>5, PrefixIs DEF y
  <2>8. ASSUME Len(rows) < Threshold, Len(new) < PageSize \/ n + 1 >= MaxPagesToFetch
        PROVE  rows = all
    <3>1. CASE Len(new) < PageSize
      <4>1. y >= Len(all)
        BY <2>3, <2>5, <3>1 DEF x
      <4> QED BY <2>7, <4>1
    <3>2. CASE n + 1 >= MaxPagesToFetch
      <4>1. y >= Threshold
        BY <1>3, <3>2 DEF y, n
      <4>2. y >= Len(all)
        BY <1>1, <2>5, <2>7, <2>8, <4>1
      <4> QED BY <2>7, <4>2
    <3> QED BY <2>8, <3>1, <3>2
  <2>9. ASSUME NEW b \in Run, b.of = a.of, b.next = n + 1, b.rows = rows PROVE Got(b, TRUE)
    BY <1>01, <2>1, <2>4, <2>9 DEF Got
  <2>10. new = << >> => a.rows = all
    BY <2>3, <2>6 DEF x
  <2>11. ASSUME NEW b \in Run, b.of = a.of, b.next = n + 1, b.rows = rows
         PROVE  Got(b, Paged(b.of))
    <3>1. Paged(b.of) = TRUE
      BY <1>00, <1>4, <2>11 DEF paged
    <3> QED BY <2>9, <2>11, <3>1
  <2> QED BY <2>3, <2>7, <2>8, <2>10, <2>11 DEF rows, n, new, all
<1>5. CASE ~paged
  <2>1. new = all /\ Len(a.rows) = n * Len(all) /\ Len(all) >= PageSize
    BY <1>00, <1>01, <1>5 DEF Got
  <2> HIDE DEF n
  <2>2. n \in Nat /\ n + 1 \in Nat
    BY <1>0 DEF n
  <2>3. /\ a.rows \o all \in Seq(Row) /\ Len(a.rows \o all) = Len(a.rows) + Len(all)
    BY <1>0, <1>1, ConcatProperties
  <2> DEFINE l == Len(all)
  <2> HIDE DEF l
  <2>4. Len(rows) = (n + 1) * l /\ rows \in Seq(Row)
    <3>1. Len(rows) = n * l + l
      BY <2>1, <2>3 DEF l
    <3>2. l \in Nat
      BY <1>1 DEF l
    <3>3. n * l + l = (n + 1) * l
      BY <2>2, <3>2
    <3> QED BY <2>1, <2>3, <3>1, <3>3
  <2> HIDE DEF rows
  <2>5. l >= PageSize /\ l \in Nat /\ l > 0
    BY <1>1, <2>1 DEF l
  <2>6. new # << >> /\ ~(Len(new) < PageSize)
    BY <1>1, <2>1, <2>5 DEF l
  <2>7. ASSUME Len(rows) < Threshold, n + 1 >= MaxPagesToFetch PROVE FALSE
    <3>1. (n + 1) * PageSize >= Threshold
      BY <1>3, <2>7 DEF n
    <3> DEFINE x == (n + 1) * PageSize
               y == (n + 1) * l
    <3>2. x \in Nat /\ y \in Nat /\ y >= x
      BY <1>1, <2>2, <2>5
    <3> HIDE DEF x, y
    <3>3. x >= Threshold /\ y < Threshold
      BY <2>4, <2>7, <3>1 DEF x, y
    <3> QED BY <1>1, <3>2, <3>3
  <2>8. ASSUME NEW b \in Run, b.of = a.of, b.next = n + 1, b.rows = rows PROVE Got(b, FALSE)
    BY <1>01, <2>1, <2>4, <2>8 DEF Got, l
  <2>9. ASSUME NEW b \in Run, b.of = a.of, b.next = n + 1, b.rows = rows
        PROVE  Got(b, Paged(b.of))
    <3>1. Paged(b.of) = FALSE
      BY <1>00, <1>5, <2>9 DEF paged
    <3> QED BY <2>8, <2>9, <3>1
  <2> QED BY <1>1, <2>1, <2>4, <2>6, <2>7, <2>9 DEF rows, n, new, all
<1> QED BY <1>00, <1>4, <1>5

\* A step of a run that only sorts.
LEMMA CalmRun ==
  ASSUME IInv, NEW r \in UnderWay, r = run, Streaming, ~hurried
  PROVE  /\ Waits(at[r].step, t) /\ Sorts(at[r].step, t)
         /\ OnPage(at[r].step, t, shown.of, Paged(shown.of))
BY DEF IInv, Calm

LEMMA FirstPageKeeps ==
  ASSUME IInv, NEW r \in UnderWay, FirstPage(r)
  PROVE  IInv'
<1> DEFINE s == at[r].of
           rows == GetPage(s, 0)
           all == AllRows(s)
           columns == IF rows = << >> THEN None ELSE s
           u == [t EXCEPT !.data = rows, !.loading = FALSE, !.columns = columns]
<1>1. /\ s \in Statements /\ at[r] \in Run /\ r \in 1 .. Len(at) /\ at[r].step = "first"
      /\ Streaming => at[run].of = shown.of
      /\ shown' = shown /\ duckdb' = duckdb /\ loads' = loads /\ hurried' = hurried
      /\ t \in State(t.data)
  BY RunFacts DEF FirstPage, IInv, Typed
<1>2. rows \in Seq(Row) /\ (Paged(s) => rows = Slice(all, 0, None))
  <2>1. /\ GetPage(s, 0) \in Seq(Row)
        /\ Paged(s) => GetPage(s, 0) = Slice(AllRows(s), 0, None)
    BY <1>1, GetPageIs
  <2> QED BY <2>1
<1>3. Len(rows) < PageSize => rows = all
  BY <1>1, FirstIs
<1>4. columns \in Statements \cup {None}
  BY <1>1
<1>5. Streaming /\ t.complete => t.cached = AllRows(shown.of)
  BY DEF IInv, Whole
<1>6. \/ r # run /\ t' = t /\ Over(r)
      \/ r = run /\ at[r].skip /\ t' = Sorted(u) /\ Over(r)
      \/ r = run /\ Len(rows) < PageSize /\ t' = Sorted(Cache(u, rows)) /\ Over(r)
      \/ /\ r = run /\ ~(Len(rows) < PageSize) /\ t' = Sorted([u EXCEPT !.caching = TRUE])
         /\ Step(r, [at[r] EXCEPT !.step = "caching", !.rows = rows])
  BY <1>1 DEF FirstPage
<1>7. ASSUME r = run, Streaming
      PROVE  /\ s = shown.of
             /\ ~hurried => /\ t.order = None /\ t.page = 0 /\ ~t.complete
                            /\ Sorts("first", t)
  BY <1>1, <1>7, CalmRun DEF Waits
<1> HIDE DEF columns, rows
<1>8. /\ u \in State(rows) /\ u.data = rows /\ u.order = t.order /\ u.page = t.page
      /\ u.cached = t.cached /\ u.complete = t.complete /\ u.error = t.error
  BY <1>1, <1>4 DEF State
<1> HIDE DEF u, all
<1>9. CASE r # run /\ t' = t /\ Over(r)
  BY <1>1, <1>5, <1>9, EndKeeps
<1>10. CASE r = run /\ at[r].skip /\ t' = Sorted(u) /\ Over(r)
  <2>1. /\ t' \in State(t'.data) /\ t'.cached = u.cached /\ t'.complete = u.complete
        /\ t'.total = u.total
        /\ Streaming => /\ t'.columns # None => ~t'.initialSort
                        /\ u.order = None => /\ t'.order = None /\ t'.page = u.page
                                             /\ t'.data = u.data
    BY <1>8, <1>10, SortedIs
  <2>2. ASSUME Streaming, ~hurried
        PROVE  Sorts("over", t') /\ OnPage("over", t', shown.of, Paged(shown.of)) /\ t'.order = None
    BY <1>2, <1>7, <1>8, <1>10, <2>1, <2>2 DEF Sorts, OnPage, all
  <2>3. Streaming /\ t'.complete => t'.cached = AllRows(shown.of)
    BY <1>5, <1>8, <2>1
  <2> QED BY <1>1, <1>10, <2>1, <2>2, <2>3, EndKeeps
<1>11. CASE r = run /\ Len(rows) < PageSize /\ t' = Sorted(Cache(u, rows)) /\ Over(r)
  <2> DEFINE w == Cache(u, rows)
  <2>1. /\ w \in State(rows) /\ w.cached = rows /\ w.complete /\ ~w.caching
        /\ w.total = Len(rows) /\ w.order = u.order /\ w.page = u.page /\ w.data = u.data
    BY <1>2, <1>8, CacheIs
  <2>2. t' = Sorted(w)
    BY <1>11
  <2> HIDE DEF w
  <2>3. /\ t' \in State(t'.data) /\ t'.cached = w.cached /\ t'.complete = w.complete
        /\ t'.total = w.total
        /\ Streaming => /\ t'.columns # None => ~t'.initialSort
                        /\ w.order = None => /\ t'.order = None /\ t'.page = w.page
                                             /\ t'.data = w.data
    <3>1. w \in State(rows)
      BY <2>1
    <3> QED BY <2>2, <3>1, SortedIs
  <2>4. ASSUME Streaming, ~hurried
        PROVE  Sorts("over", t') /\ OnPage("over", t', shown.of, Paged(shown.of)) /\ t'.order = None
    BY <1>2, <1>7, <1>8, <1>11, <2>1, <2>3, <2>4 DEF Sorts, OnPage, all
  <2>5. Streaming /\ t'.complete => t'.cached = AllRows(shown.of)
    BY <1>3, <1>7, <1>11, <2>1, <2>3 DEF all
  <2> QED BY <1>1, <1>11, <2>3, <2>4, <2>5, EndKeeps
<1>12. CASE /\ r = run /\ ~(Len(rows) < PageSize) /\ t' = Sorted([u EXCEPT !.caching = TRUE])
            /\ Step(r, [at[r] EXCEPT !.step = "caching", !.rows = rows])
  <2> DEFINE w == [u EXCEPT !.caching = TRUE]
             a == [at[r] EXCEPT !.step = "caching", !.rows = rows]
  <2>1. /\ w \in State(rows) /\ w.cached = u.cached /\ w.complete = u.complete /\ w.caching
        /\ w.order = u.order /\ w.page = u.page /\ w.data = u.data
    BY <1>8 DEF State
  <2>2. t' = Sorted(w)
    BY <1>12
  <2> HIDE DEF w
  <2>3. /\ t' \in State(t'.data) /\ t'.cached = w.cached /\ t'.complete = w.complete
        /\ t'.caching = w.caching /\ t'.total = w.total
        /\ Streaming => /\ t'.columns # None => ~t'.initialSort
                        /\ w.order = None => /\ t'.order = None /\ t'.page = w.page
                                             /\ t'.data = w.data
    <3>1. w \in State(rows)
      BY <2>1
    <3> QED BY <2>2, <3>1, SortedIs
  <2>4. ASSUME Streaming, ~hurried
        PROVE  Sorts("caching", t') /\ OnPage("caching", t', shown.of, Paged(shown.of)) /\ t'.order = None
    BY <1>2, <1>7, <1>8, <1>12, <2>1, <2>3, <2>4 DEF Sorts, OnPage, all
  <2>5. Streaming /\ t'.complete => t'.cached = AllRows(shown.of)
    BY <1>5, <1>8, <2>1, <2>3
  <2>6. a \in Run /\ a.of = s /\ a.step = "caching" /\ a.next = at[r].next /\ a.rows = rows
    BY <1>1, <1>2 DEF Run
  <2>7. at' = [at EXCEPT ![r] = a]
    BY <1>12 DEF Step
  <2>8. at[r].next = 1
    BY <1>1 DEF Run
  <2> HIDE DEF a
  <2>9. Got(a, Paged(a.of))
    <3>1. Len(rows) >= PageSize
      BY <1>2, <1>12, TableAssumption
    <3> QED BY <1>1, <2>6, <2>8, <3>1, FirstIs DEF rows
  <2> QED BY <1>1, <2>3, <2>4, <2>5, <2>6, <2>7, <2>9, AnswerKeeps
<1> QED BY <1>6, <1>9, <1>10, <1>11, <1>12

LEMMA FirstPageFailsKeeps ==
  ASSUME IInv, NEW r \in UnderWay, FirstPageFails(r)
  PROVE  IInv'
<1>1. /\ at[r].step = "first" /\ Over(r) /\ t \in State(t.data)
      /\ shown' = shown /\ duckdb' = duckdb /\ loads' = loads /\ hurried' = hurried
      /\ t' = IF r = run THEN [t EXCEPT !.error = TRUE, !.loading = FALSE] ELSE t
  BY DEF FirstPageFails, IInv, Typed
<1>2. Streaming /\ t.complete => t.cached = AllRows(shown.of)
  BY DEF IInv, Whole
<1>3. /\ t' \in State(t'.data) /\ t'.cached = t.cached /\ t'.complete = t.complete
      /\ t'.order = t.order /\ t'.total = t.total /\ t'.columns = t.columns
      /\ t'.initialSort = t.initialSort /\ (r = run => t'.error)
  BY <1>1 DEF State
<1>4. ASSUME Streaming, r = run, ~hurried
      PROVE  Sorts("over", t') /\ OnPage("over", t', shown.of, Paged(shown.of)) /\ t'.order = None
  <2>1. Waits("first", t) /\ Sorts("first", t)
    BY <1>1, <1>4, CalmRun
  <2> QED BY <1>3, <1>4, <2>1 DEF Waits, Sorts, OnPage
<1> QED BY <1>1, <1>2, <1>3, <1>4, EndKeeps

-----------------------------------------------------------------------------
\* What a run in the background makes of the state, if it ends, or gives up.
LEMMA BackgroundEnds ==
  ASSUME IInv, NEW r \in UnderWay, at[r].step = "caching", Over(r),
         shown' = shown, duckdb' = duckdb, loads' = loads, hurried' = hurried,
         NEW w \in State(t.data), t' = Sorted(w),
         w.columns = t.columns, w.order = t.order, w.page = t.page, w.data = t.data, w.error = t.error,
         Streaming /\ w.complete => w.cached = AllRows(shown.of),
         r = run /\ w.complete => w.total = Len(w.cached)
  PROVE  IInv'
<1>1. /\ t' \in State(t'.data) /\ t'.cached = w.cached /\ t'.complete = w.complete
      /\ t'.total = w.total /\ t'.error = w.error
      /\ Streaming => /\ t'.columns # None => ~t'.initialSort
                      /\ w.order = None => t'.order = None /\ t'.page = w.page /\ t'.data = w.data
  BY SortedIs
<1>2. ASSUME Streaming, r = run, ~hurried
      PROVE  Sorts("over", t') /\ OnPage("over", t', shown.of, Paged(shown.of)) /\ t'.order = None
  <2>1. Sorts("caching", t) /\ OnPage("caching", t, shown.of, Paged(shown.of))
    BY <1>2, CalmRun
  <2>2. w.order = None /\ t.order = None
    BY <2>1 DEF Sorts
  <2> QED BY <1>1, <1>2, <2>1, <2>2 DEF Sorts, OnPage
<1> QED BY <1>1, <1>2, EndKeeps

LEMMA KeepKeeps ==
  ASSUME IInv, NEW r \in UnderWay, at[r].step = "caching", NEW rows \in Seq(Row), Keep(r, rows),
         shown' = shown, duckdb' = duckdb, loads' = loads, hurried' = hurried,
         r = run /\ Streaming => rows = AllRows(shown.of)
  PROVE  IInv'
<1>1. Over(r) /\ t \in State(t.data)
  BY DEF Keep, IInv, Typed
<1>2. CASE r # run
  <2>1. t' = t /\ (Streaming /\ t.complete => t.cached = AllRows(shown.of))
    BY <1>2 DEF Keep, IInv, Whole
  <2> QED BY <1>1, <1>2, <2>1, EndKeeps
<1>3. CASE r = run
  <2> DEFINE w == Cache(t, rows)
             d == t.data
  <2>1. t' = Sorted(w)
    BY <1>3 DEF Keep
  <2>2. /\ w \in State(t.data) /\ w.cached = rows /\ w.complete /\ w.total = Len(rows)
        /\ w.columns = t.columns /\ w.order = t.order
        /\ w.page = t.page /\ w.data = t.data /\ w.error = t.error
    BY <1>1, CacheIs
  <2> HIDE DEF w
  <2> QED BY <1>1, <1>3, <2>1, <2>2, BackgroundEnds
<1> QED BY <1>2, <1>3

LEMMA CachePageKeeps ==
  ASSUME IInv, NEW r \in UnderWay, CachePage(r)
  PROVE  IInv'
<1> DEFINE a == at[r]
           new == GetPage(a.of, a.next)
           rows == a.rows \o new
           partial == IF Len(new) < PageSize THEN a.partial + 1 ELSE 0
           b == [a EXCEPT !.rows = rows, !.next = @ + 1, !.partial = partial]
<1>1. /\ a \in Run /\ a.step = "caching" /\ a.of \in Statements /\ a.next \in Nat \ {0}
      /\ a.rows \in Seq(Row) /\ a.partial \in Nat /\ t \in State(t.data)
      /\ shown' = shown /\ duckdb' = duckdb /\ loads' = loads /\ hurried' = hurried
      /\ r = run /\ Streaming => a.of = shown.of
  BY RunFacts DEF CachePage, Run, IInv, Typed
<1>2. \/ new = << >> /\ Keep(r, a.rows)
      \/ t' = Sorted([NoCache(t) EXCEPT !.total = Len(rows) * 10]) /\ Over(r)
      \/ /\ Len(rows) < Threshold /\ (partial = 2 \/ a.next + 1 >= MaxPagesToFetch)
         /\ Keep(r, rows)
      \/ r = run /\ t' = t /\ Step(r, b)
      \/ r # run /\ t' = Sorted([t EXCEPT !.caching = FALSE]) /\ Over(r)
  BY DEF CachePage
<1>3. /\ new \in Seq(Row)
      /\ Paged(a.of) => new = Slice(AllRows(a.of), a.next, None)
      /\ ~Paged(a.of) => new = AllRows(a.of)
  <2> DEFINE s == a.of
             p == a.next
  <2>1. s \in Statements /\ p \in Nat
    BY <1>1
  <2> HIDE DEF s, p
  <2>2. /\ GetPage(s, p) \in Seq(Row)
        /\ Paged(s) => GetPage(s, p) = Slice(AllRows(s), p, None)
        /\ ~Paged(s) => GetPage(s, p) = AllRows(s)
    BY <2>1, GetPageIs
  <2> QED BY <2>2 DEF s, p
<1> HIDE DEF a, new
<1>4. rows \in Seq(Row) /\ Len(rows) \in Nat /\ partial \in Nat
  BY <1>1, <1>3, ConcatProperties
<1>5. partial = 2 => Len(new) < PageSize
  OBVIOUS
<1>6. ASSUME r = run, Streaming
      PROVE  /\ new = << >> => a.rows = AllRows(shown.of)
             /\ Len(rows) < Threshold /\ (Len(new) < PageSize \/ a.next + 1 >= MaxPagesToFetch)
                  => rows = AllRows(shown.of)
             /\ \A c \in Run : c.of = a.of /\ c.next = a.next + 1 /\ c.rows = rows => Got(c, Paged(c.of))
  <2>1. Got(a, Paged(a.of))
    BY <1>1, <1>6 DEF IInv, Whole, a
  <2>2. /\ new = << >> => a.rows = AllRows(a.of)
        /\ Len(rows) < Threshold /\ (Len(new) < PageSize \/ a.next + 1 >= MaxPagesToFetch)
             => rows = AllRows(a.of)
        /\ \A c \in Run : c.of = a.of /\ c.next = a.next + 1 /\ c.rows = rows => Got(c, Paged(c.of))
    BY <1>1, <2>1, NextIs DEF new
  <2> QED BY <1>1, <1>6, <2>2
<1>7. CASE new = << >> /\ Keep(r, a.rows)
  BY <1>1, <1>6, <1>7, KeepKeeps DEF a
<1>8. CASE t' = Sorted([NoCache(t) EXCEPT !.total = Len(rows) * 10]) /\ Over(r)
  <2> DEFINE n == Len(rows) * 10
             w == [NoCache(t) EXCEPT !.total = n]
  <2>1. n \in Nat
    BY <1>4
  <2>2. t' = Sorted(w)
    BY <1>8
  <2> HIDE DEF n
  <2>3. /\ w \in State(t.data) /\ ~w.complete /\ w.columns = t.columns /\ w.order = t.order
        /\ w.page = t.page /\ w.data = t.data /\ w.error = t.error
    BY <1>1, <2>1, NoCacheIs
  <2> HIDE DEF w
  <2> QED BY <1>1, <1>8, <2>2, <2>3, BackgroundEnds DEF a
<1>9. CASE /\ Len(rows) < Threshold /\ (partial = 2 \/ a.next + 1 >= MaxPagesToFetch)
           /\ Keep(r, rows)
  <2> HIDE DEF rows, partial
  <2> QED BY <1>1, <1>4, <1>5, <1>6, <1>9, KeepKeeps DEF a
<1>10. CASE r = run /\ t' = t /\ Step(r, b)
  <2> HIDE DEF rows, partial
  <2>1. b \in Run /\ b.of = a.of /\ b.step = "caching" /\ b.next = a.next + 1 /\ b.rows = rows
    <3>1. a \in [of : Statements, step : {"first", "caching", "over"}, skip : BOOLEAN,
                  next : Nat \ {0}, rows : Seq(Row), partial : Nat]
      BY <1>1 DEF Run
    <3>2. a.next + 1 \in Nat \ {0}
      BY <1>1
    <3> DEFINE next == a.next + 1
    <3> HIDE DEF next
    <3>3. b = [a EXCEPT !.rows = rows, !.next = next, !.partial = partial]
      BY DEF next
    <3> HIDE DEF b
    <3>4. /\ b \in [of : Statements, step : {"first", "caching", "over"}, skip : BOOLEAN,
                    next : Nat \ {0}, rows : Seq(Row), partial : Nat]
          /\ b.of = a.of /\ b.step = a.step /\ b.next = next /\ b.rows = rows
      BY <1>4, <3>1, <3>2, <3>3 DEF next
    <3> QED BY <1>1, <3>4 DEF Run, next
  <2>2. at' = [at EXCEPT ![r] = b]
    BY <1>10 DEF Step, a
  <2> HIDE DEF b
  <2>3. Streaming => Got(b, Paged(b.of))
    BY <1>6, <1>10, <2>1
  <2>4. /\ t' \in State(t'.data)
        /\ Streaming /\ t'.complete => t'.cached = AllRows(shown.of)
    BY <1>1, <1>10 DEF IInv, Whole
  <2>5. ASSUME Streaming, ~hurried
        PROVE  Sorts("caching", t') /\ OnPage("caching", t', shown.of, Paged(shown.of)) /\ t'.order = None
    <3>1. Sorts("caching", t) /\ OnPage("caching", t, shown.of, Paged(shown.of))
      BY <1>1, <1>10, <2>5, CalmRun DEF a
    <3> QED BY <1>10, <3>1 DEF Sorts
  <2>6. b.of = at[r].of
    BY <2>1 DEF a
  <2> QED BY <1>1, <1>10, <2>1, <2>2, <2>3, <2>4, <2>5, <2>6, AnswerKeeps
<1>11. CASE r # run /\ t' = Sorted([t EXCEPT !.caching = FALSE]) /\ Over(r)
  <2> DEFINE w == [t EXCEPT !.caching = FALSE]
  <2>1. /\ w \in State(t.data) /\ w.complete = t.complete /\ w.cached = t.cached
        /\ w.columns = t.columns /\ w.order = t.order
        /\ w.page = t.page /\ w.data = t.data /\ w.error = t.error
    BY <1>1 DEF State
  <2>2. t' = Sorted(w)
    BY <1>11
  <2> HIDE DEF w
  <2>3. Streaming /\ w.complete => w.cached = AllRows(shown.of)
    BY <2>1 DEF IInv, Whole
  <2> QED BY <1>1, <1>11, <2>1, <2>2, <2>3, BackgroundEnds DEF a
<1> HIDE DEF rows, partial, b
<1> QED BY <1>2, <1>7, <1>8, <1>9, <1>10, <1>11

LEMMA CachePageFailsKeeps ==
  ASSUME IInv, NEW r \in UnderWay, CachePageFails(r)
  PROVE  IInv'
<1>1. /\ at[r].step = "caching" /\ Over(r) /\ t \in State(t.data)
      /\ shown' = shown /\ duckdb' = duckdb /\ loads' = loads /\ hurried' = hurried
  BY DEF CachePageFails, IInv, Typed
<1> DEFINE w == NoCache(t)
<1>2. t' = Sorted(w)
  BY DEF CachePageFails
<1>3. /\ w \in State(t.data) /\ ~w.complete /\ w.columns = t.columns /\ w.order = t.order
      /\ w.page = t.page /\ w.data = t.data /\ w.error = t.error
  <2>1. 0 \in Nat /\ w = NoCache(t)
    OBVIOUS
  <2> HIDE DEF w
  <2> QED BY <1>1, <2>1, NoCacheIs
<1> HIDE DEF w
<1> QED BY <1>1, <1>2, <1>3, BackgroundEnds

LEMMA NotUnderWay ==
  ASSUME IInv
  PROVE  /\ t \in State(t.data) /\ at \in Seq(Run) /\ Len(at) \in Nat
         /\ Len(at) = run /\ (Hurry(UnderWay # {} \/ loads # {}) /\ ~hurried' =>
              ~hurried /\ UnderWay = {} /\ loads = {})
<1>1. t \in State(t.data) /\ at \in Seq(Run) /\ hurried \in BOOLEAN
  BY DEF IInv, Typed
<1>2. Len(at) = run /\ Len(at) \in Nat
  BY <1>1 DEF run
<1>3. ASSUME Hurry(UnderWay # {} \/ loads # {}), ~hurried'
      PROVE  ~hurried /\ UnderWay = {} /\ loads = {}
  BY <1>1, <1>3 DEF Hurry
<1> QED BY <1>1, <1>2, <1>3

\* A call of executeQuery, up to its first await.
LEMMA ExecuteKeeps ==
  ASSUME IInv, NEW d, NEW w \in State(d), w.columns = None, NEW s \in Statements,
         NEW early \in BOOLEAN, Execute(w, s, early),
         shown' = [mode |-> "sql", of |-> s], duckdb' \in BOOLEAN, loads' = loads,
         Hurry(UnderWay # {} \/ loads # {})
  PROVE  IInv'
<1>1. /\ t \in State(t.data) /\ at \in Seq(Run) /\ Len(at) \in Nat
      /\ ~hurried' => ~hurried /\ UnderWay = {} /\ loads = {}
      /\ hurried' \in BOOLEAN
  BY NotUnderWay DEF IInv, Typed, Hurry
<1> DEFINE n == Len(at)
           step == IF early THEN "over" ELSE "first"
           a == [of |-> s, step |-> step, skip |-> t.complete, next |-> 1,
                 rows |-> << >>, partial |-> 0]
<1>2. at' = Append(at, a)
  BY DEF Execute
<1>3. a \in Run /\ a.of = s /\ a.step = step /\ step \in {"first", "over"}
  <2>1. t.complete \in BOOLEAN /\ << >> \in Seq(Row)
    BY <1>1 DEF State
  <2> QED BY <2>1 DEF Run
<1>4. /\ t' \in State(t'.data) /\ t'.page = 0 /\ t'.order = None /\ ~t'.complete
      /\ t'.columns = None /\ t'.loading = ~early /\ t'.error = early /\ t'.data = w.data
  <2> DEFINE clear == [w EXCEPT !.page = 0, !.error = FALSE, !.loading = TRUE, !.order = None,
                         !.cached = << >>, !.complete = FALSE, !.caching = FALSE]
  <2>1. 0 \in 0 .. MaxPage /\ None \in Orders /\ << >> \in Seq(Row) /\ Estimate[s] \in Nat
    BY TableAssumption DEF Orders
  <2>2. /\ clear \in State(d) /\ clear.page = 0 /\ clear.order = None /\ clear.complete = FALSE
        /\ clear.columns = None /\ clear.data = w.data /\ clear.error = FALSE /\ clear.loading = TRUE
        /\ w.data = d
    BY <2>1 DEF State
  <2>3. t' = IF early THEN [clear EXCEPT !.loading = FALSE, !.error = TRUE]
             ELSE [clear EXCEPT !.total = Estimate[s]]
    BY DEF Execute
  <2> HIDE DEF clear
  <2>4. CASE early
    BY <2>2, <2>3, <2>4 DEF State
  <2>5. CASE ~early
    BY <2>1, <2>2, <2>3, <2>5 DEF State
  <2> QED BY <2>4, <2>5
<1>5. /\ shown'.mode = "sql" /\ shown'.of = s
      /\ shown' \in [mode : {None, "sql", "result"}, of : Statements \cup {None}]
  OBVIOUS
<1> HIDE DEF a, step
<1>6. /\ at' \in Seq(Run) /\ Len(at') = n + 1 /\ at' # << >> /\ at'[n + 1] = a
      /\ \A i \in 1 .. n : at'[i] = at[i]
  BY <1>1, <1>2, <1>3
<1>7. run' = n + 1 /\ Streaming' /\ at'[run'] = a
  BY <1>5, <1>6 DEF run, Streaming
<1>8. Typed'
  BY <1>1, <1>4, <1>5, <1>6 DEF IInv, Typed
<1>9. Whole'
  BY <1>3, <1>4, <1>5, <1>6, <1>7 DEF Whole
<1>10. Calm'
  <2> SUFFICES ASSUME ~hurried'
               PROVE  /\ UnderWay' \subseteq {run'} /\ loads = {}
                      /\ Waits(step, t') /\ Sorts(step, t')
                      /\ OnPage(step, t', shown'.of, Paged(shown.of)')
    BY <1>3, <1>7 DEF Calm
  <2>1. UnderWay = {} /\ loads = {}
    BY <1>1
  <2>2. UnderWay' \subseteq {n + 1}
    <3> SUFFICES ASSUME NEW i \in DOMAIN at', at'[i].step # "over", i # n + 1 PROVE FALSE
      BY DEF UnderWay
    <3>1. i \in 1 .. n
      BY <1>1, <1>6
    <3>2. i \in UnderWay
      BY <1>1, <1>6, <3>1 DEF UnderWay
    <3> QED BY <2>1, <3>2
  <2>3. Waits(step, t')
    BY <1>4 DEF Waits, step
  <2>4. Sorts(step, t')
    BY <1>3, <1>4 DEF Sorts
  <2>5. OnPage(step, t', shown'.of, Paged(shown.of)')
    BY <1>4 DEF OnPage, step
  <2> QED BY <1>7, <2>1, <2>2, <2>3, <2>4, <2>5
<1> QED BY <1>8, <1>9, <1>10 DEF IInv

LEMMA ShowSqlKeeps ==
  ASSUME IInv, NEW s \in Streamed, ShowSql(s)
  PROVE  IInv'
<1> DEFINE u == [t EXCEPT !.data = << >>, !.columns = None]
           w == SortEffect(t, u)
<1>1. s \in Statements /\ t \in State(t.data) /\ duckdb' \in BOOLEAN
  BY TableAssumption DEF ShowSql, IInv, Typed
<1>2. PICK early \in BOOLEAN : Execute(w, s, early)
  BY DEF ShowSql
<1>3. u \in State(<< >>) /\ u.columns = None
  BY <1>1 DEF State
<1> HIDE DEF u
<1>4. w \in State(w.data) /\ w.columns = None
  <2> DEFINE new == Slice(t.cached, 0, t.order)
  <2>1. \/ w = u \/ w = [u EXCEPT !.initialSort = FALSE]
        \/ w = [u EXCEPT !.page = 0, !.data = new] \/ w = [u EXCEPT !.order = None]
    BY DEF SortEffect
  <2> HIDE DEF new, w
  <2>2. 0 \in 0 .. MaxPage /\ None \in Orders
    BY TableAssumption DEF Orders
  <2>3. u.data = << >>
    BY <1>3 DEF State
  <2>4. CASE w = u
    BY <1>3, <2>3, <2>4
  <2>5. CASE w = [u EXCEPT !.initialSort = FALSE]
    BY <1>3, <2>3, <2>5 DEF State
  <2>6. CASE w = [u EXCEPT !.page = 0, !.data = new]
    BY <1>3, <2>2, <2>6 DEF State
  <2>7. CASE w = [u EXCEPT !.order = None]
    BY <1>3, <2>2, <2>3, <2>7 DEF State
  <2> QED BY <2>1, <2>4, <2>5, <2>6, <2>7
<1> HIDE DEF w
<1>5. /\ shown' = [mode |-> "sql", of |-> s] /\ loads' = loads
      /\ Hurry(UnderWay # {} \/ loads # {})
  BY DEF ShowSql
<1> QED BY <1>1, <1>2, <1>4, <1>5, ExecuteKeeps

\* Nothing is streamed any more.
LEMMA NoStreamKeeps ==
  ASSUME IInv, shown' \in [mode : {None, "result"}, of : Statements \cup {None}],
         shown'.mode # None => shown'.of \in Statements,
         duckdb' \in BOOLEAN, t' \in State(t'.data), at' = at, loads' = loads,
         Hurry(UnderWay # {} \/ loads # {})
  PROVE  IInv'
<1>1. /\ ~hurried' => ~hurried /\ UnderWay = {} /\ loads = {}
      /\ hurried' \in BOOLEAN
  BY NotUnderWay DEF IInv, Typed, Hurry
<1>2. ~Streaming'
  BY DEF Streaming, None
<1>3. Typed'
  BY <1>1 DEF IInv, Typed
<1>4. Whole'
  BY <1>2 DEF Whole
<1>5. UnderWay' = UnderWay /\ run' = run
  BY DEF UnderWay, run
<1>6. Calm'
  BY <1>1, <1>2, <1>5 DEF Calm
<1> QED BY <1>3, <1>4, <1>6 DEF IInv

LEMMA PreloadIs ==
  ASSUME NEW d, t \in State(d), NEW s \in Statements, NEW order, Preload(s, order)
  PROVE  t' \in State(t'.data)
<1> DEFINE new == Slice(AllRows(s), 0, order)
           n == Len(Values[s])
<1>1. n \in Nat /\ 0 \in 0 .. MaxPage /\ None \in Orders
  BY RowsOf, TableAssumption DEF Orders
<1>2. t' = [t EXCEPT !.data = new, !.columns = s, !.total = n,
                     !.error = FALSE, !.page = 0, !.order = None]
  BY DEF Preload
<1> HIDE DEF new, n
<1> QED BY <1>1, <1>2 DEF State

LEMMA ShowResultKeeps ==
  ASSUME IInv, NEW s \in Statements, ShowResult(s)
  PROVE  IInv'
<1>1. t \in State(t.data) /\ duckdb' \in BOOLEAN
  BY DEF ShowResult, IInv, Typed
<1>2. t' \in State(t'.data)
  <2> DEFINE order == t.order
  <2>1. Preload(s, order)
    BY DEF ShowResult
  <2> HIDE DEF order
  <2> QED BY <1>1, <2>1, PreloadIs
<1>3. /\ shown' = [mode |-> "result", of |-> s] /\ at' = at /\ loads' = loads
      /\ Hurry(UnderWay # {} \/ loads # {})
  BY DEF ShowResult
<1>4. /\ shown' \in [mode : {None, "result"}, of : Statements \cup {None}]
      /\ shown'.of \in Statements
  BY <1>3
<1> QED BY <1>1, <1>2, <1>3, <1>4, NoStreamKeeps

LEMMA ShowNothingKeeps ==
  ASSUME IInv, ShowNothing
  PROVE  IInv'
<1>1. t \in State(t.data) /\ duckdb' \in BOOLEAN
  BY DEF ShowNothing, IInv, Typed
<1>2. t' \in State(t'.data)
  <2>1. t' = [t EXCEPT !.data = << >>, !.columns = None, !.total = 0,
                    !.error = FALSE, !.order = None]
    BY DEF ShowNothing
  <2>2. None \in Orders
    BY DEF Orders
  <2> QED BY <1>1, <2>1, <2>2 DEF State
<1>3. /\ shown' = [mode |-> None, of |-> None] /\ at' = at /\ loads' = loads
      /\ Hurry(UnderWay # {} \/ loads # {})
  BY DEF ShowNothing
<1>4. /\ shown' \in [mode : {None, "result"}, of : Statements \cup {None}]
      /\ shown'.mode = None
  BY <1>3
<1> QED BY <1>1, <1>2, <1>3, <1>4, NoStreamKeeps

LEMMA SwitchEngineKeeps ==
  ASSUME IInv, SwitchEngine
  PROVE  IInv'
<1>1. /\ t \in State(t.data) /\ duckdb' \in BOOLEAN /\ shown' = shown /\ loads' = loads
      /\ shown \in [mode : {None, "sql", "result"}, of : Statements \cup {None}]
      /\ (shown.mode # None => shown.of \in Statements)
      /\ Hurry(UnderWay # {} \/ loads # {})
  BY DEF SwitchEngine, IInv, Typed
<1>2. CASE Streaming
  <2> DEFINE w == [t EXCEPT !.data = << >>, !.columns = None]
             s == shown.of
  <2>1. PICK early \in BOOLEAN : Execute(w, s, early)
    <3>1. \E early \in BOOLEAN :
            Execute([t EXCEPT !.data = << >>, !.columns = None], shown.of, early)
      BY <1>2 DEF SwitchEngine, Streaming
    <3> QED BY <3>1
  <2>2. w \in State(<< >>) /\ w.columns = None
    BY <1>1 DEF State
  <2>3. s \in Statements /\ shown' = [mode |-> "sql", of |-> s]
    BY <1>1, <1>2 DEF Streaming, None
  <2> HIDE DEF w, s
  <2> QED BY <1>1, <2>1, <2>2, <2>3, ExecuteKeeps
<1>3. CASE shown.mode = "result"
  <2> DEFINE s == shown.of
  <2>1. Preload(s, None) /\ at' = at
    BY <1>3 DEF SwitchEngine, Streaming
  <2>2. s \in Statements
    BY <1>1, <1>3 DEF None
  <2>3. t' \in State(t'.data)
    <3> HIDE DEF s
    <3> QED BY <1>1, <2>1, <2>2, PreloadIs
  <2>4. shown' \in [mode : {None, "result"}, of : Statements \cup {None}] /\ shown'.of \in Statements
    BY <1>1, <1>3, <2>2
  <2> QED BY <1>1, <2>1, <2>3, <2>4, NoStreamKeeps
<1>4. CASE shown.mode = None
  <2>1. t' = t /\ at' = at
    BY <1>4 DEF SwitchEngine, Streaming, None
  <2>2. shown' \in [mode : {None, "result"}, of : Statements \cup {None}] /\ shown'.mode = None
    BY <1>1, <1>4
  <2> QED BY <1>1, <2>1, <2>2, NoStreamKeeps
<1> QED BY <1>1, <1>2, <1>3, <1>4 DEF Streaming

\* Calm, of a state whose runs are as they were.
LEMMA CalmIs ==
  ASSUME IInv, ~hurried, Streaming
  PROVE  /\ Waits(at[run].step, t) /\ Sorts(at[run].step, t)
         /\ OnPage(at[run].step, t, shown.of, Paged(shown.of))
         /\ t.complete => t.cached = AllRows(shown.of)
         /\ at[run].step \in {"first", "caching", "over"}
<1>1. at # << >> /\ at \in Seq(Run)
  BY DEF IInv, Typed, Whole
<1>2. at[run] \in Run
  BY <1>1 DEF run
<1> QED BY <1>2 DEF IInv, Calm, Whole, Run

\* The user, or a page, changes nothing but the state of the hook.
LEMMA PageKeeps ==
  ASSUME IInv, shown' = shown, duckdb' = duckdb, at' = at,
         hurried' \in BOOLEAN, hurried => hurried', loads' \subseteq Load,
         t' \in State(t'.data), t'.cached = t.cached, t'.complete = t.complete,
         ~hurried' =>
           /\ \A l \in loads' : l \notin loads => Streaming /\ l.of = shown.of
           /\ Streaming =>
                /\ loads' # {} => t'.order = None /\ at[run].step # "first"
                /\ Waits(at[run].step, t') /\ Sorts(at[run].step, t')
                /\ OnPage(at[run].step, t', shown.of, Paged(shown.of))
  PROVE  IInv'
<1>1. Typed'
  BY DEF IInv, Typed
<1>2. run' = run /\ (Streaming' <=> Streaming) /\ UnderWay' = UnderWay
  BY DEF run, Streaming, UnderWay
<1>3. \A s : Paged(s)' = Paged(s)
  BY DEF Paged
<1>4. Whole'
  BY <1>2, <1>3 DEF IInv, Whole
<1>5. Calm'
  BY <1>2, <1>3 DEF IInv, Calm
<1> QED BY <1>1, <1>4, <1>5 DEF IInv

LEMMA PageComesKeeps ==
  ASSUME IInv, NEW l \in loads, PageComes(l)
  PROVE  IInv'
<1>1. /\ t \in State(t.data) /\ loads \subseteq Load /\ l \in Load /\ hurried \in BOOLEAN
      /\ shown' = shown /\ duckdb' = duckdb /\ at' = at /\ hurried' = hurried
      /\ loads' = loads \ {l}
  BY DEF IInv, Typed, PageComes
<1> DEFINE new == GetPage(l.of, l.page)
           p == l.page
<1>2. p \in 0 .. MaxPage /\ l.of \in Statements /\ p \in Nat
  BY <1>1, TableAssumption DEF Load
<1>3. Paged(l.of) => new = Slice(AllRows(l.of), p, None)
  BY <1>2, GetPageIs
<1>4. t' = [t EXCEPT !.data = new, !.page = p, !.loadingPage = FALSE]
  BY DEF PageComes
<1> HIDE DEF new, p
<1>5. /\ t' \in State(t'.data) /\ t'.data = new /\ t'.page = p
      /\ t'.order = t.order /\ t'.columns = t.columns /\ t'.total = t.total /\ t'.caching = t.caching
      /\ t'.cached = t.cached /\ t'.complete = t.complete /\ t'.initialSort = t.initialSort
  BY <1>1, <1>2, <1>4 DEF State
<1>6. ASSUME ~hurried
      PROVE  /\ Streaming /\ l.of = shown.of /\ t.order = None /\ at[run].step # "first"
  BY <1>6 DEF IInv, Calm
<1>7. ASSUME ~hurried
      PROVE  /\ Waits(at[run].step, t') /\ Sorts(at[run].step, t')
             /\ OnPage(at[run].step, t', shown.of, Paged(shown.of))
  <2>1. Sorts(at[run].step, t)
    BY <1>6, <1>7, CalmIs
  <2> QED BY <1>3, <1>5, <1>6, <1>7, <2>1 DEF Waits, Sorts, OnPage
<1> QED BY <1>1, <1>5, <1>6, <1>7, PageKeeps

LEMMA PageFailsKeeps ==
  ASSUME IInv, NEW l \in loads, PageFails(l)
  PROVE  IInv'
<1>1. /\ t \in State(t.data) /\ loads \subseteq Load /\ hurried \in BOOLEAN
      /\ shown' = shown /\ duckdb' = duckdb /\ at' = at /\ hurried' = hurried
      /\ loads' = loads \ {l}
  BY DEF IInv, Typed, PageFails
<1>2. /\ t' \in State(t'.data) /\ t'.data = t.data /\ t'.page = t.page
      /\ t'.order = t.order /\ t'.columns = t.columns /\ t'.total = t.total /\ t'.caching = t.caching
      /\ t'.cached = t.cached /\ t'.complete = t.complete /\ t'.initialSort = t.initialSort
      /\ t'.error = t.error /\ t'.loading = t.loading
  BY <1>1 DEF PageFails, State
<1>3. ASSUME ~hurried
      PROVE  Streaming /\ t.order = None /\ at[run].step # "first"
  BY <1>3 DEF IInv, Calm
<1>4. ASSUME ~hurried
      PROVE  /\ Waits(at[run].step, t') /\ Sorts(at[run].step, t')
             /\ OnPage(at[run].step, t', shown.of, Paged(shown.of))
  <2>1. /\ Waits(at[run].step, t) /\ Sorts(at[run].step, t)
        /\ OnPage(at[run].step, t, shown.of, Paged(shown.of))
    BY <1>3, <1>4, CalmIs
  <2> QED BY <1>2, <2>1 DEF Waits, Sorts, OnPage
<1> QED BY <1>1, <1>2, <1>3, <1>4, PageKeeps

LEMMA LoadPageKeeps ==
  ASSUME IInv, NEW p \in 0 .. MaxPage, LoadPage(p)
  PROVE  IInv'
<1>1. /\ t \in State(t.data) /\ loads \subseteq Load /\ hurried \in BOOLEAN
      /\ shown' = shown /\ duckdb' = duckdb /\ at' = at
      /\ hurried' = (hurried \/ (t.loading \/ loads # {}))
      /\ p \in Nat /\ t.total \in Nat /\ t.cached \in Seq(Row) /\ t.loading \in BOOLEAN
  BY TableAssumption DEF IInv, Typed, LoadPage, Hurry, State
<1>2. p <= TotalPages - 1 /\ TotalPages \in Nat
  <2>1. TotalPages \in Nat
    BY <1>1, CeilDivIs, TableAssumption DEF TotalPages
  <2>2. p \in 0 .. Min({TotalPages - 1, MaxPage})
    BY DEF LoadPage
  <2> HIDE DEF TotalPages
  <2>3. Min({TotalPages - 1, MaxPage}) = IF TotalPages - 1 <= MaxPage THEN TotalPages - 1 ELSE MaxPage
    BY <2>1, MinOfTwo, TableAssumption
  <2> QED BY <1>1, <2>1, <2>2, <2>3, TableAssumption
<1>3. p * PageSize < t.total
  BY <1>1, <1>2, CeilDivIs, TableAssumption DEF TotalPages
<1> DEFINE inCache == p * PageSize < Len(t.cached) /\ (t.complete \/ t.order # None)
<1>4. ASSUME ~hurried'
      PROVE  /\ ~hurried /\ loads = {} /\ ~t.loading
             /\ Streaming => /\ at[run].step # "first"
                             /\ Waits(at[run].step, t) /\ Sorts(at[run].step, t)
                             /\ OnPage(at[run].step, t, shown.of, Paged(shown.of))
                             /\ t.complete => t.cached = AllRows(shown.of)
                             /\ t.order # None => inCache
  <2>1. ~hurried /\ loads = {} /\ ~t.loading
    BY <1>1, <1>4
  <2>2. ASSUME Streaming
        PROVE  /\ at[run].step # "first"
               /\ Waits(at[run].step, t) /\ Sorts(at[run].step, t)
               /\ OnPage(at[run].step, t, shown.of, Paged(shown.of))
               /\ t.complete => t.cached = AllRows(shown.of)
    <3>1. /\ Waits(at[run].step, t) /\ Sorts(at[run].step, t)
          /\ OnPage(at[run].step, t, shown.of, Paged(shown.of))
          /\ t.complete => t.cached = AllRows(shown.of)
      BY <2>1, <2>2, CalmIs
    <3> QED BY <2>1, <3>1 DEF Waits
  <2>3. ASSUME Streaming, t.order # None PROVE inCache
    <3>1. t.complete /\ t.total = Len(t.cached)
      BY <2>2, <2>3 DEF Sorts
    <3> QED BY <1>3, <2>3, <3>1
  <2> QED BY <2>1, <2>2, <2>3
<1>5. ASSUME NEW rows, t' = [t EXCEPT !.data = rows, !.page = p, !.loadingPage = FALSE], loads' = loads,
             Streaming => rows = Slice(t.cached, p, t.order) /\ inCache
      PROVE  IInv'
  <2>1. /\ t' \in State(t'.data) /\ t'.data = rows /\ t'.page = p
        /\ t'.order = t.order /\ t'.columns = t.columns /\ t'.total = t.total /\ t'.caching = t.caching
        /\ t'.cached = t.cached /\ t'.complete = t.complete /\ t'.initialSort = t.initialSort
        /\ t'.error = t.error /\ t'.loading = t.loading
    BY <1>1, <1>5 DEF State
  <2>2. ASSUME ~hurried', Streaming
        PROVE  /\ Waits(at[run].step, t') /\ Sorts(at[run].step, t')
               /\ OnPage(at[run].step, t', shown.of, Paged(shown.of))
    <3>1. t.complete
      BY <1>4, <1>5, <2>2 DEF Sorts
    <3>2. rows = Slice(AllRows(shown.of), p, t.order)
      BY <1>4, <1>5, <2>2, <3>1
    <3> QED BY <1>4, <2>1, <2>2, <3>2 DEF Waits, Sorts, OnPage
  <2> QED BY <1>1, <1>4, <1>5, <2>1, <2>2, PageKeeps
<1>6. CASE inCache
  <2> DEFINE rows == Slice(t.cached, p, t.order)
  <2>1. t' = [t EXCEPT !.data = rows, !.page = p, !.loadingPage = FALSE] /\ loads' = loads
    BY <1>6 DEF LoadPage
  <2> QED BY <1>5, <1>6, <2>1
<1>7. CASE ~inCache /\ Streaming
  <2>0. /\ \E i \in 1 .. MaxLoads : /\ i \notin {l.id : l \in loads}
                                   /\ loads' = loads \cup {[id |-> i, of |-> shown.of, page |-> p]}
        /\ t' = [t EXCEPT !.loadingPage = TRUE]
    BY <1>7 DEF LoadPage, Streaming
  <2>1. PICK i \in 1 .. MaxLoads : loads' = loads \cup {[id |-> i, of |-> shown.of, page |-> p]}
    BY <2>0
  <2>2. t' = [t EXCEPT !.loadingPage = TRUE]
    BY <2>0
  <2>3. /\ t' \in State(t'.data) /\ t'.data = t.data /\ t'.page = t.page
        /\ t'.order = t.order /\ t'.columns = t.columns /\ t'.total = t.total /\ t'.caching = t.caching
        /\ t'.cached = t.cached /\ t'.complete = t.complete /\ t'.initialSort = t.initialSort
        /\ t'.error = t.error /\ t'.loading = t.loading
    BY <1>1, <2>2 DEF State
  <2>4. loads' \subseteq Load
    <3>1. shown.of \in Statements
      BY <1>7 DEF IInv, Typed, Streaming, None
    <3>2. [id |-> i, of |-> shown.of, page |-> p] \in Load
      BY <3>1 DEF Load
    <3> QED BY <1>1, <2>1, <3>2
  <2>5. ASSUME ~hurried'
        PROVE  /\ \A l \in loads' : l \notin loads => Streaming /\ l.of = shown.of
               /\ t'.order = None /\ at[run].step # "first"
               /\ Waits(at[run].step, t') /\ Sorts(at[run].step, t')
               /\ OnPage(at[run].step, t', shown.of, Paged(shown.of))
    <3>1. /\ at[run].step # "first" /\ t.order = None
          /\ Waits(at[run].step, t) /\ Sorts(at[run].step, t)
          /\ OnPage(at[run].step, t, shown.of, Paged(shown.of))
      BY <1>4, <1>7, <2>5
    <3>2. \A l \in loads' : l \notin loads => Streaming /\ l.of = shown.of
      BY <1>7, <2>1
    <3> QED BY <2>3, <3>1, <3>2 DEF Waits, Sorts, OnPage
  <2> HIDE DEF inCache
  <2>6. hurried' \in BOOLEAN /\ (hurried => hurried')
    BY <1>1
  <2> QED BY <1>1, <2>3, <2>4, <2>5, <2>6, PageKeeps
<1>8. CASE ~inCache /\ ~Streaming
  <2> DEFINE a == Slice(AllRows(shown.of), p, t.order)
             b == t.data
  <2>1. /\ t' = [t EXCEPT !.data = a, !.page = p, !.loadingPage = FALSE]
           \/ t' = [t EXCEPT !.data = b, !.page = p, !.loadingPage = FALSE]
        /\ loads' = loads
    BY <1>8 DEF LoadPage
  <2> HIDE DEF a, b
  <2> QED BY <1>5, <1>8, <2>1
<1> QED BY <1>6, <1>7, <1>8

LEMMA HandleColumnSortKeeps ==
  ASSUME IInv, HandleColumnSort
  PROVE  IInv'
<1> DEFINE order == IF t.order = "asc" THEN "desc" ELSE "asc"
           u == [t EXCEPT !.order = order]
<1>1. /\ t \in State(t.data) /\ loads \subseteq Load /\ hurried \in BOOLEAN
      /\ shown' = shown /\ duckdb' = duckdb /\ at' = at /\ loads' = loads
      /\ hurried' = (hurried \/ (t.loading \/ t.caching \/ loads # {}))
      /\ t.columns # None /\ ~t.error
  BY DEF IInv, Typed, HandleColumnSort, Hurry
<1>2. t' = Sorted(u)
  BY DEF HandleColumnSort
<1>3. order \in Orders /\ order # None
  BY DEF Orders, None
<1> HIDE DEF order
<1>4. /\ u \in State(t.data) /\ u.order = order /\ u.data = t.data /\ u.page = t.page
      /\ u.columns = t.columns /\ u.total = t.total /\ u.caching = t.caching
      /\ u.cached = t.cached /\ u.complete = t.complete /\ u.initialSort = t.initialSort
      /\ u.error = t.error /\ u.loading = t.loading
  BY <1>1, <1>3 DEF State
<1> HIDE DEF u
<1>5. /\ t' \in State(t'.data) /\ t'.columns = u.columns /\ t'.total = u.total
      /\ t'.cached = u.cached /\ t'.complete = u.complete /\ t'.error = u.error
      /\ Streaming /\ t'.columns # None => ~t'.initialSort
  <2>1. u \in State(t.data)
    BY <1>4
  <2> QED BY <1>2, <2>1, SortedIs
<1>6. ASSUME ~hurried', Streaming
      PROVE  /\ loads' = {} /\ Waits(at[run].step, t') /\ Sorts(at[run].step, t')
             /\ OnPage(at[run].step, t', shown.of, Paged(shown.of))
  <2>1. /\ ~hurried /\ loads' = {} /\ ~t.loading /\ ~t.caching
    BY <1>1, <1>6
  <2>2. /\ Waits(at[run].step, t) /\ Sorts(at[run].step, t)
        /\ OnPage(at[run].step, t, shown.of, Paged(shown.of))
        /\ t.complete => t.cached = AllRows(shown.of)
        /\ at[run].step \in {"first", "caching", "over"}
    BY <1>6, <2>1, CalmIs
  <2>3. at[run].step = "over"
    BY <2>1, <2>2 DEF Waits, Sorts
  <2>4. u.columns # None /\ ~u.initialSort /\ ~u.caching /\ u.order # None
    BY <1>1, <1>3, <1>4, <2>1, <2>2 DEF Sorts
  <2>5. \/ /\ t'.order = None /\ t'.page = u.page /\ t'.data = u.data
           /\ ~(u.complete /\ u.cached # << >>)
        \/ /\ t'.order = u.order /\ t'.complete /\ t'.cached # << >>
           /\ t'.page = 0 /\ t'.data = Slice(t'.cached, 0, t'.order)
    <3>1. u \in State(t.data)
      BY <1>4
    <3> QED BY <1>2, <1>6, <2>4, <3>1, SortedIs
  <2>6. CASE t'.order = None /\ t'.page = u.page /\ t'.data = u.data /\ ~(u.complete /\ u.cached # << >>)
    <3>1. t.order = None
      BY <1>4, <2>2, <2>6 DEF Sorts
    <3> QED BY <1>4, <1>5, <1>6, <2>1, <2>2, <2>3, <2>6, <3>1 DEF Waits, Sorts, OnPage
  <2>7. CASE /\ t'.order = u.order /\ t'.complete /\ t'.cached # << >>
             /\ t'.page = 0 /\ t'.data = Slice(t'.cached, 0, t'.order)
    <3>1. t'.cached = AllRows(shown.of)
      BY <1>4, <1>5, <2>2, <2>7
    <3> QED BY <1>4, <1>5, <1>6, <2>1, <2>2, <2>3, <2>7, <3>1 DEF Waits, Sorts, OnPage
  <2> QED BY <2>5, <2>6, <2>7
<1>7. t'.cached = t.cached /\ t'.complete = t.complete /\ hurried' \in BOOLEAN /\ (hurried => hurried')
  BY <1>1, <1>4, <1>5
<1> QED BY <1>1, <1>5, <1>6, <1>7, PageKeeps

-----------------------------------------------------------------------------
LEMMA InitHolds == Init => IInv
<1> SUFFICES ASSUME Init PROVE IInv
  OBVIOUS
<1>1. /\ 0 \in 0 .. MaxPage /\ << >> \in Seq(Row) /\ << >> \in Seq(Run) /\ None \in Orders
  BY TableAssumption DEF Orders
<1>2. t \in State(t.data)
  BY <1>1 DEF Init, State
<1>3. Typed
  BY <1>1, <1>2 DEF Init, Typed
<1>4. ~Streaming /\ UnderWay = {}
  BY DEF Init, Streaming, UnderWay, None
<1> QED BY <1>3, <1>4 DEF Init, IInv, Whole, Calm

LEMMA StepKeeps == IInv /\ [Next]_vars => IInv'
<1> SUFFICES ASSUME IInv, [Next]_vars PROVE IInv'
  OBVIOUS
<1>1. ASSUME NEW r \in DOMAIN at, RunAnswer(r) PROVE IInv'
  BY <1>1, FirstPageKeeps, CachePageKeeps, FirstPageFailsKeeps, CachePageFailsKeeps DEF RunAnswer
<1>2. ASSUME NEW i \in 1 .. MaxLoads, LoadAnswer(i) PROVE IInv'
  BY <1>2, PageComesKeeps, PageFailsKeeps DEF LoadAnswer
<1>3. ASSUME NEW s \in Streamed, ShowSql(s) PROVE IInv'
  BY <1>3, ShowSqlKeeps
<1>4. ASSUME NEW s \in Statements \ Streamed, ShowResult(s) PROVE IInv'
  BY <1>4, ShowResultKeeps
<1>5. ASSUME ShowNothing PROVE IInv'
  BY <1>5, ShowNothingKeeps
<1>6. ASSUME SwitchEngine PROVE IInv'
  BY <1>6, SwitchEngineKeeps
<1>7. ASSUME NEW p \in 0 .. MaxPage, LoadPage(p) PROVE IInv'
  BY <1>7, LoadPageKeeps
<1>8. ASSUME HandleColumnSort PROVE IInv'
  BY <1>8, HandleColumnSortKeeps
<1>9. CASE UNCHANGED vars
  <2>1. /\ shown' = shown /\ duckdb' = duckdb /\ t' = t /\ at' = at /\ loads' = loads
        /\ hurried' = hurried
    BY <1>9 DEF vars
  <2>2. run' = run /\ Streaming' = Streaming /\ UnderWay' = UnderWay /\ \A s : Paged(s)' = Paged(s)
    BY <2>1 DEF run, Streaming, UnderWay, Paged
  <2> QED BY <2>1, <2>2 DEF IInv, Typed, Whole, Calm
<1> QED BY <1>1, <1>2, <1>3, <1>4, <1>5, <1>6, <1>7, <1>8, <1>9 DEF Next

\* The inductive invariant: whatever the engines answer and whenever, a run that
\* still counts has exactly the first pages of its statement.
THEOREM InductiveInvariant == Spec => []IInv
<1>1. Init => IInv
  BY InitHolds
<1>2. IInv /\ [Next]_vars => IInv'
  BY StepKeeps
<1> QED BY <1>1, <1>2, PTL DEF Spec

\* What may be sorted is all there is: useTableData.ts offers to sort, and pages
\* from memory, only when its cache has each row of the statement that is shown
\* once.
THEOREM SortsAllThereIs == Spec => []CacheIsWhole
<1>1. IInv => CacheIsWhole
  <2> SUFFICES ASSUME IInv PROVE CacheIsWhole
    OBVIOUS
  <2>1. CompleteIsWhole
    BY DEF IInv, Whole, CompleteIsWhole
  <2>2. TypeOK
    <3>1. \A r \in DOMAIN at : at[r].step \in {"first", "caching", "over"} /\ at[r].of \in Statements
      <4> SUFFICES ASSUME NEW r \in DOMAIN at
                   PROVE  at[r].step \in {"first", "caching", "over"} /\ at[r].of \in Statements
        OBVIOUS
      <4>1. at[r] \in Run
        BY DEF IInv, Typed
      <4> QED BY <4>1 DEF Run
    <3>2. \A l \in loads : l.of \in Statements /\ l.page \in 0 .. MaxPage
      BY DEF IInv, Typed, Load
    <3>3. t.order \in Orders /\ t.columns \in Statements \cup {None} /\ t.page \in 0 .. MaxPage /\ t.total \in Nat
      BY DEF IInv, Typed, State
    <3>4. /\ shown.mode \in {None, "sql", "result"} /\ shown.of \in Statements \cup {None}
          /\ duckdb \in BOOLEAN /\ hurried \in BOOLEAN
      BY DEF IInv, Typed
    <3> QED BY <3>1, <3>2, <3>3, <3>4 DEF TypeOK
  <2> QED BY <2>1, <2>2 DEF CacheIsWhole
<1> QED BY <1>1, InductiveInvariant, PTL

\* Who waits for the spinners of useTableData.ts sees the page whose number the
\* footer shows, in the order the header shows.
THEOREM PagesAreCalm == Spec => []CalmPages
<1>1. IInv => CalmPages
  <2> SUFFICES ASSUME IInv, ~hurried, Streaming, shown.of \notin Limited, duckdb, UnderWay = {}
               PROVE  t.error \/ t.data = Slice(AllRows(shown.of), t.page, t.order)
    BY DEF CalmPages
  <2>1. Paged(shown.of)
    BY DEF Paged
  <2>2. at # << >> /\ at \in Seq(Run)
    BY DEF IInv, Typed, Whole
  <2>3. run \in DOMAIN at
    BY <2>2 DEF run
  <2>4. at[run].step = "over"
    BY <2>3 DEF UnderWay
  <2>5. OnPage(at[run].step, t, shown.of, Paged(shown.of))
    BY CalmIs
  <2> QED BY <2>1, <2>4, <2>5 DEF OnPage
<1> QED BY <1>1, InductiveInvariant, PTL

-----------------------------------------------------------------------------
(* The export. *)

\* The steps of an export of the rows shown to Parquet, and of any.
ParquetSteps == {"create", "insert", "parquet", "drop", "fetch", "save"}
ExSteps == {"idle", "pick", "write", "copy"} \cup ParquetSteps
ExRec == [step : ExSteps, kind : {"sql", "rows"}, format : E!Formats, handle : BOOLEAN,
          batch : Nat, was : E!Engines, end : {"none", "error"}]

\* As long as nobody switches engines meanwhile, the one at work is the one chosen,
\* except while the rows shown are written to Parquet, which only DuckDB does.
EngineIsMine ==
  /\ ex.step = "idle" => engine = chosen
  /\ ex.step # "idle" =>
       /\ chosen = ex.was
       /\ engine # chosen => ex.kind = "rows" /\ engine = "duckdb" /\ ex.step \in ParquetSteps

\* The progress is shown exactly as long as an export is under way.
EInv ==
  /\ ex \in ExRec /\ engine \in E!Engines
  /\ overlay = (ex.step # "idle")
  /\ ~meddled => EngineIsMine

\* No export is under way at first.
LEMMA EInvInit == E!ExportInit => EInv
<1> SUFFICES ASSUME E!ExportInit PROVE EInv
  OBVIOUS
<1>1. ex \in ExRec /\ ex.step = "idle"
  BY DEF E!ExportInit, ExRec, ExSteps, E!Idle, E!Formats, E!Engines
<1>2. overlay = (ex.step # "idle")
  BY <1>1 DEF E!ExportInit
<1> QED BY <1>1, <1>2 DEF E!ExportInit, EInv, EngineIsMine

\* An export that ends, in the engine the queries went to before.
LEMMA FinishKeeps ==
  ASSUME EInv, NEW status, E!Finish(status),
         engine' \in E!Engines, meddled' = meddled, chosen' = chosen,
         ~meddled => engine' = chosen
  PROVE  EInv'
BY DEF EInv, EngineIsMine, ExRec, ExSteps, ParquetSteps, E!Finish, E!Idle, E!Formats, E!Engines

\* The end of a Parquet export.
LEMMA LeaveKeeps ==
  ASSUME EInv, ex.step # "idle", NEW status, E!LeaveParquet(status),
         meddled' = meddled, chosen' = chosen
  PROVE  EInv'
<1>1. engine' \in E!Engines /\ (~meddled => engine' = chosen)
  BY DEF E!LeaveParquet, E!Restore, EInv, EngineIsMine, ExRec, E!Engines
<1> QED BY <1>1, FinishKeeps DEF E!LeaveParquet

\* From one step of a Parquet export to another.
LEMMA GoesOn ==
  ASSUME EInv, ex' \in ExRec, ex.step # "idle", ex'.step # "idle",
         ex'.kind = ex.kind, ex'.was = ex.was,
         ex.step \in ParquetSteps => ex'.step \in ParquetSteps,
         overlay' = overlay, engine' = engine, meddled' = meddled, chosen' = chosen
  PROVE  EInv'
BY DEF EInv, EngineIsMine

\* From one step of an export to the next, whose record changes in nothing else.
LEMMA StepTo ==
  ASSUME EInv, NEW step \in ExSteps, E!GoTo(step), ex.step # "idle", step # "idle",
         ex.step \in ParquetSteps => step \in ParquetSteps,
         engine' = engine, meddled' = meddled, chosen' = chosen
  PROVE  EInv'
<1>1. ex' \in ExRec /\ ex'.step = step /\ ex'.kind = ex.kind /\ ex'.was = ex.was
  BY DEF E!GoTo, EInv, ExRec
<1> QED BY <1>1, GoesOn DEF E!GoTo

\* No step of an export, and none of the user beside it, breaks the invariant.
LEMMA EInvStep == EInv /\ [E!ExportNext]_exportVars => EInv'
<1> SUFFICES ASSUME EInv, [E!ExportNext]_exportVars PROVE EInv'
  OBVIOUS
<1>0. ex \in ExRec
  BY DEF EInv
<1>1. ASSUME NEW kind \in {"sql", "rows"}, NEW format \in E!Formats, E!HandleExport(kind, format)
      PROVE EInv'
  <2>1. ex' \in ExRec /\ ex'.step \in {"pick", "write"} /\ ex'.was = engine
    BY <1>1 DEF E!HandleExport, EInv, ExRec, ExSteps, ParquetSteps, E!Idle
  <2> QED BY <1>1, <2>1 DEF E!HandleExport, EInv, EngineIsMine
<1>2. ASSUME NEW handle \in BOOLEAN, E!ShowExportFilePicker(handle) PROVE EInv'
  <2> USE <1>2 DEF E!ShowExportFilePicker
  <2>1. CASE ex.kind = "sql"
    <3>1. ex' \in ExRec /\ ex'.step = "copy" /\ ex'.kind = ex.kind /\ ex'.was = ex.was
      BY <2>1, <1>0 DEF ExRec, ExSteps
    <3> QED BY <2>1, <3>1, GoesOn DEF ParquetSteps
  <2>2. CASE ex.kind # "sql"
    <3>1. ~meddled => engine = chosen /\ chosen = ex.was
      BY DEF EInv, EngineIsMine, ParquetSteps
    <3>2. CASE \E status : E!Finish(status) /\ engine' = engine
      BY <3>1, <3>2, FinishKeeps DEF EInv
    <3>3. CASE E!GoTo("create") /\ engine' = (IF ex.was # "duckdb" THEN "duckdb" ELSE engine) /\ engine' = "duckdb"
      <4>1. ex' \in ExRec /\ ex'.step = "create" /\ ex'.kind = "rows" /\ ex'.was = ex.was
        BY <2>2, <3>3, <1>0 DEF E!GoTo, ExRec, ExSteps, ParquetSteps
      <4> QED BY <4>1, <3>1, <3>3 DEF EInv, EngineIsMine, ParquetSteps, E!GoTo, E!Engines
    <3> QED BY <2>2, <3>2, <3>3
  <2> QED BY <2>1, <2>2
<1>3. CASE E!Copied
  <2>1. E!GoOn("fetch") /\ ex.step = "copy" /\ ex.kind = "sql"
    BY <1>3 DEF E!Copied, E!At
  <2>2. CASE aborted
    BY <1>3, <2>1, <2>2, FinishKeeps DEF E!Copied, E!GoOn, EInv, EngineIsMine
  <2>3. CASE ~aborted
    BY <1>3, <2>1, <2>3, StepTo DEF E!Copied, E!GoOn, ExSteps, ParquetSteps
  <2> QED BY <2>2, <2>3
<1>4. CASE E!Fetched
  <2> USE <1>4 DEF E!Fetched
  <2>1. CASE E!GoTo("save")
    BY <2>1, StepTo DEF ExSteps, ParquetSteps
  <2>2. CASE ex.kind # "rows" /\ \E status : E!Finish(status)
    BY <2>2, FinishKeeps DEF EInv, EngineIsMine
  <2> QED BY <2>1, <2>2 DEF E!GoOn
<1>5. CASE E!Saved
  <2>1. CASE ex.kind = "rows"
    BY <1>5, <2>1, LeaveKeeps DEF E!Saved
  <2>2. CASE ex.kind # "rows"
    BY <1>5, <2>2, FinishKeeps DEF E!Saved, EInv, EngineIsMine
  <2> QED BY <2>1, <2>2
<1>6. CASE E!Written
  BY <1>6, FinishKeeps DEF E!Written, E!At, EInv, EngineIsMine, ParquetSteps
<1>7. CASE E!ExportFails
  <2>1. CASE ex.kind = "rows"
    BY <1>7, <2>1, LeaveKeeps DEF E!ExportFails
  <2>2. CASE ex.kind # "rows"
    BY <1>7, <2>2, FinishKeeps DEF E!ExportFails, EInv, EngineIsMine
  <2> QED BY <2>1, <2>2
<1>8. CASE E!CreateTemporaryTable \/ E!InsertBatch \/ E!CopyToParquet
  <2>1. \E step \in ParquetSteps, batch \in Nat : \E t1, f1 :
          E!Inserting(step, batch, t1, f1) /\ ex.step \in ParquetSteps
    <3>1. ex.batch \in Nat /\ ex.batch + 1 \in Nat
      BY <1>0 DEF ExRec
    <3> QED BY <1>8, <3>1 DEF E!CreateTemporaryTable, E!InsertBatch, E!CopyToParquet, ParquetSteps
  <2>3. PICK step \in ParquetSteps, batch \in Nat :
          \E t1, f1 : E!Inserting(step, batch, t1, f1) /\ ex.step \in ParquetSteps
    BY <2>1
  <2>2. ex' \in ExRec /\ ex'.step = step /\ ex'.kind = ex.kind /\ ex'.was = ex.was
    BY <2>3, <1>0 DEF E!Inserting, ExRec, ExSteps
  <2> QED BY <2>3, <2>2, GoesOn DEF E!Inserting, ParquetSteps
<1>9. CASE E!ParquetFails
  <2>1. ex' \in ExRec /\ ex'.step = "drop" /\ ex'.kind = ex.kind /\ ex'.was = ex.was
    BY <1>9, <1>0 DEF E!ParquetFails, ExRec, ExSteps, ParquetSteps
  <2> QED BY <1>9, <2>1, GoesOn DEF E!ParquetFails, ParquetSteps
<1>10. ASSUME NEW dropped \in BOOLEAN, E!DropTable(dropped) PROVE EInv'
  <2> USE <1>10 DEF E!DropTable
  <2>1. CASE \E status : E!LeaveParquet(status)
    BY <2>1, LeaveKeeps
  <2>2. CASE E!GoTo("fetch") /\ engine' = engine
    BY <2>2, StepTo DEF ExSteps, ParquetSteps
  <2> QED BY <2>1, <2>2
<1>11. CASE E!PressEscape \/ E!Dismiss \/ UNCHANGED exportVars
  BY <1>11 DEF E!PressEscape, E!Dismiss, exportVars, EInv, EngineIsMine
<1>12. CASE E!SetActiveConnector
  BY <1>12 DEF E!SetActiveConnector, EInv, EngineIsMine
<1> QED
  BY <1>1, <1>2, <1>3, <1>4, <1>5, <1>6, <1>7, <1>8, <1>9, <1>10, <1>11, <1>12
  DEF E!ExportNext, E!Answer

\* useTableExport.ts: however an export ends, the progress is taken away with it, and
\* the queries go to the engine they went to before, unless the user chose another.
THEOREM NoTraceLeft == MCSpec => []ExportLeavesNoTrace
<1>1. MCInit => EInv
  BY EInvInit DEF MCInit
<1>2. EInv /\ [MCNext]_<<part, vars, gridVars, exportVars>> => EInv'
  <2>1. [MCNext]_<<part, vars, gridVars, exportVars>> => [E!ExportNext]_exportVars
    BY DEF MCNext
  <2> QED BY <2>1, EInvStep
<1>3. EInv => ExportLeavesNoTrace
  BY DEF EInv, EngineIsMine, ExportLeavesNoTrace, E!ExportLeavesNoTrace
<1> QED BY <1>1, <1>2, <1>3, PTL DEF MCSpec

-----------------------------------------------------------------------------
(* The cells. *)

\* Both ends of a pair are of it, and in order.
LEMMA EndsOf ==
  ASSUME NEW a \in Int, NEW b \in Int
  PROVE  /\ G!Min({a, b}) \in {a, b} /\ G!Min({a, b}) <= a /\ G!Min({a, b}) <= b
         /\ G!Max({a, b}) \in {a, b} /\ G!Max({a, b}) >= a /\ G!Max({a, b}) >= b
<1>1. \E x \in {a, b} : \A y \in {a, b} : x >= y
  OBVIOUS
<1>2. \E x \in {a, b} : \A y \in {a, b} : x <= y
  OBVIOUS
<1>3. G!Max({a, b}) \in {a, b} /\ \A y \in {a, b} : G!Max({a, b}) >= y
  BY <1>1, Zenon DEF G!Max
<1>4. G!Min({a, b}) \in {a, b} /\ \A y \in {a, b} : G!Min({a, b}) <= y
  BY <1>2, Zenon DEF G!Min
<1> QED BY <1>3, <1>4

\* A place is a cell of some page, or none.
Spot == Nat \X Nat
Place == Spot \cup {G!NoCell}
Selection == [sel : Place, from : Place, to : Place, viewing : Place]

\* What holds of a selection whatever page it is from, and what holds on its page.
Sound(s) == s \in Selection /\ (s.from # G!NoCell => s.to # G!NoCell)
On(c) == c \in G!Cells \cup {G!NoCell}
AllOn(s) == On(s.sel) /\ On(s.from) /\ On(s.to) /\ On(s.viewing)

\* As long as the page stays, all that is selected is on it.
GInv ==
  /\ page \in Pages /\ turned \in BOOLEAN
  /\ modal \in [cell : Place, cursor : BOOLEAN]
  /\ Sound(g)
  /\ ~turned => AllOn(g) /\ On(modal.cell)

\* A page has a row and a column, and its cells are counted from 0.
LEMMA CellFacts ==
  ASSUME page \in Pages
  PROVE  /\ G!Rows \in Nat /\ G!Rows >= 1 /\ G!Cols \in Nat /\ G!Cols >= 1
         /\ G!Cells \subseteq Spot /\ G!NoCell \notin Spot
         /\ \A c : c \in G!Cells <=> /\ c \in Spot /\ c[1] <= G!Rows - 1 /\ c[2] <= G!Cols - 1
<1>1. G!Rows \in Nat /\ G!Rows >= 1 /\ G!Cols \in Nat /\ G!Cols >= 1
  BY PagesAssumption DEF G!Rows, G!Cols
<1>2. G!NoCell \notin Spot
  BY DEF G!NoCell, Spot
<1> QED BY <1>1, <1>2 DEF G!Cells, Spot

\* A cell of the page is within its last row and its last column.
LEMMA InCells ==
  ASSUME page \in Pages, NEW c \in G!Cells
  PROVE  /\ c \in Spot /\ c[1] \in Nat /\ c[2] \in Nat
         /\ c[1] < G!Rows /\ c[2] < G!Cols
<1>1. G!Rows \in Nat /\ G!Cols \in Nat /\ c \in Spot
  BY CellFacts
<1>2. c[1] \in 0 .. G!Rows - 1 /\ c[2] \in 0 .. G!Cols - 1
  BY DEF G!Cells
<1> QED BY <1>1, <1>2

\* Nothing is selected at first.
LEMMA GInvInit == G!GridInit => GInv
<1> SUFFICES ASSUME G!GridInit PROVE GInv
  OBVIOUS
<1>1. G!NoCell \in Place /\ On(G!NoCell)
  BY DEF Place, On
<1>2. Sound(g) /\ AllOn(g)
  BY <1>1 DEF G!GridInit, Sound, Selection, AllOn
<1>3. modal \in [cell : Place, cursor : BOOLEAN] /\ modal.cell = G!NoCell
  BY <1>1 DEF G!GridInit, G!NoModal
<1> QED BY <1>1, <1>2, <1>3 DEF GInv, G!GridInit

\* A handler that leaves page and modal alone has made a sound selection, and one on
\* the page of one on the page.
LEMMA SamePage ==
  ASSUME GInv, page' = page, modal' = modal, turned' = turned,
         Sound(g'), ~turned => AllOn(g')
  PROVE  GInv'
BY DEF GInv, AllOn, On, Sound, G!Cells, G!Rows, G!Cols

\* A click makes a selection of its own, on the page that is shown.
LEMMA NewSelection ==
  ASSUME GInv, page' = page, modal = G!NoModal, modal' = modal, turned' = FALSE,
         Sound(g'), AllOn(g')
  PROVE  GInv'
BY DEF GInv, AllOn, On, Sound, G!Cells, G!Rows, G!Cols, G!NoModal

\* The outline alone is sound, and on the page where the cell is.
LEMMA OutlineIs ==
  ASSUME page \in Pages, NEW s, Sound(s), NEW c \in Place
  PROVE  /\ Sound(G!Outline(s, c))
         /\ AllOn(s) /\ On(c) => AllOn(G!Outline(s, c))
<1>1. G!NoCell \in Place
  BY DEF Place
<1> QED BY <1>1 DEF Sound, Selection, AllOn, On, G!Outline

\* So is a range, where its ends are cells.
LEMMA BetweenIs ==
  ASSUME page \in Pages, NEW s, Sound(s), NEW a \in Place, NEW b \in Spot
  PROVE  /\ Sound(G!Between(s, a, b))
         /\ AllOn(s) /\ On(a) /\ On(b) => AllOn(G!Between(s, a, b))
<1>1. b \in Place /\ b # G!NoCell
  BY CellFacts DEF Place
<1> QED BY <1>1 DEF Sound, Selection, AllOn, On, G!Between

\* A selection may be given another outline, ...
LEMMA WithSel ==
  ASSUME NEW s, Sound(s), NEW c \in Place
  PROVE  /\ Sound([s EXCEPT !.sel = c])
         /\ AllOn(s) /\ On(c) => AllOn([s EXCEPT !.sel = c])
BY DEF Sound, Selection, AllOn, On

\* ... another text in line, or none, ...
LEMMA WithViewing ==
  ASSUME NEW s, Sound(s), NEW c \in Place
  PROVE  /\ Sound([s EXCEPT !.viewing = c])
         /\ AllOn(s) /\ On(c) => AllOn([s EXCEPT !.viewing = c])
BY DEF Sound, Selection, AllOn, On

\* ... and another end of its range, but not none.
LEMMA WithTo ==
  ASSUME page \in Pages, NEW s, Sound(s), NEW c \in Spot
  PROVE  /\ Sound([s EXCEPT !.to = c])
         /\ AllOn(s) /\ On(c) => AllOn([s EXCEPT !.to = c])
<1>1. c \in Place /\ c # G!NoCell
  BY CellFacts DEF Place
<1> QED BY <1>1 DEF Sound, Selection, AllOn, On

\* The selection that a click makes.
LEMMA OnlyCellIs ==
  ASSUME page \in Pages, NEW c \in Spot
  PROVE  Sound(G!OnlyCell(c)) /\ (On(c) => AllOn(G!OnlyCell(c)))
<1>1. c \in Place /\ c # G!NoCell /\ G!NoCell \in Place
  BY CellFacts DEF Place
<1> QED BY <1>1 DEF Sound, Selection, AllOn, On, G!OnlyCell

\* What a cell of the page is.
LEMMA CellIsOn ==
  ASSUME page \in Pages, NEW c \in G!Cells
  PROVE  c \in Spot /\ c \in Place /\ On(c) /\ On(G!NoCell) /\ G!NoCell \in Place
BY CellFacts DEF On, Place

-----------------------------------------------------------------------------
\* The selection of columns of the page.
LEMMA ColumnsIs ==
  ASSUME page \in Pages, NEW s, Sound(s), NEW a \in Nat, NEW b \in Nat
  PROVE  /\ Sound(G!SelectColumns(s, a, b))
         /\ AllOn(s) /\ a < G!Cols /\ b < G!Cols => AllOn(G!SelectColumns(s, a, b))
<1>1. <<0, a>> \in Place /\ <<G!Rows - 1, b>> \in Spot
  BY CellFacts DEF Place, Spot
<1>2. a < G!Cols /\ b < G!Cols => On(<<0, a>>) /\ On(<<G!Rows - 1, b>>)
  BY CellFacts DEF On, G!Cells
<1> QED BY <1>1, <1>2, BetweenIs DEF G!SelectColumns

\* A click on a column's header.
LEMMA HeaderClick ==
  ASSUME GInv, NEW col \in 0 .. G!Cols - 1, NEW shift \in BOOLEAN,
         G!HandleColumnHeaderClick(col, shift)
  PROVE  GInv'
<1> USE DEF GInv
<1>0. col \in Nat /\ col < G!Cols
  BY CellFacts
<1>1. CASE shift
  <2>1. G!Some(g.sel) /\ g' = G!SelectColumns(g, G!Min({g.sel[2], col}), G!Max({g.sel[2], col}))
    BY <1>1 DEF G!HandleColumnHeaderClick
  <2>2. g.sel \in Spot /\ g.sel[2] \in Nat
    BY <2>1 DEF Sound, Selection, Place, Spot, G!Some
  <2> DEFINE a == G!Min({g.sel[2], col})
             b == G!Max({g.sel[2], col})
  <2>3. a \in {g.sel[2], col} /\ b \in {g.sel[2], col}
    <3> DEFINE x == g.sel[2]
    <3>1. x \in Int /\ col \in Int
      BY <2>2, <1>0
    <3> HIDE DEF x
    <3>2. G!Min({x, col}) \in {x, col} /\ G!Max({x, col}) \in {x, col}
      BY <3>1, EndsOf
    <3> QED BY <3>2 DEF x
  <2>4. a \in Nat /\ b \in Nat
    BY <2>2, <2>3, <1>0
  <2>5. ~turned => a < G!Cols /\ b < G!Cols
    <3> SUFFICES ASSUME ~turned PROVE g.sel[2] < G!Cols
      BY <2>3, <1>0
    <3>1. g.sel \in G!Cells
      BY <2>1 DEF AllOn, On, G!Some
    <3> QED BY <3>1, InCells
  <2> HIDE DEF a, b
  <2>6. Sound(G!SelectColumns(g, a, b)) /\ (~turned => AllOn(G!SelectColumns(g, a, b)))
    BY <2>4, <2>5, ColumnsIs
  <2>7. g' = G!SelectColumns(g, a, b)
    BY <2>1 DEF a, b
  <2> QED BY <2>6, <2>7, SamePage DEF G!HandleColumnHeaderClick
<1>2. CASE ~shift
  <2> DEFINE s == [g EXCEPT !.sel = <<0, col>>]
  <2>1. <<0, col>> \in Place /\ On(<<0, col>>)
    BY <1>0, CellFacts DEF Place, Spot, On, G!Cells
  <2>2. Sound(s) /\ (~turned => AllOn(s))
    BY <2>1, WithSel
  <2>3. g' = G!SelectColumns(s, col, col)
    BY <1>2 DEF G!HandleColumnHeaderClick
  <2> HIDE DEF s
  <2>4. Sound(G!SelectColumns(s, col, col)) /\ (~turned => AllOn(G!SelectColumns(s, col, col)))
    BY <1>0, <2>2, ColumnsIs
  <2> QED BY <2>3, <2>4, SamePage DEF G!HandleColumnHeaderClick
<1> QED BY <1>1, <1>2

\* The selection of rows of the page.
LEMMA RowsIs ==
  ASSUME page \in Pages, NEW s, Sound(s), NEW a \in Nat, NEW b \in Nat
  PROVE  /\ Sound(G!Between(s, <<a, 0>>, <<b, G!Cols - 1>>))
         /\ AllOn(s) /\ a < G!Rows /\ b < G!Rows =>
              AllOn(G!Between(s, <<a, 0>>, <<b, G!Cols - 1>>))
<1>1. <<a, 0>> \in Place /\ <<b, G!Cols - 1>> \in Spot
  BY CellFacts DEF Place, Spot
<1>2. a < G!Rows /\ b < G!Rows => On(<<a, 0>>) /\ On(<<b, G!Cols - 1>>)
  BY CellFacts DEF On, G!Cells
<1> QED BY <1>1, <1>2, BetweenIs

\* A click on a row's number.
LEMMA RowClick ==
  ASSUME GInv, NEW row \in 0 .. G!Rows - 1, NEW shift \in BOOLEAN,
         G!HandleRowNumberClick(row, shift)
  PROVE  GInv'
<1> USE DEF GInv
<1>0. row \in Nat /\ row < G!Rows
  BY CellFacts
<1>1. CASE shift /\ G!Some(g.sel)
  <2> DEFINE a == G!Min({g.sel[1], row})
             b == G!Max({g.sel[1], row})
  <2>1. g' = G!Between(g, <<a, 0>>, <<b, G!Cols - 1>>)
    BY <1>1 DEF G!HandleRowNumberClick
  <2>2. g.sel \in Spot /\ g.sel[1] \in Nat
    BY <1>1 DEF Sound, Selection, Place, Spot, G!Some
  <2>3. a \in {g.sel[1], row} /\ b \in {g.sel[1], row}
    <3> DEFINE x == g.sel[1]
    <3>1. x \in Int /\ row \in Int
      BY <2>2, <1>0
    <3> HIDE DEF x
    <3>2. G!Min({x, row}) \in {x, row} /\ G!Max({x, row}) \in {x, row}
      BY <3>1, EndsOf
    <3> QED BY <3>2 DEF x
  <2>4. a \in Nat /\ b \in Nat
    BY <2>2, <2>3, <1>0
  <2>5. ~turned => a < G!Rows /\ b < G!Rows
    <3> SUFFICES ASSUME ~turned PROVE g.sel[1] < G!Rows
      BY <2>3, <1>0
    <3>1. g.sel \in G!Cells
      BY <1>1 DEF AllOn, On, G!Some
    <3> QED BY <3>1, InCells
  <2> HIDE DEF a, b
  <2>6. /\ Sound(G!Between(g, <<a, 0>>, <<b, G!Cols - 1>>))
        /\ ~turned => AllOn(G!Between(g, <<a, 0>>, <<b, G!Cols - 1>>))
    BY <2>4, <2>5, RowsIs
  <2> QED BY <2>1, <2>6, SamePage DEF G!HandleRowNumberClick
<1>2. CASE ~(shift /\ G!Some(g.sel))
  <2> DEFINE s == [g EXCEPT !.sel = <<row, 0>>]
  <2>1. <<row, 0>> \in Place /\ On(<<row, 0>>)
    BY <1>0, CellFacts DEF Place, Spot, On, G!Cells
  <2>2. Sound(s) /\ (~turned => AllOn(s))
    BY <2>1, WithSel
  <2>3. g' = G!Between(s, <<row, 0>>, <<row, G!Cols - 1>>)
    BY <1>2 DEF G!HandleRowNumberClick
  <2> HIDE DEF s
  <2>4. /\ Sound(G!Between(s, <<row, 0>>, <<row, G!Cols - 1>>))
        /\ ~turned => AllOn(G!Between(s, <<row, 0>>, <<row, G!Cols - 1>>))
    BY <1>0, <2>2, RowsIs
  <2> QED BY <2>3, <2>4, SamePage DEF G!HandleRowNumberClick
<1> QED BY <1>1, <1>2

-----------------------------------------------------------------------------
\* A key that makes a sound selection.
LEMMA TypingKeeps ==
  ASSUME GInv, NEW k, G!Typing(k), Sound(k), ~turned => AllOn(k)
  PROVE  GInv'
BY SamePage DEF G!Typing

\* An arrow in a cell stops at the page's edges.
LEMMA CellArrowIs ==
  ASSUME GInv, focus \in G!Cells, NEW way \in G!Ways, NEW ctrl \in BOOLEAN, NEW shift \in BOOLEAN
  PROVE  /\ Sound(G!CellArrow(way, ctrl, shift))
         /\ ~turned => AllOn(G!CellArrow(way, ctrl, shift))
<1> DEFINE s == [g EXCEPT !.viewing = G!NoCell]
           to == IF ctrl THEN G!Edge(focus, way) ELSE G!Beside(focus, way)
           from == IF G!Some(g.from) THEN g.from ELSE focus
           moved == [s EXCEPT !.sel = to]
<1>0. page \in Pages /\ Sound(g) /\ (~turned => AllOn(g))
  BY DEF GInv
<1>1. G!NoCell \in Place /\ On(G!NoCell)
  BY DEF Place, On
<1>2. Sound(s) /\ (~turned => AllOn(s))
  BY <1>0, <1>1, WithViewing
<1>3. from \in Place /\ (~turned => On(from))
  <2>1. focus \in Place /\ On(focus)
    BY <1>0, CellIsOn
  <2>2. g.from \in Place /\ (~turned => On(g.from))
    BY <1>0 DEF Sound, Selection, AllOn
  <2> QED BY <2>1, <2>2
<1>4. G!CellArrow(way, ctrl, shift) =
        IF to \notin G!Cells THEN s
        ELSE IF shift THEN G!Between(moved, from, to) ELSE G!Outline(s, to)
  BY DEF G!CellArrow
<1> HIDE DEF s, to, from
<1>5. CASE to \notin G!Cells
  BY <1>2, <1>4, <1>5
<1>6. CASE to \in G!Cells
  <2>1. to \in Place /\ to \in Spot /\ On(to)
    BY <1>0, <1>6, CellIsOn
  <2>2. Sound(moved) /\ (~turned => AllOn(moved))
    BY <1>2, <2>1, WithSel
  <2> HIDE DEF moved
  <2>3. Sound(G!Between(moved, from, to)) /\ (~turned => AllOn(G!Between(moved, from, to)))
    BY <1>0, <1>3, <2>1, <2>2, BetweenIs
  <2>4. Sound(G!Outline(s, to)) /\ (~turned => AllOn(G!Outline(s, to)))
    BY <1>0, <1>2, <2>1, OutlineIs
  <2> QED BY <1>4, <1>6, <2>3, <2>4
<1> QED BY <1>5, <1>6

\* So does the arrow of the document, which takes columns.
LEMMA DocumentArrowIs ==
  ASSUME page \in Pages, NEW s, Sound(s), NEW way \in G!Ways, NEW shift \in BOOLEAN
  PROVE  /\ Sound(G!DocumentArrow(s, way, shift))
         /\ AllOn(s) => AllOn(G!DocumentArrow(s, way, shift))
<1> DEFINE end == s.to[2] + G!Steps[way][2]
           cols == {s.from[2], s.to[2]}
           next == IF way = "right" THEN G!Min({G!Max(cols) + 1, G!Cols - 1})
                                    ELSE G!Max({G!Min(cols) - 1, 0})
           d == G!DocumentArrow(s, way, shift)
<1>1. CASE d = s
  BY <1>1
<1>2. CASE d # s /\ shift
  <2>1. d = [s EXCEPT !.to = <<G!Rows - 1, end>>] /\ end \in 0 .. G!Cols - 1
    BY <1>2 DEF G!DocumentArrow
  <2> HIDE DEF end, d
  <2>2. <<G!Rows - 1, end>> \in G!Cells
    BY <2>1, CellFacts DEF G!Cells
  <2>3. <<G!Rows - 1, end>> \in Spot /\ On(<<G!Rows - 1, end>>)
    BY <2>2, CellIsOn
  <2> QED BY <2>1, <2>3, WithTo DEF d
<1>3. CASE d # s /\ ~shift
  <2>1. d = G!Outline(s, <<0, next>>) /\ G!Some(s.from) /\ G!Some(s.to)
    BY <1>3 DEF G!DocumentArrow
  <2>2. s.from \in Spot /\ s.to \in Spot
    BY <2>1 DEF Sound, Selection, Place, G!Some
  <2> DEFINE x == s.from[2]
             y == s.to[2]
  <2>3. x \in Nat /\ y \in Nat
    BY <2>2 DEF Spot
  <2>4. AllOn(s) => x < G!Cols /\ y < G!Cols
    <3> SUFFICES ASSUME AllOn(s) PROVE x < G!Cols /\ y < G!Cols
      OBVIOUS
    <3>1. s.from \in G!Cells /\ s.to \in G!Cells
      BY <2>1 DEF AllOn, On, G!Some
    <3> QED BY <3>1, InCells
  <2> HIDE DEF x, y
  <2> DEFINE lo == G!Min({x, y})
             hi == G!Max({x, y})
  <2>5. lo \in {x, y} /\ hi \in {x, y}
    <3>1. x \in Int /\ y \in Int
      BY <2>3
    <3> QED BY <3>1, EndsOf
  <2>6. next = IF way = "right" THEN G!Min({hi + 1, G!Cols - 1}) ELSE G!Max({lo - 1, 0})
    BY DEF x, y
  <2> HIDE DEF lo, hi, next
  <2>7. lo \in Int /\ hi \in Int /\ lo >= 0 /\ hi >= 0 /\ G!Cols - 1 \in Int /\ G!Cols - 1 >= 0
    BY <2>3, <2>5, CellFacts
  <2> DEFINE m == G!Min({hi + 1, G!Cols - 1})
             n == G!Max({lo - 1, 0})
  <2>8. m \in {hi + 1, G!Cols - 1} /\ m <= G!Cols - 1
    <3>1. hi + 1 \in Int /\ G!Cols - 1 \in Int
      BY <2>7
    <3> QED BY <3>1, EndsOf
  <2>9. n \in {lo - 1, 0} /\ n >= 0
    <3>1. lo - 1 \in Int /\ 0 \in Int
      BY <2>7
    <3> QED BY <3>1, EndsOf
  <2> HIDE DEF m, n
  <2>10. next \in Nat
    BY <2>6, <2>7, <2>8, <2>9 DEF m, n
  <2>11. AllOn(s) => next < G!Cols
    <3> SUFFICES ASSUME AllOn(s) PROVE next < G!Cols
      OBVIOUS
    <3>1. lo < G!Cols /\ G!Cols \in Int
      BY <2>4, <2>5, CellFacts
    <3>2. m < G!Cols
      BY <2>7, <2>8, <3>1
    <3>3. n < G!Cols
      <4>1. lo - 1 < G!Cols /\ 0 < G!Cols
        BY <2>7, <3>1
      <4> QED BY <2>9, <4>1
    <3> QED BY <2>6, <3>2, <3>3 DEF m, n
  <2>12. <<0, next>> \in Place
    BY <2>10 DEF Place, Spot
  <2>13. AllOn(s) => On(<<0, next>>)
    BY <2>10, <2>11, CellFacts DEF On, G!Cells
  <2> QED BY <2>1, <2>12, <2>13, OutlineIs
<1> QED BY <1>1, <1>2, <1>3

\* An arrow, handled by the cell and by the document.
LEMMA ArrowKeeps ==
  ASSUME GInv, NEW way \in G!Ways, NEW ctrl \in BOOLEAN, NEW shift \in BOOLEAN,
         G!PressArrow(way, ctrl, shift)
  PROVE  GInv'
<1> DEFINE s == IF focus \in G!Cells THEN G!CellArrow(way, ctrl, shift) ELSE g
<1>1. Sound(s) /\ (~turned => AllOn(s))
  BY CellArrowIs DEF GInv
<1>2. G!Typing(G!DocumentArrow(s, way, shift))
  BY DEF G!PressArrow
<1> HIDE DEF s
<1>3. /\ Sound(G!DocumentArrow(s, way, shift))
      /\ ~turned => AllOn(G!DocumentArrow(s, way, shift))
  BY <1>1, DocumentArrowIs DEF GInv
<1> QED BY <1>2, <1>3, TypingKeeps

\* Tab goes from cell to cell of the page.
LEMMA TabbedIs ==
  ASSUME page \in Pages, NEW c \in G!Cells, NEW back \in BOOLEAN
  PROVE  G!Tabbed(c, back) \in G!Cells
<1>1. c[1] \in Nat /\ c[2] \in Nat /\ c[1] < G!Rows /\ c[2] < G!Cols /\ c = <<c[1], c[2]>>
  BY InCells DEF G!Cells
<1>2. G!Rows \in Nat /\ G!Cols \in Nat
  BY CellFacts
<1>3. \A x, y \in Nat : x < G!Rows /\ y < G!Cols => <<x, y>> \in G!Cells
  BY <1>2 DEF G!Cells
<1>4. CASE back /\ c[2] > 0
  BY <1>1, <1>3, <1>4, <1>2 DEF G!Tabbed
<1>5. CASE back /\ c[2] <= 0 /\ c[1] > 0
  BY <1>1, <1>3, <1>5, <1>2 DEF G!Tabbed
<1>6. CASE ~back /\ c[2] < G!Cols - 1
  BY <1>1, <1>3, <1>6, <1>2 DEF G!Tabbed
<1>7. CASE ~back /\ c[2] >= G!Cols - 1 /\ c[1] < G!Rows - 1
  BY <1>1, <1>3, <1>7, <1>2 DEF G!Tabbed
<1>8. CASE G!Tabbed(c, back) = c
  BY <1>8
<1> QED BY <1>4, <1>5, <1>6, <1>7, <1>8 DEF G!Tabbed

\* Tab in a cell, ...
LEMMA TabKeeps ==
  ASSUME GInv, NEW back \in BOOLEAN, G!PressTab(back)
  PROVE  GInv'
<1> DEFINE s == [g EXCEPT !.viewing = G!NoCell]
           next == G!Tabbed(focus, back)
<1>0. page \in Pages /\ Sound(g) /\ (~turned => AllOn(g))
  BY DEF GInv
<1>1. G!NoCell \in Place /\ On(G!NoCell)
  BY DEF Place, On
<1>2. Sound(s) /\ (~turned => AllOn(s))
  BY <1>0, <1>1, WithViewing
<1>3. next \in Place /\ On(next)
  BY <1>0, TabbedIs, CellIsOn DEF G!PressTab
<1>4. G!Typing(IF next = focus THEN s ELSE G!Outline(s, next))
  BY DEF G!PressTab
<1> HIDE DEF s, next
<1>5. Sound(G!Outline(s, next)) /\ (~turned => AllOn(G!Outline(s, next)))
  BY <1>0, <1>2, <1>3, OutlineIs
<1> QED BY <1>2, <1>4, <1>5, TypingKeeps

\* ... and in the text viewed in line.
LEMMA InputTabKeeps ==
  ASSUME GInv, NEW back \in BOOLEAN, G!TabInInput(back)
  PROVE  GInv'
<1> DEFINE next == G!Tabbed(g.viewing, back)
<1>1. page \in Pages
  BY DEF GInv
<1>2. next \in Spot /\ On(next)
  BY <1>1, TabbedIs, CellIsOn DEF G!TabInInput
<1>3. G!Typing(G!OnlyCell(next))
  BY DEF G!TabInInput
<1> HIDE DEF next
<1> QED BY <1>1, <1>2, <1>3, OnlyCellIs, TypingKeeps

\* Home and End.
LEMMA HomeKeeps ==
  ASSUME GInv, NEW way \in G!Ways, G!PressHome(way)
  PROVE  GInv'
<1> DEFINE c == IF focus = G!Input THEN g.viewing ELSE focus
<1>0. page \in Pages /\ Sound(g) /\ (~turned => AllOn(g))
  BY DEF GInv
<1>1. c \in G!Cells
  BY <1>0, CellFacts DEF G!PressHome, G!Input, Spot
<1>2. G!Typing(G!Outline(g, G!Edge(c, way))) /\ way \in {"left", "right"}
  BY DEF G!PressHome
<1> HIDE DEF c
<1>3. G!Edge(c, way) \in G!Cells
  BY <1>0, <1>1, <1>2, InCells, CellFacts DEF G!Edge, G!Cells
<1>4. G!Edge(c, way) \in Place /\ On(G!Edge(c, way))
  BY <1>0, <1>3, CellIsOn
<1> QED BY <1>0, <1>2, <1>4, OutlineIs, TypingKeeps

\* PageUp and PageDown stop at the page's first and last row, from whatever cell.
LEMMA PageFromIs ==
  ASSUME page \in Pages, NEW c \in Spot, NEW down \in BOOLEAN
  PROVE  G!PageFrom(c, down) \in Spot /\ (On(c) => On(G!PageFrom(c, down)))
<1> DEFINE x == c[1] + PageRows
           y == c[1] - PageRows
           r == G!Rows - 1
           lower == G!Min({r, x})
           upper == G!Max({0, y})
<1>1. c[1] \in Nat /\ c[2] \in Nat
  BY DEF Spot
<1>2. x \in Int /\ x >= c[1] /\ y \in Int /\ y <= c[1] /\ r \in Int /\ r >= 0
  BY <1>1, PagesAssumption, CellFacts
<1> HIDE DEF x, y, r
<1>3. lower \in {r, x} /\ lower <= r /\ upper \in {0, y} /\ upper >= 0
  <2>1. lower \in {r, x} /\ lower <= r
    BY <1>2, EndsOf
  <2>2. 0 \in Int /\ y \in Int
    BY <1>2
  <2>3. upper \in {0, y} /\ upper >= 0
    BY <2>2, EndsOf
  <2> QED BY <2>1, <2>3
<1>4. G!PageFrom(c, down) = <<IF down THEN lower ELSE upper, c[2]>>
  BY DEF G!PageFrom, x, y, r
<1> HIDE DEF lower, upper
<1>5. lower \in Nat /\ upper \in Nat
  BY <1>1, <1>2, <1>3
<1>6. G!PageFrom(c, down) \in Spot
  BY <1>1, <1>4, <1>5 DEF Spot
<1>7. ASSUME On(c) PROVE On(G!PageFrom(c, down))
  <2>1. c \in G!Cells
    BY <1>7, CellFacts DEF On
  <2>2. c[1] <= r /\ c[2] < G!Cols
    BY <2>1, InCells, CellFacts DEF r
  <2>3. lower <= r /\ upper <= r
    BY <1>1, <1>2, <1>3, <2>2
  <2> QED BY <1>1, <1>4, <1>5, <2>2, <2>3, CellFacts DEF On, G!Cells, r
<1> QED BY <1>6, <1>7

\* They may be handled twice.
LEMMA PageKeyKeeps ==
  ASSUME GInv, NEW down \in BOOLEAN, G!PressPage(down)
  PROVE  GInv'
<1> DEFINE start == IF G!Some(g.sel) THEN g.sel ELSE IF focus = G!Input THEN g.viewing ELSE focus
           once == G!PageFrom(start, down)
           twice == G!PageFrom(once, down)
           to == IF focus \notin {G!Container, G!Body} /\ G!Some(g.sel) THEN twice ELSE once
<1>0. page \in Pages /\ Sound(g) /\ (~turned => AllOn(g))
  BY DEF GInv
<1>1. G!Typing(G!Outline(g, to)) /\ (start \in G!Cells \/ G!Some(g.sel))
  BY DEF G!PressPage
<1>2. start \in Spot /\ (~turned => On(start))
  <2>1. CASE G!Some(g.sel)
    BY <1>0, <2>1 DEF Sound, Selection, Place, G!Some, AllOn
  <2>2. CASE start \in G!Cells
    <3> HIDE DEF start
    <3> QED BY <1>0, <2>2, CellIsOn
  <2> QED BY <1>1, <2>1, <2>2
<1> HIDE DEF start
<1>3. once \in Spot /\ (~turned => On(once))
  BY <1>0, <1>2, PageFromIs
<1> HIDE DEF once
<1>4. twice \in Spot /\ (~turned => On(twice))
  BY <1>0, <1>3, PageFromIs
<1> HIDE DEF twice
<1>5. to \in Place /\ (~turned => On(to))
  BY <1>3, <1>4 DEF Place
<1> HIDE DEF to
<1> QED BY <1>0, <1>1, <1>5, OutlineIs, TypingKeeps

\* All cells, with the first as the outline where there was none.
LEMMA SelectAllKeeps ==
  ASSUME GInv, G!SelectAll
  PROVE  GInv'
<1> DEFINE s == IF G!Some(g.sel) THEN g ELSE [g EXCEPT !.sel = <<0, 0>>]
<1>0. page \in Pages /\ Sound(g) /\ (~turned => AllOn(g))
  BY DEF GInv
<1>1. <<0, 0>> \in G!Cells /\ G!Last \in G!Cells
  BY <1>0, CellFacts DEF G!Cells, G!Last
<1>2. /\ <<0, 0>> \in Place /\ On(<<0, 0>>) /\ G!Last \in Spot /\ On(G!Last)
  BY <1>0, <1>1, CellIsOn
<1>3. Sound(s) /\ (~turned => AllOn(s))
  BY <1>0, <1>2, WithSel
<1>4. G!Typing(G!Between(s, <<0, 0>>, G!Last))
  BY DEF G!SelectAll
<1> HIDE DEF s
<1>5. Sound(G!Between(s, <<0, 0>>, G!Last)) /\ (~turned => AllOn(G!Between(s, <<0, 0>>, G!Last)))
  BY <1>0, <1>2, <1>3, BetweenIs
<1> QED BY <1>4, <1>5, TypingKeeps

-----------------------------------------------------------------------------
\* An arrow in the modal takes the outline along.
LEMMA ModalKeeps ==
  ASSUME GInv, NEW way \in G!Ways, G!HandleNavigate(way)
  PROVE  GInv'
<1> DEFINE c == G!Beside(modal.cell, way)
<1>0. page \in Pages /\ Sound(g) /\ (~turned => AllOn(g))
  BY DEF GInv
<1>1. c \in G!Cells /\ g' = G!Outline(g, c) /\ modal' = [cell |-> c, cursor |-> FALSE]
  BY DEF G!HandleNavigate, G!HandleModalCellChange
<1> HIDE DEF c
<1>2. c \in Place /\ On(c)
  BY <1>0, <1>1, CellIsOn
<1>3. Sound(g') /\ (~turned => AllOn(g'))
  BY <1>0, <1>1, <1>2, OutlineIs
<1>4. modal' \in [cell : Place, cursor : BOOLEAN] /\ modal'.cell = c
  BY <1>1, <1>2
<1>5. page' = page /\ turned' = turned
  BY DEF G!HandleNavigate
<1> QED BY <1>2, <1>3, <1>4, <1>5 DEF GInv, AllOn, On, G!Cells, G!Rows, G!Cols

\* Another page: only where nothing is selected may it count as one that stays.
LEMMA NewPageKeeps ==
  ASSUME GInv, G!NewPage
  PROVE  GInv'
<1>0. page' \in Pages /\ modal' = modal /\ turned' \in BOOLEAN
  BY DEF G!NewPage, GInv
<1>1. g' = g \/ g' = [g EXCEPT !.viewing = G!NoCell]
  BY DEF G!NewPage
<1>2. G!NoCell \in Place
  BY DEF Place
<1>3. Sound(g')
  BY <1>1, <1>2, WithViewing DEF GInv
<1>4. ASSUME ~turned'
      PROVE  /\ g'.sel = G!NoCell /\ g'.from = G!NoCell /\ g'.to = G!NoCell
             /\ g'.viewing = G!NoCell /\ modal'.cell = G!NoCell
  <2>1. {g.sel, g.to, g.viewing, modal.cell} = {G!NoCell}
    BY <1>4 DEF G!NewPage
  <2>2. g.sel = G!NoCell /\ g.to = G!NoCell /\ g.viewing = G!NoCell /\ modal.cell = G!NoCell
    BY <2>1
  <2>3. g.from = G!NoCell /\ g \in Selection
    BY <2>2 DEF GInv, Sound
  <2> QED BY <1>0, <1>1, <2>2, <2>3 DEF Selection
<1> QED BY <1>0, <1>3, <1>4 DEF GInv, AllOn, On

\* A click beside the cells: what was of another page is gone, unless it is viewed.
LEMMA ClearKeeps ==
  ASSUME GInv, G!ClearSelection
  PROVE  GInv'
<1>0. page \in Pages /\ Sound(g) /\ (~turned => AllOn(g) /\ On(modal.cell))
  BY DEF GInv
<1>1. /\ page' = page /\ modal' = modal /\ g' = G!Outline(g, G!NoCell)
      /\ turned' = (turned /\ (G!Some(g.viewing) \/ G!Some(modal.cell)))
  BY DEF G!ClearSelection
<1>2. G!NoCell \in Place /\ On(G!NoCell)
  BY DEF Place, On
<1>3. Sound(g') /\ (~turned => AllOn(g'))
  BY <1>0, <1>1, <1>2, OutlineIs
<1>4. ASSUME ~turned' PROVE AllOn(g') /\ On(modal.cell)
  <2>1. CASE ~turned
    BY <1>0, <1>3, <2>1
  <2>2. CASE turned
    <3>1. g.viewing = G!NoCell /\ modal.cell = G!NoCell
      BY <1>1, <1>4, <2>2 DEF G!Some
    <3>2. /\ g'.sel = G!NoCell /\ g'.from = G!NoCell /\ g'.to = G!NoCell
          /\ g'.viewing = G!NoCell
      BY <1>0, <1>1, <3>1 DEF G!Outline, Sound, Selection
    <3> QED BY <3>1, <3>2, <1>2 DEF AllOn
  <2> QED BY <2>1, <2>2 DEF GInv
<1> QED BY <1>1, <1>3, <1>4 DEF GInv, AllOn, On, G!Cells, G!Rows, G!Cols

\* The mouse on a cell.
LEMMA MouseKeeps ==
  ASSUME GInv, NEW c \in G!Cells,
         \/ G!HandleCellMouseDown(c) \/ G!ExtendByMouse(c)
         \/ G!HandleCellDoubleClick(c) \/ G!HandleCellMouseMove(c)
  PROVE  GInv'
<1>0. page \in Pages /\ Sound(g) /\ (~turned => AllOn(g))
  BY DEF GInv
<1>1. c \in Spot /\ c \in Place /\ On(c) /\ On(G!NoCell) /\ G!NoCell \in Place
  BY <1>0, CellIsOn
<1>2. Sound(G!OnlyCell(c)) /\ AllOn(G!OnlyCell(c))
  BY <1>0, <1>1, OnlyCellIs
<1>3. CASE G!HandleCellMouseDown(c)
  BY <1>2, <1>3, NewSelection DEF G!HandleCellMouseDown
<1>4. CASE G!HandleCellDoubleClick(c)
  <2>1. Sound([G!OnlyCell(c) EXCEPT !.viewing = c]) /\ AllOn([G!OnlyCell(c) EXCEPT !.viewing = c])
    BY <1>1, <1>2, WithViewing
  <2> QED BY <1>4, <2>1, NewSelection DEF G!HandleCellDoubleClick
<1>5. CASE G!ExtendByMouse(c)
  <2> DEFINE s == [g EXCEPT !.viewing = G!NoCell]
             from == IF G!Some(g.from) THEN g.from ELSE g.sel
  <2>1. Sound(s) /\ (~turned => AllOn(s))
    BY <1>0, <1>1, WithViewing
  <2>2. from \in Place /\ (~turned => On(from))
    BY <1>0 DEF Sound, Selection, AllOn
  <2>3. g' = G!Between(s, from, c) /\ page' = page /\ modal' = modal /\ turned' = turned
    BY <1>5 DEF G!ExtendByMouse
  <2> HIDE DEF s, from
  <2>4. Sound(G!Between(s, from, c)) /\ (~turned => AllOn(G!Between(s, from, c)))
    BY <1>0, <1>1, <2>1, <2>2, BetweenIs
  <2> QED BY <2>3, <2>4, SamePage
<1>6. CASE G!HandleCellMouseMove(c)
  <2>1. Sound([g EXCEPT !.to = c]) /\ (~turned => AllOn([g EXCEPT !.to = c]))
    BY <1>0, <1>1, WithTo
  <2> QED BY <1>6, <2>1, SamePage DEF G!HandleCellMouseMove
<1> QED BY <1>3, <1>4, <1>5, <1>6

\* No key, no click and no new page breaks the invariant.
LEMMA GInvStep == GInv /\ [G!GridNext]_gridVars => GInv'
<1> SUFFICES ASSUME GInv, [G!GridNext]_gridVars PROVE GInv'
  OBVIOUS
<1>0. page \in Pages /\ Sound(g) /\ (~turned => AllOn(g)) /\ modal \in [cell : Place, cursor : BOOLEAN]
  BY DEF GInv
<1>1. G!NoCell \in Place /\ On(G!NoCell)
  BY DEF Place, On
<1>2. Sound([g EXCEPT !.viewing = G!NoCell]) /\ (~turned => AllOn([g EXCEPT !.viewing = G!NoCell]))
  BY <1>0, <1>1, WithViewing
<1>3. CASE \E c \in G!Cells : \/ G!HandleCellMouseDown(c) \/ G!ExtendByMouse(c)
                              \/ G!HandleCellDoubleClick(c) \/ G!HandleCellMouseMove(c)
  BY <1>3, MouseKeeps
<1>4. CASE G!HandleMouseUp \/ G!ClickInput \/ G!Refocus \/ UNCHANGED gridVars
  <2>1. g' = g /\ page' = page /\ modal' = modal /\ turned' = turned
    BY <1>4 DEF G!HandleMouseUp, G!ClickInput, G!Refocus, gridVars
  <2> QED BY <1>0, <2>1, SamePage
<1>5. CASE G!LeaveInput \/ G!LoseFocus
  <2>1. /\ g' = g \/ g' = [g EXCEPT !.viewing = G!NoCell]
        /\ page' = page /\ modal' = modal /\ turned' = turned
    BY <1>5 DEF G!LeaveInput, G!LoseFocus
  <2> QED BY <1>0, <1>2, <2>1, SamePage
<1>6. CASE G!EnterCursor \/ G!EscapeModal
  <2>1. g' = g /\ page' = page /\ turned' = turned
    BY <1>6 DEF G!EnterCursor, G!EscapeModal
  <2>2. modal' \in [cell : Place, cursor : BOOLEAN] /\ modal'.cell \in {modal.cell, G!NoCell}
    <3>1. modal' = [modal EXCEPT !.cursor = TRUE] \/ modal' = [modal EXCEPT !.cursor = FALSE] \/ modal' = G!NoModal
      BY <1>6 DEF G!EnterCursor, G!EscapeModal
    <3>2. G!NoModal \in [cell : Place, cursor : BOOLEAN] /\ G!NoModal.cell = G!NoCell
      BY <1>1 DEF G!NoModal
    <3> QED BY <1>0, <3>1, <3>2
  <2> QED BY <2>1, <2>2 DEF GInv, AllOn, On, G!Cells, G!Rows, G!Cols
<1>7. ASSUME NEW shift \in BOOLEAN, G!PressEnter(shift) PROVE GInv'
  <2> DEFINE v == IF shift THEN focus ELSE G!NoCell
  <2>1. /\ focus \in G!Cells /\ g' = [g EXCEPT !.viewing = v] /\ page' = page /\ turned' = turned
        /\ modal' = IF shift THEN G!NoModal ELSE [cell |-> focus, cursor |-> FALSE]
    BY <1>7 DEF G!PressEnter
  <2>2. focus \in Place /\ On(focus)
    BY <1>0, <2>1, CellIsOn
  <2>3. v \in Place /\ On(v)
    BY <1>1, <2>2
  <2> HIDE DEF v
  <2>4. Sound(g') /\ (~turned => AllOn(g'))
    BY <1>0, <2>1, <2>3, WithViewing
  <2>5. modal' \in [cell : Place, cursor : BOOLEAN] /\ On(modal'.cell)
    BY <1>1, <2>1, <2>2 DEF G!NoModal
  <2> QED BY <2>1, <2>4, <2>5 DEF GInv, AllOn, On, G!Cells, G!Rows, G!Cols
<1> QED
  BY <1>3, <1>4, <1>5, <1>6, <1>7, ClearKeeps, HeaderClick, RowClick, ArrowKeeps, TabKeeps,
     InputTabKeeps, HomeKeeps, PageKeyKeeps, SelectAllKeeps, ModalKeeps, NewPageKeeps
  DEF G!GridNext

-----------------------------------------------------------------------------
(* What is copied. *)

\* The grid's Cardinality is everybody's.
LEMMA SameCount == ASSUME NEW S PROVE G!Cardinality(S) = Cardinality(S)
BY DEF G!Cardinality, Cardinality

\* What is below the first line of a text.
LEMMA BelowHead ==
  ASSUME NEW T, NEW h \in T, NEW L \in Seq(T)
  PROVE  /\ SubSeq(<<h>> \o L, 2, Len(<<h>> \o L)) = L
         /\ (<<h>> \o L)[1] = h
         /\ << >> \o L = L
<1> DEFINE all == <<h>> \o L
<1>1. all \in Seq(T) /\ Len(all) = Len(L) + 1 /\ Len(L) \in Nat
  OBVIOUS
<1>2. \A i \in 1 .. Len(L) : all[i + 1] = L[i]
  OBVIOUS
<1>3. all[1] = h /\ << >> \o L = L
  OBVIOUS
<1> DEFINE u == SubSeq(all, 2, Len(all))
<1> HIDE DEF all
<1>4. u \in Seq(T) /\ Len(u) = Len(L) /\ \A i \in 1 .. Len(L) : u[i] = all[i + 1]
  BY <1>1
<1> HIDE DEF u
<1>5. u = L
  <2>1. \A i \in 1 .. Len(u) : u[i] = L[i]
    BY <1>2, <1>4
  <2> QED BY <1>4, <2>1, SeqEqual
<1> QED BY <1>3, <1>5 DEF all, u

\* The rows, or the columns, of a range that are on a page of n.
Strip(a, b, n) == (a .. b) \cap (0 .. n - 1)

\* The n numbers from x on.
From(x, n) == {x + k - 1 : k \in 1 .. n}

\* The rows, or columns, of a range on the page are numbers that follow each other.
LEMMA StripIs ==
  ASSUME NEW a \in Nat, NEW b \in Nat, NEW n \in Nat
  PROVE  /\ IsFiniteSet(Strip(a, b, n)) /\ Cardinality(Strip(a, b, n)) \in Nat
         /\ Cardinality(Strip(a, b, n)) # 0 => G!Min(Strip(a, b, n)) \in Int
         /\ Strip(a, b, n) = From(G!Min(Strip(a, b, n)), Cardinality(Strip(a, b, n)))
<1> DEFINE top == IF b <= n - 1 THEN b ELSE n - 1
<1>1. top \in Int /\ Strip(a, b, n) = a .. top
  BY DEF Strip
<1> HIDE DEF top
<1>2. /\ IsFiniteSet(a .. top)
      /\ Cardinality(a .. top) = IF a > top THEN 0 ELSE top - a + 1
  BY <1>1, FS_Interval
<1>3. CASE a > top
  <2>1. Cardinality(a .. top) = 0 /\ a .. top = {}
    BY <1>1, <1>2, <1>3
  <2> QED BY <1>1, <1>2, <2>1 DEF From
<1>4. CASE a <= top
  <2> DEFINE least == G!Min(a .. top)
  <2>1. \E x \in a .. top : \A y \in a .. top : x <= y
    BY <1>1, <1>4
  <2>2. least \in a .. top /\ \A y \in a .. top : least <= y
    BY <2>1, Zenon DEF G!Min
  <2> HIDE DEF least
  <2>3. least = a
    BY <1>1, <1>4, <2>2
  <2>4. Cardinality(a .. top) = top - a + 1 /\ top - a + 1 \in Nat
    BY <1>1, <1>2, <1>4
  <2>5. a .. top = From(a, top - a + 1)
    <3>1. \A x \in a .. top : x - a + 1 \in 1 .. top - a + 1 /\ x = a + (x - a + 1) - 1
      BY <1>1
    <3>2. \A j \in 1 .. top - a + 1 : a + j - 1 \in a .. top
      BY <1>1
    <3> QED BY <3>1, <3>2 DEF From
  <2>6. G!Min(Strip(a, b, n)) = a /\ Cardinality(Strip(a, b, n)) = top - a + 1
    BY <1>1, <2>3, <2>4 DEF least
  <2>7. IsFiniteSet(Strip(a, b, n)) /\ Strip(a, b, n) = From(a, top - a + 1)
    BY <1>1, <1>2, <2>5
  <2>8. a \in Int /\ top - a + 1 \in Nat
    BY <2>4
  <2> QED BY <2>6, <2>7, <2>8
<1> QED BY <1>1, <1>3, <1>4

\* The cells that stand on the lines of a block.
Block(r, c, m, n) == [k \in 1 .. m |-> [j \in 1 .. n |-> <<r + k - 1, c + j - 1>>]]
PlacesOf(body) == UNION {{k} \X DOMAIN body[k] : k \in DOMAIN body}
CellsOf(body) == {body[p[1]][p[2]] : p \in PlacesOf(body)}

\* A block of m lines of n cells has m times n places.
LEMMA BlockIs ==
  ASSUME NEW r, NEW c, NEW m \in Nat, NEW n \in Nat
  PROVE  PlacesOf(Block(r, c, m, n)) = (1 .. m) \X (1 .. n)
BY DEF Block, PlacesOf

\* The numbers from 1 to n are n.
LEMMA CountTo ==
  ASSUME NEW n \in Nat
  PROVE  IsFiniteSet(1 .. n) /\ Cardinality(1 .. n) = n
BY FS_Interval

\* As many places as there are cells in rows and columns of those numbers.
LEMMA SameArea ==
  ASSUME NEW R, NEW C, IsFiniteSet(R), IsFiniteSet(C),
         Cardinality(R) \in Nat, Cardinality(C) \in Nat
  PROVE  Cardinality((1 .. Cardinality(R)) \X (1 .. Cardinality(C))) = Cardinality(R \X C)
<1> DEFINE m == Cardinality(R)
           n == Cardinality(C)
           S == 1 .. m
           T == 1 .. n
<1>0. m \in Nat /\ n \in Nat
  OBVIOUS
<1>1. Cardinality(R \X C) = m * n
  BY FS_Product
<1> HIDE DEF m, n
<1>2. IsFiniteSet(S) /\ Cardinality(S) = m
  BY <1>0, CountTo
<1>3. IsFiniteSet(T) /\ Cardinality(T) = n
  BY <1>0, CountTo
<1> HIDE DEF S, T
<1>4. Cardinality(S \X T) = Cardinality(S) * Cardinality(T)
  BY <1>2, <1>3, FS_Product
<1> QED BY <1>1, <1>2, <1>3, <1>4 DEF S, T, m, n

\* What a block shows: the cells of its rows and columns.
LEMMA BlockCells ==
  ASSUME NEW r, NEW c, NEW m \in Nat, NEW n \in Nat
  PROVE  CellsOf(Block(r, c, m, n)) = From(r, m) \X From(c, n)
<1> DEFINE B == Block(r, c, m, n)
<1>1. PlacesOf(B) = (1 .. m) \X (1 .. n)
  BY BlockIs
<1>2. \A k \in 1 .. m, j \in 1 .. n : B[k][j] = <<r + k - 1, c + j - 1>>
  BY DEF Block
<1> HIDE DEF B
<1>3. ASSUME NEW p \in (1 .. m) \X (1 .. n) PROVE B[p[1]][p[2]] \in From(r, m) \X From(c, n)
  <2>1. p[1] \in 1 .. m /\ p[2] \in 1 .. n
    OBVIOUS
  <2> QED BY <2>1, <1>2 DEF From
<1>4. ASSUME NEW x \in From(r, m) \X From(c, n)
      PROVE  \E p \in (1 .. m) \X (1 .. n) : x = B[p[1]][p[2]]
  <2>1. PICK k \in 1 .. m, j \in 1 .. n : x = <<r + k - 1, c + j - 1>>
    BY DEF From
  <2>2. <<k, j>> \in (1 .. m) \X (1 .. n) /\ x = B[<<k, j>>[1]][<<k, j>>[2]]
    BY <2>1, <1>2
  <2> QED BY <2>2
<1>5. CellsOf(B) \subseteq From(r, m) \X From(c, n)
  BY <1>1, <1>3 DEF CellsOf
<1>6. From(r, m) \X From(c, n) \subseteq CellsOf(B)
  BY <1>1, <1>4 DEF CellsOf
<1> QED BY <1>5, <1>6 DEF B

\* What CopiedAsPainted says of a text.
Right(text, body, wanted, count) ==
  LET places == PlacesOf(body)
  IN  /\ CellsOf(body) = wanted
      /\ Cardinality(places) = Cardinality(wanted)
      /\ \A p \in places :
           /\ body[p[1]][p[2]][2] = text[1][p[2]][2]
           /\ p[1] > 1 => body[p[1]][p[2]][1] = body[p[1] - 1][p[2]][1] + 1
      /\ count

\* The lines below the names, and names that stand above the columns from c on.
Below(shift, text) == IF shift THEN SubSeq(text, 2, Len(text)) ELSE text
Headed(text, c, m, n) == m # 0 => \A j \in 1 .. n : text[1][j][2] = c + j - 1

\* Nothing is the right text for no cell, ...
LEMMA NothingIsRight ==
  ASSUME NEW text, NEW body, body = << >>, NEW count, count
  PROVE  Right(text, body, {}, count)
<1>1. PlacesOf(body) = {}
  BY DEF PlacesOf
<1> QED BY <1>1 DEF Right, CellsOf

\* ... a line of one cell for one, ...
LEMMA OneIsRight ==
  ASSUME NEW text, NEW body, NEW x, NEW y, body = <<<<<<x, y>>>>>>,
         text[1][1][2] = y, NEW count, count
  PROVE  Right(text, body, {<<x, y>>}, count)
<1>1. DOMAIN body = {1} /\ DOMAIN body[1] = {1} /\ body[1][1] = <<x, y>>
  OBVIOUS
<1>2. PlacesOf(body) = {<<1, 1>>}
  BY <1>1 DEF PlacesOf
<1>3. Cardinality({<<1, 1>>}) = 1 /\ Cardinality({<<x, y>>}) = 1
  BY FS_Singleton
<1>4. \A p \in {<<1, 1>>} : p[1] = 1 /\ p[2] = 1
  OBVIOUS
<1>5. {body[p[1]][p[2]] : p \in {<<1, 1>>}} = {<<x, y>>}
  BY <1>1, <1>4
<1> QED BY <1>1, <1>2, <1>3, <1>4, <1>5 DEF Right, CellsOf

\* ... and a block for a range, whatever stands above it names its columns.
LEMMA BlockIsRight ==
  ASSUME NEW r, NEW c, NEW m \in Nat, NEW n \in Nat, NEW text, NEW wanted, NEW count,
         m # 0 => r \in Int, n # 0 => c \in Int,
         wanted = From(r, m) \X From(c, n),
         Cardinality(wanted) = Cardinality((1 .. m) \X (1 .. n)),
         Headed(text, c, m, n), count
  PROVE  Right(text, Block(r, c, m, n), wanted, count)
<1> USE DEF Headed
<1> DEFINE B == Block(r, c, m, n)
<1>1. PlacesOf(B) = (1 .. m) \X (1 .. n)
  BY BlockIs
<1>2. CellsOf(B) = wanted
  BY BlockCells
<1>3. \A k \in 1 .. m, j \in 1 .. n : B[k][j] = <<r + k - 1, c + j - 1>>
  BY DEF Block
<1> HIDE DEF B
<1>4. ASSUME NEW p \in PlacesOf(B)
      PROVE  /\ B[p[1]][p[2]][2] = text[1][p[2]][2]
             /\ p[1] > 1 => B[p[1]][p[2]][1] = B[p[1] - 1][p[2]][1] + 1
  <2>1. p[1] \in 1 .. m /\ p[2] \in 1 .. n
    BY <1>1
  <2> DEFINE k == p[1]
             j == p[2]
  <2>2. k \in 1 .. m /\ j \in 1 .. n /\ r \in Int /\ c \in Int
    BY <2>1
  <2> HIDE DEF k, j
  <2>3. B[k][j] = <<r + k - 1, c + j - 1>>
    BY <1>3, <2>2
  <2>4. B[k][j][2] = text[1][j][2]
    BY <2>2, <2>3
  <2>5. ASSUME k > 1 PROVE B[k][j][1] = B[k - 1][j][1] + 1
    <3>1. k - 1 \in 1 .. m
      BY <2>2, <2>5
    <3>2. B[k - 1][j] = <<r + (k - 1) - 1, c + j - 1>>
      BY <1>3, <2>2, <3>1
    <3> QED BY <2>2, <2>3, <3>2
  <2> QED BY <2>4, <2>5 DEF k, j
<1> QED BY <1>1, <1>2, <1>4 DEF Right, B

\* The range, on whatever page: its rows and columns there.
LEMMA RangeIs ==
  ASSUME page \in Pages, Sound(g), G!Some(g.from), G!Some(g.to), NEW i \in {1, 2}
  PROVE  \E a \in Nat, b \in Nat :
           /\ a = G!Min({g.from[i], g.to[i]}) /\ b = G!Max({g.from[i], g.to[i]})
           /\ G!Span(i) = a .. b
           /\ g.from[i] \in a .. b /\ g.to[i] \in a .. b /\ {a, b} \subseteq {g.from[i], g.to[i]}
<1> DEFINE x == g.from[i]
           y == g.to[i]
           a == G!Min({x, y})
           b == G!Max({x, y})
<1>1. x \in Nat /\ y \in Nat
  BY DEF Sound, Selection, Place, Spot, G!Some
<1>2. G!Span(i) = a .. b
  BY DEF G!Span
<1> HIDE DEF x, y
<1>3. x \in Int /\ y \in Int
  BY <1>1
<1>4. a \in {x, y} /\ a <= x /\ a <= y /\ b \in {x, y} /\ b >= x /\ b >= y
  BY <1>3, EndsOf
<1> HIDE DEF a, b
<1>5. a \in Nat /\ b \in Nat /\ x \in a .. b /\ y \in a .. b /\ {a, b} \subseteq {x, y}
  BY <1>1, <1>4
<1> QED BY <1>2, <1>5 DEF a, b, x, y

\* A text with the name of each column above it, or without.
Named(shift, r, c, m, n) ==
  (IF shift THEN <<[j \in 1 .. n |-> <<-1, c + j - 1>>]>> ELSE << >>) \o Block(r, c, m, n)

LEMMA BlockInText ==
  ASSUME NEW r, NEW c, NEW m \in Nat, NEW n \in Nat, NEW shift \in BOOLEAN,
         n # 0 => c \in Int, m # 0 => r \in Int
  PROVE  /\ Below(shift, Named(shift, r, c, m, n)) = Block(r, c, m, n)
         /\ Headed(Named(shift, r, c, m, n), c, m, n)
<1> DEFINE line(row) == [j \in 1 .. n |-> <<row, c + j - 1>>]
           B == Block(r, c, m, n)
           text == Named(shift, r, c, m, n)
           T == [1 .. n -> Int \X Int]
<1> USE DEF Below, Headed
<1>1. line(-1) \in T
  OBVIOUS
<1>2. B \in [1 .. m -> T]
  <2> SUFFICES ASSUME NEW k \in 1 .. m PROVE [j \in 1 .. n |-> <<r + k - 1, c + j - 1>>] \in T
    BY DEF Block
  <2>1. \A j \in 1 .. n : r + k - 1 \in Int /\ c + j - 1 \in Int
    OBVIOUS
  <2> QED BY <2>1
<1>3. B \in Seq(T)
  <2> HIDE DEF B, T
  <2> QED BY <1>2
<1>4. /\ \A j \in 1 .. n : line(-1)[j][2] = c + j - 1
      /\ m # 0 => \A j \in 1 .. n : B[1][j][2] = c + j - 1
  BY DEF Block
<1> HIDE DEF B, T
<1>5. CASE shift
  <2> DEFINE h == line(-1)
  <2>1. h \in T /\ \A j \in 1 .. n : h[j][2] = c + j - 1
    BY <1>1, <1>4
  <2>2. text = <<h>> \o B
    BY <1>5 DEF Named, B
  <2> HIDE DEF h
  <2>3. SubSeq(<<h>> \o B, 2, Len(<<h>> \o B)) = B /\ (<<h>> \o B)[1] = h
    BY <2>1, <1>3, BelowHead
  <2> HIDE DEF text
  <2> QED BY <1>5, <2>1, <2>2, <2>3 DEF text, B
<1>6. CASE ~shift
  <2>0. text = << >> \o B
    BY <1>6 DEF Named, B
  <2> HIDE DEF text
  <2>1. text = B
    BY <1>3, <2>0, <1>1, BelowHead
  <2> HIDE DEF text
  <2> QED BY <1>4, <1>6, <2>1 DEF text, B
<1> QED BY <1>5, <1>6

\* What is painted of the range on the page, and how many cells it has.
LEMMA PaintedIs ==
  ASSUME page \in Pages, Sound(g), G!Some(g.from), G!Some(g.to)
  PROVE  LET rows == G!Span(1) \cap (0 .. G!Rows - 1)
             columns == G!Span(2) \cap (0 .. G!Cols - 1)
         IN  /\ {c \in G!Cells : G!IsCellInSelection(c)} = rows \X columns
             /\ \E a1, b1, a2, b2 \in Nat :
                  rows = Strip(a1, b1, G!Rows) /\ columns = Strip(a2, b2, G!Cols)
             /\ AllOn(g) => rows = G!Span(1) /\ columns = G!Span(2)
<1> DEFINE rows == G!Span(1) \cap (0 .. G!Rows - 1)
           columns == G!Span(2) \cap (0 .. G!Cols - 1)
<1>1. PICK a1 \in Nat, b1 \in Nat :
        /\ a1 = G!Min({g.from[1], g.to[1]}) /\ b1 = G!Max({g.from[1], g.to[1]})
        /\ G!Span(1) = a1 .. b1
        /\ {a1, b1} \subseteq {g.from[1], g.to[1]}
  BY RangeIs
<1>2. PICK a2 \in Nat, b2 \in Nat :
        /\ a2 = G!Min({g.from[2], g.to[2]}) /\ b2 = G!Max({g.from[2], g.to[2]})
        /\ G!Span(2) = a2 .. b2
        /\ {a2, b2} \subseteq {g.from[2], g.to[2]}
  BY RangeIs
<1>3. rows = Strip(a1, b1, G!Rows) /\ columns = Strip(a2, b2, G!Cols)
  BY <1>1, <1>2 DEF Strip
<1>4. \A c : G!IsCellInSelection(c) <=> a1 <= c[1] /\ b1 >= c[1] /\ a2 <= c[2] /\ b2 >= c[2]
  BY <1>1, <1>2 DEF G!IsCellInSelection
<1>5. {c \in G!Cells : G!IsCellInSelection(c)} = rows \X columns
  <2>1. rows = {x \in 0 .. G!Rows - 1 : a1 <= x /\ b1 >= x}
    BY <1>1, CellFacts
  <2>2. columns = {y \in 0 .. G!Cols - 1 : a2 <= y /\ b2 >= y}
    BY <1>2, CellFacts
  <2> HIDE DEF rows, columns
  <2> QED BY <1>4, <2>1, <2>2 DEF G!Cells
<1>6. ASSUME AllOn(g) PROVE rows = G!Span(1) /\ columns = G!Span(2)
  <2>1. g.from \in G!Cells /\ g.to \in G!Cells
    BY <1>6 DEF AllOn, On, G!Some
  <2>2. /\ g.from[1] < G!Rows /\ g.to[1] < G!Rows
        /\ g.from[2] < G!Cols /\ g.to[2] < G!Cols
    BY <2>1, InCells
  <2>3. b1 < G!Rows /\ b2 < G!Cols
    BY <2>2, <1>1, <1>2
  <2> QED BY <1>1, <1>2, <2>3, CellFacts
<1> QED BY <1>3, <1>5, <1>6

\* The text of a range is right.
LEMMA RangeIsRight ==
  ASSUME page \in Pages, Sound(g), ~turned => AllOn(g), G!Some(g.from), G!Some(g.to),
         g.viewing \notin G!Cells, NEW shift \in BOOLEAN
  PROVE  LET text == G!Copied(shift)
             painted == {c \in G!Cells : G!IsCellInSelection(c)}
         IN  Right(text, Below(shift, text), painted,
                   ~turned => G!CellCount = Cardinality(painted))
<1> DEFINE rows == G!Span(1) \cap (0 .. G!Rows - 1)
           columns == G!Span(2) \cap (0 .. G!Cols - 1)
           m == Cardinality(rows)
           n == Cardinality(columns)
           r == G!Min(rows)
           c == G!Min(columns)
           text == G!Copied(shift)
           body == Below(shift, text)
           painted == {d \in G!Cells : G!IsCellInSelection(d)}
           count == ~turned => G!CellCount = Cardinality(painted)
           lines == Named(shift, r, c, m, n)
<1>1. painted = rows \X columns
  BY PaintedIs
<1>2. PICK a1 \in Nat, b1 \in Nat, a2 \in Nat, b2 \in Nat :
        rows = Strip(a1, b1, G!Rows) /\ columns = Strip(a2, b2, G!Cols)
  BY PaintedIs
<1>3. ~turned => rows = G!Span(1) /\ columns = G!Span(2)
  BY PaintedIs
<1>4. G!Cardinality(rows) = m /\ G!Cardinality(columns) = n
  BY SameCount
<1>5. text = lines
  BY <1>4 DEF G!Copied, Block, Named
<1>6. count
  <2> SUFFICES ASSUME ~turned PROVE G!CellCount = Cardinality(painted)
    OBVIOUS
  <2>1. G!CellCount = m * n
    BY <1>3, <1>4 DEF G!CellCount
  <2>2. IsFiniteSet(rows) /\ IsFiniteSet(columns)
    <3>1. G!Rows \in Nat /\ G!Cols \in Nat
      BY CellFacts
    <3> HIDE DEF rows, columns
    <3> QED BY <1>2, <3>1, StripIs
  <2>3. Cardinality(rows \X columns) = Cardinality(rows) * Cardinality(columns)
    <3> HIDE DEF rows, columns
    <3> QED BY <2>2, FS_Product
  <2> QED BY <1>1, <2>1, <2>3
<1> HIDE DEF rows, columns, text, painted, count
<1>7. /\ IsFiniteSet(rows) /\ m \in Nat
      /\ m # 0 => r \in Int
      /\ rows = From(r, m)
  BY <1>2, StripIs, CellFacts
<1>8. /\ IsFiniteSet(columns) /\ n \in Nat
      /\ n # 0 => c \in Int
      /\ columns = From(c, n)
  BY <1>2, StripIs, CellFacts
<1>9. Cardinality(painted) = Cardinality((1 .. m) \X (1 .. n))
  BY <1>1, <1>7, <1>8, SameArea
<1>10. painted = From(r, m) \X From(c, n)
  BY <1>1, <1>7, <1>8, Zenon
<1> HIDE DEF r, c, m, n
<1>11. /\ Below(shift, lines) = Block(r, c, m, n)
       /\ Headed(lines, c, m, n)
  <2>1. /\ m \in Nat /\ n \in Nat /\ shift \in BOOLEAN
        /\ n # 0 => c \in Int
        /\ m # 0 => r \in Int
    BY <1>7, <1>8
  <2>2. Below(shift, Named(shift, r, c, m, n)) = Block(r, c, m, n)
    BY <2>1, BlockInText
  <2>3. Headed(Named(shift, r, c, m, n), c, m, n)
    BY <2>1, BlockInText
  <2> QED BY <2>2, <2>3
<1> HIDE DEF lines
<1>12. body = Block(r, c, m, n) /\ Headed(text, c, m, n)
  BY <1>5, <1>11
<1> HIDE DEF body
<1>13. Right(text, Block(r, c, m, n), painted, count)
  BY <1>6, <1>7, <1>8, <1>9, <1>10, <1>12, BlockIsRight
<1> QED BY <1>12, <1>13 DEF body, text, painted, count

\* What is copied of a sound selection is what is painted.
LEMMA Painting ==
  ASSUME page \in Pages, Sound(g), ~turned => AllOn(g)
  PROVE  G!CopiedAsPainted
<1> DEFINE Painted == {c \in G!Cells : G!IsCellInSelection(c)}
           Text(shift) == G!Copied(shift)
           Body(shift) == Below(shift, Text(shift))
           Wanted == IF G!Some(g.from) /\ G!Some(g.to) THEN Painted ELSE {g.sel} \cap G!Cells
           Count == ~turned /\ G!Some(g.from) /\ G!Some(g.to) =>
                      G!CellCount = Cardinality(Painted)
<1>1. SUFFICES ASSUME NEW shift \in BOOLEAN, g.viewing \notin G!Cells
               PROVE  Right(Text(shift), Body(shift), Wanted, Count)
  BY SameCount DEF G!CopiedAsPainted, Right, PlacesOf, CellsOf, Below
<1>2. CASE G!Some(g.from) /\ G!Some(g.to)
  <2>1. Wanted = Painted /\ (Count <=> (~turned => G!CellCount = Cardinality(Painted)))
    BY <1>2
  <2>2. Right(Text(shift), Body(shift), Painted, ~turned => G!CellCount = Cardinality(Painted))
    BY <1>1, <1>2, RangeIsRight
  <2> HIDE DEF Text, Body, Painted
  <2> QED BY <1>2, <2>2
<1>3. CASE ~(G!Some(g.from) /\ G!Some(g.to))
  <2>0. ~G!Some(g.from)
    BY <1>3 DEF Sound, G!Some
  <2>1. Count /\ Wanted = {g.sel} \cap G!Cells
    BY <1>3
  <2>2. CASE g.sel \notin G!Cells
    <3>1. Text(shift) = << >>
      BY <1>1, <2>0, <2>2 DEF G!Copied
    <3>2. Body(shift) = << >>
      BY <3>1 DEF Below
    <3>3. Wanted = {}
      BY <2>1, <2>2
    <3> HIDE DEF Text, Body, Wanted, Count
    <3> QED BY <2>1, <3>2, <3>3, NothingIsRight
  <2>3. CASE g.sel \in G!Cells
    <3>1. g.sel # G!NoCell
      BY <2>3, CellFacts
    <3>2. PICK x \in Nat, y \in Nat : g.sel = <<x, y>>
      BY <2>3, InCells DEF Spot
    <3>3. Text(shift) = (IF shift THEN <<<<<<-1, y>>>>>> ELSE << >>) \o <<<<<<x, y>>>>>>
      BY <1>1, <2>0, <2>3, <3>1, <3>2 DEF G!Copied, G!Some
    <3>4. Body(shift) = <<<<<<x, y>>>>>> /\ Text(shift)[1][1][2] = y
      <4> HIDE DEF Text
      <4>1. CASE shift
        <5> DEFINE h == <<<<-1, y>>>>
                   L == <<<<<<x, y>>>>>>
        <5>1. h \in Seq(Int \X Int) /\ L \in Seq(Seq(Int \X Int)) /\ h[1][2] = y
          BY <3>2
        <5> HIDE DEF h, L
        <5>2. SubSeq(<<h>> \o L, 2, Len(<<h>> \o L)) = L /\ (<<h>> \o L)[1] = h
          BY <5>1, BelowHead
        <5>3. Text(shift) = <<h>> \o L
          BY <3>3, <4>1 DEF h, L
        <5>4. Body(shift) = L /\ Text(shift)[1] = h
          BY <4>1, <5>2, <5>3 DEF Below
        <5> QED BY <5>1, <5>4 DEF L
      <4>2. CASE ~shift
        <5> DEFINE L == <<<<<<x, y>>>>>>
        <5>1. L \in Seq(Seq(Int \X Int)) /\ L[1][1][2] = y
          BY <3>2
        <5>2. Text(shift) = << >> \o L
          BY <3>3, <4>2
        <5> HIDE DEF L
        <5>3. Text(shift) = L
          BY <5>1, <5>2
        <5> QED BY <4>2, <5>1, <5>3 DEF L, Below
      <4> QED BY <4>1, <4>2
    <3>5. Wanted = {<<x, y>>}
      BY <2>1, <2>3, <3>2
    <3> DEFINE all == Text(shift)
               b == Body(shift)
    <3>6. b = <<<<<<x, y>>>>>> /\ all[1][1][2] = y
      BY <3>4
    <3> HIDE DEF all, b, Wanted, Count
    <3>7. Right(all, b, {<<x, y>>}, Count)
      BY <2>1, <3>6, OneIsRight
    <3> QED BY <3>5, <3>7 DEF all, b
  <2> QED BY <2>2, <2>3
<1> QED BY <1>2, <1>3

-----------------------------------------------------------------------------
\* The invariant says what is promised.
LEMMA GInvShown == GInv => SelectionOnPage
<1> SUFFICES ASSUME GInv PROVE SelectionOnPage
  OBVIOUS
<1>1. G!CopiedAsPainted
  BY Painting DEF GInv
<1>2. G!SelectionOnPage
  BY DEF GInv, AllOn, On, G!SelectionOnPage
<1> QED BY <1>1, <1>2 DEF SelectionOnPage

\* useTableSelection.ts, useTableKeyboard.ts: as long as the page stays, no key and no
\* click, wherever the keyboard is, takes the outline, a range, a text in line or the
\* modal off it; and ctrl-C copies exactly the cells that TableBody.tsx paints.
THEOREM SelectionKept == MCSpec => []SelectionOnPage
<1>1. MCInit => GInv
  BY GInvInit DEF MCInit
<1>2. GInv /\ [MCNext]_<<part, vars, gridVars, exportVars>> => GInv'
  <2>1. [MCNext]_<<part, vars, gridVars, exportVars>> => [G!GridNext]_gridVars
    BY DEF MCNext
  <2> QED BY <2>1, GInvStep
<1>3. GInv => SelectionOnPage
  BY GInvShown
<1> QED BY <1>1, <1>2, <1>3, PTL DEF MCSpec
=============================================================================
