------------------------- MODULE DataSources_proofs -------------------------
(***************************************************************************)
(* A file is in the list of data sources once.  The types.  And while      *)
(* operations are left alone and nothing fails halfway, the list, the      *)
(* stored handles and the attached databases agree, and an upload has done *)
(* what it says.  For any number of files, aliases and overlapping         *)
(* operations.                                                             *)
(***************************************************************************)
EXTENDS DataSources, WellFoundedInduction, TLAPS

-----------------------------------------------------------------------------
(* The inductive invariant. *)

OpFields == {"kind", "at", "path", "id", "hid", "ok", "new", "old", "peer", "todo"}
SourceFields == {"id", "path", "attached", "named", "handle", "volatile", "failed", "busy"}

Handled(h) == h.id \in Nat /\ h.path \in Paths

\* What is known of an operation: those that add or change a source have a path.
Good(r) ==
  /\ DOMAIN r = OpFields
  /\ r.kind \notin {"none", "clear"} => r.path \in Paths
  /\ r.id \in Nat
  /\ r.kind = "reload" => \A h \in r.todo : Handled(h)

\* The sources of a list are numbered below n, each once.
Numbered(l, n) ==
  /\ \A s \in l : DOMAIN s = SourceFields /\ s.id \in 0 .. n - 1 /\ s.path \in Paths
  /\ \A s, t \in l : s.id = t.id => s = t

\* addDataSource awaits the removal of the source it replaces.
Adding(r) == r.at \in {"detached", "unhandled"} /\ r.kind # "remove"

Typed ==
  /\ nextId \in Nat
  /\ Numbered(list, nextId)
  /\ Numbered(stored, nextId)
  /\ \A h \in handles : Handled(h)
  /\ DOMAIN op = Ops
  /\ \A o \in Ops : Good(op[o])
  /\ pending \in [Paths -> Ops \cup {None}]

\* The source i is the only one of path p, if there is one.
Only(l, p, i) == \A s \in l : s.path = p => s.id = i

\* An addition that waits is the pending one of its path, and the source it
\* removes is the only one there.
Reserved ==
  \A o \in Ops : Adding(op[o]) =>
    /\ op[o].path \in Paths
    /\ pending[op[o].path] = o
    /\ Only(list, op[o].path, op[o].old.id)

\* ... and nothing else is pending.
OnlyReserved ==
  \A p \in Paths : pending[p] # None =>
    Adding(op[pending[p]]) /\ op[pending[p]].path = p

OncePerPath == \A s, t \in list : s.path = t.path => s = t

Regular == Typed /\ Reserved /\ OnlyReserved /\ OncePerPath

IInv == wiped \/ Regular

-----------------------------------------------------------------------------
(* The earliest of a set. *)

Below == {p \in Nat \X Nat : p[1] < p[2]}

LEMMA BelowIsWellFounded == IsWellFoundedOn(Below, Nat)
BY NatLessThanWellFounded DEF OpToRel, Below

LEMMA Least ==
  ASSUME NEW S, S # {}, S \subseteq Nat
  PROVE  \E x \in S : \A y \in S : x <= y
<1>1. PICK x \in S : \A y \in S : ~(<<y, x>> \in Below)
  BY BelowIsWellFounded, WFMin
<1>2. ASSUME NEW y \in S PROVE x <= y
  <2>1. x \in Nat /\ y \in Nat /\ <<y, x>> \in Nat \X Nat
    OBVIOUS
  <2>2. ~(<<y, x>>[1] < <<y, x>>[2])
    BY <1>1, <2>1 DEF Below
  <2> QED
    BY <2>1, <2>2
<1> QED
  BY <1>2

LEMMA FirstIsThere ==
  ASSUME NEW S, S # {}, \A s \in S : s.id \in Nat
  PROVE  First(S) \in S
<1> DEFINE N == {s.id : s \in S}
<1>1. PICK n \in N : \A m \in N : n <= m
  BY Least
<1>2. PICK s \in S : s.id = n
  OBVIOUS
<1>3. \A t \in S : s.id <= t.id
  BY <1>1, <1>2
<1> QED
  BY <1>3 DEF First

-----------------------------------------------------------------------------
(* Operations stay good. *)

LEMMA NoOpGood == Good(NoOp) /\ ~Adding(NoOp)
BY DEF NoOp, Good, Adding, OpFields

LEMMA OperationGood ==
  ASSUME NEW k, NEW a, NEW p, p \in Paths \/ k = "clear", k # "reload"
  PROVE  /\ Good(Operation(k, a, p))
         /\ Operation(k, a, p).kind = k /\ Operation(k, a, p).at = a
         /\ Operation(k, a, p).path = p
BY DEF NoOp, Good, Operation, OpFields

LEMMA NextHandleIsGood ==
  ASSUME NEW r, DOMAIN r = OpFields, r.kind = "reload", \A h \in r.todo : Handled(h)
  PROVE  Good(NextHandle(r)) /\ ~Adding(NextHandle(r))
<1>1. CASE r.todo = {}
  BY <1>1, NoOpGood DEF NextHandle
<1>2. CASE r.todo # {}
  <2> DEFINE h == First(r.todo)
             q == [r EXCEPT !.at = "permit", !.path = h.path, !.hid = h.id, !.id = 0,
                            !.ok = FALSE, !.new = NoNew, !.old = NoOld,
                            !.todo = {x \in @ : x.path # h.path}]
  <2>1. h \in r.todo /\ Handled(h)
    BY <1>2, FirstIsThere DEF Handled
  <2> HIDE DEF h
  <2>2. /\ DOMAIN q = OpFields /\ q.at = "permit" /\ q.path = h.path /\ q.id = 0
        /\ q.kind = r.kind /\ q.todo = {x \in r.todo : x.path # h.path}
    BY DEF OpFields
  <2>3. NextHandle(r) = q
    BY <1>2 DEF NextHandle, h
  <2> HIDE DEF q
  <2>4. Good(q)
    BY <2>1, <2>2 DEF Good, Handled
  <2> QED
    BY <2>2, <2>3, <2>4 DEF Adding
<1> QED
  BY <1>1, <1>2

LEMMA NextHandleGood ==
  ASSUME NEW r, Good(r), r.kind = "reload"
  PROVE  Good(NextHandle(r)) /\ ~Adding(NextHandle(r))
BY NextHandleIsGood DEF Good

LEMMA EndedGood ==
  ASSUME NEW r, Good(r)
  PROVE  Good(Ended(r)) /\ ~Adding(Ended(r))
BY NextHandleGood, NoOpGood DEF Ended

LEMMA ResumedGood ==
  ASSUME NEW r, Good(r), NEW s, s.id \in Nat, NEW ok, NEW done
  PROVE  Good(Resumed(r, s, ok, done)) /\ ~Adding(Resumed(r, s, ok, done))
<1> DEFINE a == [r EXCEPT !.id = s.id, !.peer = None, !.at = IF done THEN "store" ELSE "unstored"]
           b == [r EXCEPT !.id = s.id, !.peer = None, !.at = "introspect", !.ok = ok]
<1>1. Good(a) /\ ~Adding(a)
  BY DEF Good, OpFields, Adding
<1>2. Good(b) /\ ~Adding(b)
  BY DEF Good, OpFields, Adding
<1> QED
  BY <1>1, <1>2, EndedGood DEF Resumed

-----------------------------------------------------------------------------
(* Changes of the list that keep the ids and paths. *)

Remapped(l, m) ==
  /\ \A t \in m : /\ DOMAIN t = SourceFields
                  /\ \E s \in l : s.id = t.id /\ s.path = t.path
  /\ \A t, u \in m : t.id = u.id => t = u

LEMMA SameIsRemapped ==
  ASSUME NEW n, NEW l, Numbered(l, n)
  PROVE  Remapped(l, l)
BY DEF Numbered, Remapped

LEMMA FewerIsRemapped ==
  ASSUME NEW n, NEW l, Numbered(l, n), NEW m, m \subseteq l
  PROVE  Remapped(l, m)
BY DEF Numbered, Remapped

\* S takes the place of the source i.
LEMMA UpdatedIsRemapped ==
  ASSUME NEW n, Numbered(list, n), NEW i, NEW S,
         \A t \in S : /\ DOMAIN t = SourceFields
                      /\ \E s \in Of(i) : s.id = t.id /\ s.path = t.path,
         \A t, u \in S : t = u
  PROVE  Remapped(list, Updated(i, S))
BY DEF Numbered, Remapped, Updated, Without, Of

LEMMA RemappedNumbered ==
  ASSUME NEW n, NEW l, NEW m, Numbered(l, n), Remapped(l, m)
  PROVE  Numbered(m, n)
BY DEF Numbered, Remapped

\* Each of the marks that an answer leaves keeps id and path.
LEMMA MarksKeep ==
  ASSUME NEW s, DOMAIN s = SourceFields, NEW b
  PROVE  /\ DOMAIN MarkIntrospected(s) = SourceFields /\ MarkIntrospected(s).id = s.id
         /\ MarkIntrospected(s).path = s.path
         /\ DOMAIN MarkAttached(s) = SourceFields /\ MarkAttached(s).id = s.id
         /\ MarkAttached(s).path = s.path
         /\ DOMAIN MarkFailed(s) = SourceFields /\ MarkFailed(s).id = s.id
         /\ MarkFailed(s).path = s.path
         /\ DOMAIN MarkRestored(s) = SourceFields /\ MarkRestored(s).id = s.id
         /\ MarkRestored(s).path = s.path
BY DEF SourceFields, MarkIntrospected, MarkAttached, MarkFailed, MarkRestored

LEMMA SourceOfId ==
  ASSUME NEW n, Numbered(list, n), NEW i, NEW s \in Of(i), NEW t \in Of(i)
  PROVE  s = t /\ s \in list /\ s.id = i /\ DOMAIN s = SourceFields
BY DEF Numbered, Of

LEMMA MarkedIsRemapped ==
  ASSUME NEW n, Numbered(list, n), NEW i
  PROVE  /\ Remapped(list, Updated(i, {MarkIntrospected(s) : s \in Of(i)}))
         /\ Remapped(list, Updated(i, {MarkAttached(s) : s \in Of(i)}))
         /\ Remapped(list, Updated(i,
              {[MarkIntrospected(s) EXCEPT !.busy = FALSE] : s \in Of(i)}))
         /\ Remapped(list, Updated(i,
              {[s EXCEPT !.failed = TRUE, !.busy = FALSE] : s \in Of(i)}))
         /\ Remapped(list, Updated(i, {[s EXCEPT !.attached = FALSE] : s \in Of(i)}))
         /\ Remapped(list, Updated(i, {[MarkRestored(s) EXCEPT !.handle = TRUE] : s \in Of(i)}))
<1>1. ASSUME NEW s \in Of(i)
      PROVE  /\ DOMAIN s = SourceFields
             /\ \A t \in Of(i) : t = s
  BY SourceOfId
<1>2. Remapped(list, Updated(i, {MarkIntrospected(s) : s \in Of(i)}))
  BY <1>1, MarksKeep, UpdatedIsRemapped
<1>3. Remapped(list, Updated(i, {MarkAttached(s) : s \in Of(i)}))
  BY <1>1, MarksKeep, UpdatedIsRemapped
<1>4. Remapped(list, Updated(i, {[MarkIntrospected(s) EXCEPT !.busy = FALSE] : s \in Of(i)}))
  <2>1. ASSUME NEW s \in Of(i)
        PROVE  LET t == [MarkIntrospected(s) EXCEPT !.busy = FALSE]
               IN DOMAIN t = SourceFields /\ t.id = s.id /\ t.path = s.path
    <3>1. /\ DOMAIN MarkIntrospected(s) = SourceFields /\ MarkIntrospected(s).id = s.id
          /\ MarkIntrospected(s).path = s.path
      BY <1>1, MarksKeep
    <3> QED
      BY <3>1 DEF SourceFields
  <2> QED
    BY <1>1, <2>1, UpdatedIsRemapped
<1>5. Remapped(list, Updated(i, {[s EXCEPT !.failed = TRUE, !.busy = FALSE] : s \in Of(i)}))
  <2>1. ASSUME NEW s \in Of(i)
        PROVE  LET t == [s EXCEPT !.failed = TRUE, !.busy = FALSE]
               IN DOMAIN t = SourceFields /\ t.id = s.id /\ t.path = s.path
    BY <1>1 DEF SourceFields
  <2> QED
    BY <1>1, <2>1, UpdatedIsRemapped
<1>6. Remapped(list, Updated(i, {[s EXCEPT !.attached = FALSE] : s \in Of(i)}))
  <2>1. ASSUME NEW s \in Of(i)
        PROVE  LET t == [s EXCEPT !.attached = FALSE]
               IN DOMAIN t = SourceFields /\ t.id = s.id /\ t.path = s.path
    BY <1>1 DEF SourceFields
  <2> QED
    BY <1>1, <2>1, UpdatedIsRemapped
<1>7. Remapped(list, Updated(i, {[MarkRestored(s) EXCEPT !.handle = TRUE] : s \in Of(i)}))
  <2>1. ASSUME NEW s \in Of(i)
        PROVE  LET t == [MarkRestored(s) EXCEPT !.handle = TRUE]
               IN DOMAIN t = SourceFields /\ t.id = s.id /\ t.path = s.path
    <3>1. /\ DOMAIN MarkRestored(s) = SourceFields /\ MarkRestored(s).id = s.id
          /\ MarkRestored(s).path = s.path
      BY <1>1, MarksKeep
    <3> QED
      BY <3>1 DEF SourceFields
  <2> QED
    BY <1>1, <2>1, UpdatedIsRemapped
<1> QED
  BY <1>2, <1>3, <1>4, <1>5, <1>6, <1>7

\* The first source of a path, when it is marked.
LEMMA FirstMarkedIsRemapped ==
  ASSUME Typed, NEW p, At(p) # {}
  PROVE  LET s == First(At(p)) IN
         /\ Remapped(list, Updated(s.id, {MarkFailed(s)}))
         /\ Remapped(list, Updated(s.id, {MarkRestored(s)}))
<1> DEFINE s == First(At(p))
<1>1. s \in At(p)
  BY FirstIsThere DEF Typed, Numbered, At
<1> HIDE DEF s
<1>2. s \in Of(s.id) /\ DOMAIN s = SourceFields
  BY <1>1 DEF Typed, Numbered, At, Of
<1>3. Numbered(list, nextId)
  BY DEF Typed
<1>4. Remapped(list, Updated(s.id, {MarkFailed(s)}))
  BY <1>2, <1>3, MarksKeep, UpdatedIsRemapped
<1>5. Remapped(list, Updated(s.id, {MarkRestored(s)}))
  BY <1>2, <1>3, MarksKeep, UpdatedIsRemapped
<1> QED
  BY <1>4, <1>5 DEF s

-----------------------------------------------------------------------------
(* The kinds of steps. *)

\* The list is as before, but for marks and for sources that are gone.
Relisted ==
  /\ Remapped(list, list')
  /\ stored' = stored \/ stored' = list \/ stored' = {}
  /\ nextId' = nextId
  /\ \A h \in handles' : Handled(h)

LEMMA RelistedKeeps ==
  ASSUME Regular, Relisted
  PROVE  /\ Numbered(list, nextId)' /\ Numbered(stored, nextId)'
         /\ nextId' \in Nat
         /\ (\A h \in handles : Handled(h))'
         /\ OncePerPath'
         /\ \A p, i : Only(list, p, i) => Only(list', p, i)
<1>1. Numbered(list', nextId)
  BY RemappedNumbered DEF Regular, Typed, Relisted
<1>2. Numbered(stored', nextId)
  BY DEF Regular, Typed, Relisted, Numbered
<1>3. ASSUME NEW p, NEW i, Only(list, p, i)
      PROVE  Only(list', p, i)
  BY <1>3 DEF Only, Relisted, Remapped
<1>4. OncePerPath'
  <2> SUFFICES ASSUME NEW t \in list', NEW u \in list', t.path = u.path
               PROVE  t = u
    BY DEF OncePerPath
  <2>1. PICK a \in list : a.id = t.id /\ a.path = t.path
    BY DEF Relisted, Remapped
  <2>2. PICK b \in list : b.id = u.id /\ b.path = u.path
    BY DEF Relisted, Remapped
  <2>3. a = b
    BY <2>1, <2>2 DEF Regular, OncePerPath
  <2> QED
    BY <2>1, <2>2, <2>3 DEF Relisted, Remapped
<1> QED
  BY <1>1, <1>2, <1>3, <1>4 DEF Regular, Typed, Relisted, Handled, Numbered

\* No operation moves.
LEMMA StandsStill ==
  ASSUME Regular, Relisted, UNCHANGED <<op, pending>>
  PROVE  Regular'
<1>1. Typed'
  BY RelistedKeeps DEF Regular, Typed, Good, Handled
<1>2. Reserved'
  BY RelistedKeeps DEF Regular, Reserved, Adding
<1>3. OnlyReserved'
  BY DEF Regular, OnlyReserved, Adding
<1> QED
  BY <1>1, <1>2, <1>3, RelistedKeeps DEF Regular

\* An operation that adds nothing moves on and adds nothing.
LEMMA GoesOn ==
  ASSUME Regular, Relisted, NEW o \in Ops, ~Adding(op[o]),
         NEW r, Good(r), ~Adding(r), Goto(o, r), pending' = pending
  PROVE  Regular'
<1>1. op'[o] = r /\ DOMAIN op' = Ops /\ \A x \in Ops \ {o} : op'[x] = op[x]
  BY DEF Regular, Typed, Goto
<1>2. Typed'
  BY <1>1, RelistedKeeps DEF Regular, Typed, Good, Handled
<1>3. Reserved'
  BY <1>1, RelistedKeeps DEF Regular, Reserved, Adding
<1>4. OnlyReserved'
  <2> SUFFICES ASSUME NEW p \in Paths, pending[p] # None
               PROVE  Adding(op[pending[p]])' /\ op'[pending[p]].path = p
    BY DEF OnlyReserved
  <2>1. Adding(op[pending[p]]) /\ op[pending[p]].path = p /\ pending[p] \in Ops
    BY DEF Regular, Typed, OnlyReserved
  <2>2. pending[p] # o
    BY <2>1
  <2> QED
    BY <1>1, <2>1, <2>2 DEF Adding
<1> QED
  BY <1>2, <1>3, <1>4, RelistedKeeps DEF Regular

\* An addition reserves its path, and waits for a removal.
LEMMA Reserves ==
  ASSUME Regular, NEW o \in Ops, ~Adding(op[o]), NEW r, Good(r), Adding(r),
         r.path \in Paths, pending[r.path] = None, Only(list, r.path, r.old.id),
         Goto(o, r), pending' = [pending EXCEPT ![r.path] = o],
         list' = list, stored' = stored, nextId' = nextId, \A h \in handles' : Handled(h)
  PROVE  Regular'
<1>1. op'[o] = r /\ DOMAIN op' = Ops /\ \A x \in Ops \ {o} : op'[x] = op[x]
  BY DEF Regular, Typed, Goto
<1>2. /\ pending' \in [Paths -> Ops \cup {None}]
      /\ pending'[r.path] = o
      /\ \A p \in Paths \ {r.path} : pending'[p] = pending[p]
  BY DEF Regular, Typed
<1>3. Relisted
  BY SameIsRemapped DEF Regular, Typed, Relisted
<1>4. Typed'
  BY <1>1, <1>2, <1>3, RelistedKeeps DEF Regular, Typed, Good, Handled
<1>5. o # None
  BY NoneAssumption
<1>6. Reserved'
  <2> SUFFICES ASSUME NEW x \in Ops, Adding(op[x])'
               PROVE  /\ op'[x].path \in Paths
                      /\ pending'[op'[x].path] = x
                      /\ Only(list', op'[x].path, op'[x].old.id)
    BY DEF Reserved
  <2>1. CASE x = o
    BY <1>1, <1>2, <2>1
  <2>2. CASE x # o
    <3>1. op'[x] = op[x] /\ Adding(op[x])
      BY <1>1, <2>2 DEF Adding
    <3>2. op[x].path \in Paths /\ pending[op[x].path] = x
          /\ Only(list, op[x].path, op[x].old.id)
      BY <3>1 DEF Regular, Reserved
    <3>3. op[x].path # r.path
      BY <3>2, NoneAssumption
    <3> QED
      BY <1>2, <3>1, <3>2, <3>3
  <2> QED
    BY <2>1, <2>2
<1>7. OnlyReserved'
  <2> SUFFICES ASSUME NEW p \in Paths, pending'[p] # None
               PROVE  Adding(op[pending[p]])' /\ op'[pending'[p]].path = p
    BY DEF OnlyReserved
  <2>1. CASE p = r.path
    BY <1>1, <1>2, <2>1 DEF Adding
  <2>2. CASE p # r.path
    <3>1. pending'[p] = pending[p] /\ pending[p] \in Ops
      BY <1>2, <2>2 DEF Regular, Typed
    <3>2. Adding(op[pending[p]]) /\ op[pending[p]].path = p
      BY <2>2, <3>1 DEF Regular, OnlyReserved
    <3>3. pending[p] # o
      BY <3>2
    <3> QED
      BY <1>1, <3>1, <3>2, <3>3 DEF Adding
  <2> QED
    BY <2>1, <2>2
<1> QED
  BY <1>3, <1>4, <1>6, <1>7, RelistedKeeps DEF Regular

\* What appending a source changes; new are the handles its callers store.
Appended(o, r, l, s, callers) ==
  /\ list' = l \cup {s}
  /\ nextId' = nextId + 1
  /\ stored' = stored
  /\ pending' = [pending EXCEPT ![r.path] = None]
  /\ \A h \in handles' : h \in handles \/ (h.id = s.id /\ h.path = s.path)
  /\ DOMAIN op' = Ops
  /\ \A x \in Ops : IF x \in callers THEN Good(op'[x]) /\ ~Adding(op'[x]) ELSE op'[x] = op[x]

LEMMA AppendsAppended ==
  ASSUME Regular, NEW o \in Ops, NEW r, Good(r), NEW l, AppendSource(o, r, l), stored' = stored
  PROVE  \E s : /\ DOMAIN s = SourceFields /\ s.id = nextId /\ s.path = r.path
                /\ Appended(o, r, l, s, {o} \cup {x \in Ops : op[x].at = "joined" /\ op[x].peer = o})
<1> DEFINE s == [id |-> nextId, path |-> r.path, attached |-> r.new.attached,
                 named |-> r.new.attached, handle |-> r.new.handle,
                 volatile |-> r.new.volatile, failed |-> FALSE, busy |-> TRUE]
           now == [op EXCEPT ![o] = r]
           callers == {o} \cup {x \in Ops : op[x].at = "joined" /\ op[x].peer = o}
           new == {[id |-> s.id, path |-> s.path] : x \in {y \in callers : Stores(now[y])}}
<1>1. DOMAIN s = SourceFields /\ s.id = nextId /\ s.path = r.path
  BY DEF SourceFields
<1>2. \A h \in new : h.id = s.id /\ h.path = s.path
  OBVIOUS
<1> HIDE DEF s
<1>3. \A x \in Ops : Good(now[x])
  BY DEF Regular, Typed
<1> HIDE DEF now, callers
<1>4. PICK a, done :
        /\ list' = l \cup {s}
        /\ handles' = IF done THEN handles \cup new ELSE handles
        /\ op' = [x \in Ops |-> IF x \in callers THEN Resumed(now[x], s, a.ok, done) ELSE op[x]]
        /\ pending' = [pending EXCEPT ![r.path] = None]
        /\ nextId' = nextId + 1
  BY DEF AppendSource, SetList, s, now, callers
<1>5. \A x \in Ops : Good(Resumed(now[x], s, a.ok, done)) /\ ~Adding(Resumed(now[x], s, a.ok, done))
  BY <1>1, <1>3, ResumedGood DEF Regular, Typed
<1>6. Appended(o, r, l, s, callers)
  BY <1>2, <1>4, <1>5 DEF Appended
<1> QED
  BY <1>1, <1>6 DEF callers

\* A source is appended to a list that has none of its path.
LEMMA Appends ==
  ASSUME Regular, NEW o \in Ops, NEW r, Good(r), r.path \in Paths,
         NEW l, l \subseteq list, \A s \in l : s.path # r.path,
         pending[r.path] \in {None, o}, Adding(op[o]) => op[o].path = r.path,
         AppendSource(o, r, l), stored' = stored
  PROVE  Regular'
<1> DEFINE callers == {o} \cup {x \in Ops : op[x].at = "joined" /\ op[x].peer = o}
<1>1. PICK s : /\ DOMAIN s = SourceFields /\ s.id = nextId /\ s.path = r.path
               /\ Appended(o, r, l, s, callers)
  BY AppendsAppended
<1>2. \A x \in callers : x # o => ~Adding(op[x])
  BY DEF Adding
<1>0. o \in callers /\ callers \subseteq Ops
  OBVIOUS
<1> HIDE DEF callers
<1>3. Numbered(list', nextId')
  BY <1>1 DEF Regular, Typed, Numbered, Appended
<1>4. OncePerPath'
  BY <1>1 DEF Regular, OncePerPath, Appended
<1>5. /\ pending' \in [Paths -> Ops \cup {None}] /\ pending'[r.path] = None
      /\ \A p \in Paths \ {r.path} : pending'[p] = pending[p]
  BY <1>1 DEF Regular, Typed, Appended
<1>6. Typed'
  <2>1. nextId' \in Nat /\ Numbered(stored', nextId')
    BY <1>1 DEF Regular, Typed, Numbered, Appended
  <2>2. \A h \in handles' : Handled(h)
    BY <1>1 DEF Regular, Typed, Handled, Appended
  <2>3. DOMAIN op' = Ops /\ \A x \in Ops : Good(op'[x])
    BY <1>1 DEF Regular, Typed, Appended
  <2> QED
    BY <1>3, <1>5, <2>1, <2>2, <2>3 DEF Typed, Good, Handled
<1>7. ASSUME NEW x \in Ops, Adding(op'[x])
      PROVE  x # o /\ op'[x] = op[x] /\ Adding(op[x]) /\ op[x].path \in Paths \ {r.path}
  <2>1. x \notin callers /\ op'[x] = op[x]
    BY <1>1, <1>7 DEF Appended
  <2>2. x # o /\ Adding(op[x])
    BY <1>0, <1>7, <2>1
  <2>3. op[x].path \in Paths /\ pending[op[x].path] = x
    BY <2>2 DEF Regular, Reserved
  <2>4. op[x].path # r.path
    BY <2>2, <2>3, NoneAssumption
  <2> QED
    BY <2>1, <2>2, <2>3, <2>4
<1>8. Reserved'
  <2> SUFFICES ASSUME NEW x \in Ops, Adding(op'[x])
               PROVE  /\ op'[x].path \in Paths
                      /\ pending'[op'[x].path] = x
                      /\ Only(list', op'[x].path, op'[x].old.id)
    BY DEF Reserved, Adding
  <2>1. op'[x] = op[x] /\ Adding(op[x]) /\ op[x].path \in Paths \ {r.path}
    BY <1>7
  <2>2. pending[op[x].path] = x /\ Only(list, op[x].path, op[x].old.id)
    BY <2>1 DEF Regular, Reserved
  <2>3. Only(list', op[x].path, op[x].old.id)
    BY <1>1, <2>1, <2>2 DEF Only, Appended
  <2> QED
    BY <1>5, <2>1, <2>2, <2>3
<1>9. OnlyReserved'
  <2> SUFFICES ASSUME NEW p \in Paths, pending'[p] # None
               PROVE  Adding(op'[pending'[p]]) /\ op'[pending'[p]].path = p
    BY DEF OnlyReserved, Adding
  <2>1. p # r.path /\ pending'[p] = pending[p] /\ pending[p] \in Ops
    BY <1>5 DEF Regular, Typed
  <2>2. Adding(op[pending[p]]) /\ op[pending[p]].path = p
    BY <2>1 DEF Regular, OnlyReserved
  <2>3. pending[p] # o
    BY <2>1, <2>2
  <2>4. pending[p] \notin callers
    BY <1>2, <2>2, <2>3
  <2>5. op'[pending[p]] = op[pending[p]]
    BY <1>1, <2>1, <2>4 DEF Appended
  <2> QED
    BY <2>1, <2>2, <2>5
<1> QED
  BY <1>4, <1>6, <1>8, <1>9 DEF Regular

-----------------------------------------------------------------------------
(* removeDataSource and addDataSource. *)

LEMMA ListStays ==
  ASSUME Regular, list' = list, stored' = stored, nextId' = nextId,
         \A h \in handles' : Handled(h)
  PROVE  Relisted
BY SameIsRemapped DEF Regular, Typed, Relisted

LEMMA Filters ==
  ASSUME Regular, NEW o \in Ops, NEW r, Good(r), r.path \in Paths, NEW i,
         r.kind = "remove" => ~Adding(op[o]),
         r.kind # "remove" => /\ Only(list, r.path, i)
                              /\ pending[r.path] \in {None, o}
                              /\ Adding(op[o]) => op[o].path = r.path,
         Filtered(o, r, i), stored' = stored
  PROVE  Regular'
<1>1. Without(i) \subseteq list
  BY DEF Without
<1>2. CASE r.kind = "remove"
  <2>1. Goto(o, NoOp) /\ pending' = pending /\ list' = Without(i) /\ handles' = handles
        /\ nextId' = nextId
    BY <1>2 DEF Filtered, SetList
  <2>2. Relisted
    BY <1>1, <2>1, FewerIsRemapped DEF Regular, Typed, Relisted
  <2> QED
    BY <1>2, <2>1, <2>2, NoOpGood, GoesOn
<1>3. CASE r.kind # "remove"
  <2>1. AppendSource(o, r, Without(i))
    BY <1>3 DEF Filtered
  <2>2. \A s \in Without(i) : s.path # r.path
    BY <1>3 DEF Without, Only
  <2> QED
    BY <1>1, <1>3, <2>1, <2>2, Appends
<1> QED
  BY <1>2, <1>3

\* The removal of a handle moves r on and leaves the list.
LEMMA RemoveHandleMoves ==
  ASSUME Regular, NEW o, NEW r, Good(r), NEW i, RemoveHandle(o, r, i)
  PROVE  LET q == [r EXCEPT !.at = "unhandled"] IN
         /\ Goto(o, q) /\ Good(q) /\ q.at = "unhandled" /\ q.kind = r.kind
         /\ q.path = r.path /\ q.old = r.old
         /\ list' = list /\ nextId' = nextId
         /\ \A h \in handles' : Handled(h)
<1> DEFINE q == [r EXCEPT !.at = "unhandled"]
<1>1. Good(q) /\ q.at = "unhandled" /\ q.kind = r.kind /\ q.path = r.path /\ q.old = r.old
  BY DEF Good, OpFields
<1> HIDE DEF q
<1>2. Goto(o, q) /\ list' = list /\ nextId' = nextId
  BY DEF RemoveHandle, q
<1>3. handles' \subseteq handles
  BY DEF RemoveHandle
<1> QED
  BY <1>1, <1>2, <1>3 DEF Regular, Typed, q

\* removeDataSource by itself.
LEMMA RemovesAlone ==
  ASSUME Regular, NEW o \in Ops, ~Adding(op[o]), NEW r, Good(r), r.path \in Paths,
         r.kind = "remove", NEW s, Remove(o, r, s, pending), stored' = stored
  PROVE  Regular'
<1> DEFINE q == [r EXCEPT !.old = [id |-> s.id, handle |-> s.handle]]
           d == [q EXCEPT !.at = "detached"]
<1>1. Good(q) /\ q.kind = "remove"
  BY DEF Good, OpFields
<1>2. Good(d) /\ d.kind = "remove"
  BY DEF Good, OpFields
<1> HIDE DEF q
<1>3. CASE s.attached
  <2> HIDE DEF d
  <2>1. Goto(o, d) /\ UNCHANGED <<list, handles, nextId, pending>>
    BY <1>3 DEF Remove, q, d
  <2>2. Relisted
    BY <1>3, <2>1, ListStays DEF Regular, Typed
  <2> QED
    BY <1>2, <1>3, <2>1, <2>2, GoesOn DEF Adding
<1>4. CASE ~s.attached /\ s.handle
  <2>1. RemoveHandle(o, q, s.id) /\ pending' = pending
    BY <1>4 DEF Remove, q
  <2> DEFINE u == [q EXCEPT !.at = "unhandled"]
  <2>2. /\ Goto(o, u) /\ Good(u) /\ u.kind = "remove" /\ list' = list /\ nextId' = nextId
        /\ \A h \in handles' : Handled(h)
    BY <1>1, <2>1, RemoveHandleMoves
  <2> HIDE DEF u
  <2>3. Relisted
    BY <2>2, ListStays
  <2> QED
    BY <2>1, <2>2, <2>3, GoesOn DEF Adding
<1>5. CASE ~s.attached /\ ~s.handle
  <2>1. Filtered(o, r, s.id)
    BY <1>5 DEF Remove
  <2> QED
    BY <2>1, Filters
<1> QED
  BY <1>3, <1>4, <1>5

\* removeDataSource for an addition.
LEMMA RemovesForAddition ==
  ASSUME Regular, NEW o \in Ops, ~Adding(op[o]), NEW r, Good(r), r.path \in Paths,
         r.kind # "remove", pending[r.path] = None, NEW s, Only(list, r.path, s.id),
         Remove(o, r, s, [pending EXCEPT ![r.path] = o]), stored' = stored
  PROVE  Regular'
<1> DEFINE q == [r EXCEPT !.old = [id |-> s.id, handle |-> s.handle]]
           d == [q EXCEPT !.at = "detached"]
<1>1. Good(q) /\ q.kind = r.kind /\ q.path = r.path /\ q.old.id = s.id
  BY DEF Good, OpFields
<1>2. Good(d) /\ d.kind = r.kind /\ d.path = r.path /\ d.old.id = s.id /\ d.at = "detached"
  BY DEF Good, OpFields
<1> HIDE DEF q
<1>3. CASE s.attached
  <2> HIDE DEF d
  <2>1. Goto(o, d) /\ UNCHANGED <<list, handles, nextId>>
        /\ pending' = [pending EXCEPT ![r.path] = o]
    BY <1>3 DEF Remove, RemoveHandle, Filtered, q, d
  <2>2. Adding(d)
    BY <1>2 DEF Adding
  <2>3. \A h \in handles' : Handled(h)
    BY <2>1 DEF Regular, Typed
  <2> QED
    BY <1>2, <2>1, <2>2, <2>3, Reserves
<1>4. CASE ~s.attached /\ s.handle
  <2>1. RemoveHandle(o, q, s.id) /\ pending' = [pending EXCEPT ![r.path] = o]
    BY <1>4 DEF Remove, q
  <2> DEFINE u == [q EXCEPT !.at = "unhandled"]
  <2>2. /\ Goto(o, u) /\ Good(u) /\ u.kind = r.kind /\ u.path = r.path /\ u.old.id = s.id
        /\ u.at = "unhandled" /\ list' = list /\ nextId' = nextId
        /\ \A h \in handles' : Handled(h)
    BY <1>1, <2>1, RemoveHandleMoves
  <2> HIDE DEF u
  <2>3. Adding(u)
    BY <2>2 DEF Adding
  <2> QED
    BY <2>1, <2>2, <2>3, Reserves
<1>5. CASE ~s.attached /\ ~s.handle
  <2>1. Filtered(o, r, s.id)
    BY <1>5 DEF Remove
  <2> QED
    BY <2>1, Filters
<1> QED
  BY <1>3, <1>4, <1>5

LEMMA Adds ==
  ASSUME Regular, NEW o \in Ops, ~Adding(op[o]), NEW r, Good(r), r.path \in Paths,
         r.kind # "remove", AddSource(o, r), stored' = stored
  PROVE  Regular'
<1>1. CASE pending[r.path] # None
  <2> DEFINE q == [r EXCEPT !.at = "joined", !.peer = pending[r.path]]
  <2>1. Goto(o, q) /\ UNCHANGED <<list, handles, pending, nextId>>
    BY <1>1 DEF AddSource
  <2>2. Good(q) /\ ~Adding(q)
    BY DEF Good, OpFields, Adding
  <2> HIDE DEF q
  <2>3. Relisted
    BY <2>1, ListStays DEF Regular, Typed
  <2> QED
    BY <2>1, <2>2, <2>3, GoesOn
<1>2. CASE pending[r.path] = None /\ At(r.path) = {}
  <2>1. AppendSource(o, r, list)
    BY <1>2 DEF AddSource
  <2>2. \A s \in list : s.path # r.path
    BY <1>2 DEF At
  <2> QED
    BY <1>2, <2>1, <2>2, Appends
<1>3. CASE pending[r.path] = None /\ At(r.path) # {}
  <2> DEFINE s == First(At(r.path))
  <2>1. s \in At(r.path)
    BY <1>3, FirstIsThere DEF Regular, Typed, Numbered, At
  <2>2. Remove(o, r, s, [pending EXCEPT ![r.path] = o])
    BY <1>3 DEF AddSource
  <2> HIDE DEF s
  <2>3. Only(list, r.path, s.id)
    BY <2>1 DEF Only, At, Regular, OncePerPath
  <2> QED
    BY <1>3, <2>2, <2>3, RemovesForAddition
<1> QED
  BY <1>1, <1>2, <1>3

-----------------------------------------------------------------------------
(* The steps of the operations. *)

\* The operation o goes on as r; the list stays.
Onward(o, r) ==
  /\ Goto(o, r) /\ Good(r) /\ ~Adding(r) /\ ~Adding(op[o])
  /\ UNCHANGED <<list, pending, nextId, stored>>
  /\ \A h \in handles' : Handled(h)

LEMMA OnwardKeeps ==
  ASSUME Regular, NEW o \in Ops, NEW r, Onward(o, r)
  PROVE  Regular'
<1>1. Relisted
  BY ListStays DEF Onward
<1> QED
  BY <1>1, GoesOn DEF Onward

LEMMA HandlesStay ==
  ASSUME Regular, handles' \subseteq handles
  PROVE  \A h \in handles' : Handled(h)
BY DEF Regular, Typed

LEMMA AttachesKeeps ==
  ASSUME Regular, NEW o \in Ops, ~Adding(op[o]), Attaches(o)
  PROVE  Regular'
<1>1. PICK a \in Attaching(op[o].path) :
        Goto(o, [op[o] EXCEPT !.at = "attach", !.ok = a.ok])
  BY DEF Attaches
<1> DEFINE r == [op[o] EXCEPT !.at = "attach", !.ok = a.ok]
<1>2. Good(r) /\ ~Adding(r)
  BY DEF Regular, Typed, Good, OpFields, Adding
<1> HIDE DEF r
<1>3. Onward(o, r)
  BY <1>1, <1>2, HandlesStay DEF Attaches, rest, Onward, r
<1> QED
  BY <1>3, OnwardKeeps

LEMMA IntrospectSchemaMoves ==
  ASSUME NEW o, NEW r, Good(r), NEW l, IntrospectSchema(o, r, l)
  PROVE  \E q : Goto(o, q) /\ Good(q) /\ ~Adding(q)
<1>1. CASE Has(l, r.id)
  <2>1. PICK a : Goto(o, [r EXCEPT !.at = "introspect", !.ok = a.ok])
    BY <1>1 DEF IntrospectSchema
  <2> DEFINE q == [r EXCEPT !.at = "introspect", !.ok = a.ok]
  <2>2. Good(q) /\ ~Adding(q)
    BY DEF Good, OpFields, Adding
  <2> QED
    BY <2>1, <2>2
<1>2. CASE ~Has(l, r.id)
  BY <1>2, EndedGood DEF IntrospectSchema
<1> QED
  BY <1>1, <1>2

LEMMA UpdateKeeps ==
  ASSUME Regular, NEW o \in Ops, ~Adding(op[o]), NEW r, Good(r), NEW l, Remapped(list, l),
         UpdateAndIntrospect(o, r, l)
  PROVE  Regular'
<1>1. PICK q : Goto(o, q) /\ Good(q) /\ ~Adding(q)
  BY IntrospectSchemaMoves DEF UpdateAndIntrospect
<1>2. Relisted /\ pending' = pending
  BY HandlesStay DEF UpdateAndIntrospect, SetList, rest, Relisted
<1> QED
  BY <1>1, <1>2, GoesOn

\* A reload gives up a handle.
LEMMA ReloadFailsKeeps ==
  ASSUME Regular, NEW o \in Ops, op[o].kind = "reload", ~Adding(op[o]), ReloadFails(o, op[o])
  PROVE  Regular'
<1> DEFINE r == op[o]
           s == First(At(r.path))
<1>1. \/ At(r.path) # {} /\ list' = Updated(s.id, {MarkFailed(s)})
      \/ list' = list
  BY DEF ReloadFails, SetList
<1>2. Remapped(list, list')
  BY <1>1, FirstMarkedIsRemapped, SameIsRemapped DEF Regular, Typed
<1>3. Goto(o, NextHandle(r)) /\ Good(NextHandle(r)) /\ ~Adding(NextHandle(r))
  BY NextHandleGood DEF ReloadFails, Regular, Typed
<1>4. Relisted /\ pending' = pending
  BY <1>2, HandlesStay DEF ReloadFails, rest, Relisted
<1> HIDE DEF r
<1> QED
  BY <1>3, <1>4, GoesOn

LEMMA FailsKeeps ==
  ASSUME Regular, NEW o \in Ops, ~Adding(op[o]), Fails(o)
  PROVE  Regular'
<1>1. CASE op[o].kind = "reload" /\ ReloadFails(o, op[o])
  BY <1>1, ReloadFailsKeeps
<1>2. CASE op[o].kind = "reload" /\ Forget(o, op[o])
  <2> DEFINE r == [op[o] EXCEPT !.at = "forget"]
  <2>1. Good(r) /\ ~Adding(r)
    BY DEF Regular, Typed, Good, OpFields, Adding
  <2> HIDE DEF r
  <2>2. Onward(o, r)
    BY <1>2, <2>1, HandlesStay DEF Forget, rest, Onward, r
  <2> QED
    BY <2>2, OnwardKeeps
<1>3. CASE op[o].kind # "reload"
  <2>1. Onward(o, NoOp)
    BY <1>3, NoOpGood, HandlesStay DEF Fails, rest, Onward
  <2> QED
    BY <2>1, OnwardKeeps
<1> QED
  BY <1>1, <1>2, <1>3 DEF Fails

LEMMA OpIsGood ==
  ASSUME Regular, NEW o \in Ops
  PROVE  Good(op[o])
BY DEF Regular, Typed

\* The operation waits for an answer, with another `at` and other fields.
LEMMA QuietlyKeeps ==
  ASSUME Regular, NEW o \in Ops, ~Adding(op[o]), NEW r, Good(r), ~Adding(r), Quietly(o, r)
  PROVE  Regular'
<1>1. Onward(o, r)
  BY HandlesStay DEF Quietly, rest, Onward
<1> QED
  BY <1>1, OnwardKeeps

LEMMA DetachesKeeps ==
  ASSUME Regular, NEW o \in Ops, ~Adding(op[o]), NEW r, Good(r), ~Adding(r), NEW A,
         Detaches(o, r, A)
  PROVE  Regular'
<1>1. Onward(o, r)
  BY HandlesStay DEF Detaches, rest, Onward
<1> QED
  BY <1>1, OnwardKeeps

LEMMA UploadKeeps ==
  ASSUME Regular, NEW o \in Ops,
         \/ UploadRegistered(o) \/ UploadDetached(o) \/ UploadAttached(o)
         \/ UploadStored(o) \/ UploadUnstored(o)
  PROVE  Regular'
<1>1. op[o].kind = "upload" /\ ~Adding(op[o])
  BY DEF UploadRegistered, UploadDetached, UploadAttached, UploadStored, UploadUnstored, Is,
         Adding
<1>2. Good(op[o]) /\ op[o].path \in Paths
  BY <1>1, OpIsGood DEF Good
<1>3. CASE UploadRegistered(o)
  <2> DEFINE r == [op[o] EXCEPT !.at = "detach"]
  <2>1. Good(r) /\ ~Adding(r)
    BY <1>2 DEF Good, OpFields, Adding
  <2> HIDE DEF r
  <2>2. \/ Quietly(o, NoOp)
        \/ Detaches(o, r, {AliasOf[op[o].path]})
        \/ AddSource(o, op[o]) /\ stored' = stored
    BY <1>3 DEF UploadRegistered, rest, r
  <2> QED
    BY <1>1, <1>2, <2>1, <2>2, NoOpGood, QuietlyKeeps, DetachesKeeps, Adds
<1>4. CASE UploadDetached(o)
  BY <1>1, <1>4, AttachesKeeps DEF UploadDetached
<1>5. CASE UploadAttached(o)
  <2> DEFINE r == [op[o] EXCEPT !.new.attached = op[o].ok, !.new.handle = @ /\ op[o].ok]
  <2>1. Good(r) /\ r.path = op[o].path /\ r.kind = op[o].kind
    BY <1>2 DEF Good, OpFields
  <2> HIDE DEF r
  <2>2. AddSource(o, r) /\ stored' = stored
    BY <1>5 DEF UploadAttached, rest, r
  <2> QED
    BY <1>1, <1>2, <2>1, <2>2, Adds
<1>6. CASE UploadStored(o)
  BY <1>1, <1>6, NoOpGood, QuietlyKeeps DEF UploadStored
<1>7. CASE UploadUnstored(o)
  <2> DEFINE r == [op[o] EXCEPT !.new = [NoNew EXCEPT !.volatile = op[o].new.volatile],
                                !.old = NoOld, !.id = 0]
  <2>1. Good(r) /\ r.path = op[o].path /\ r.kind = op[o].kind
    BY <1>2 DEF Good, OpFields
  <2> HIDE DEF r
  <2>2. Quietly(o, NoOp) \/ (AddSource(o, r) /\ stored' = stored)
    BY <1>7 DEF UploadUnstored, rest, r
  <2> QED
    BY <1>1, <1>2, <2>1, <2>2, NoOpGood, QuietlyKeeps, Adds
<1> QED
  BY <1>3, <1>4, <1>5, <1>6, <1>7

LEMMA ReplaceKeeps ==
  ASSUME Regular, NEW o \in Ops, ReplaceRegistered(o) \/ ReplaceAttached(o)
  PROVE  Regular'
<1>1. op[o].kind = "replace" /\ ~Adding(op[o])
  BY DEF ReplaceRegistered, ReplaceAttached, Is, Adding
<1>2. Good(op[o]) /\ op[o].path \in Paths
  BY <1>1, OpIsGood DEF Good
<1>3. CASE ReplaceRegistered(o)
  <2>1. Quietly(o, NoOp) \/ Attaches(o) \/ (AddSource(o, op[o]) /\ stored' = stored)
    BY <1>3 DEF ReplaceRegistered, rest
  <2> QED
    BY <1>1, <1>2, <2>1, NoOpGood, QuietlyKeeps, AttachesKeeps, Adds
<1>4. CASE ReplaceAttached(o)
  <2> DEFINE r == [op[o] EXCEPT !.new.attached = op[o].ok]
  <2>1. Good(r) /\ r.path = op[o].path /\ r.kind = op[o].kind
    BY <1>2 DEF Good, OpFields
  <2> HIDE DEF r
  <2>2. AddSource(o, r) /\ stored' = stored
    BY <1>4 DEF ReplaceAttached, rest, r
  <2> QED
    BY <1>1, <1>2, <2>1, <2>2, Adds
<1> QED
  BY <1>3, <1>4

\* An addition that has detached its old source, and one that has removed its
\* handle; or a removal.
LEMMA OldKeeps ==
  ASSUME Regular, NEW o \in Ops, OldDetached(o) \/ OldUnhandled(o), stored' = stored
  PROVE  Regular'
<1> DEFINE r == op[o]
<1>1. Good(r) /\ r.at \in {"detached", "unhandled"}
  BY OpIsGood DEF OldDetached, OldUnhandled
<1>2. r.kind # "remove" => Adding(r)
  BY <1>1 DEF Adding
<1>3. r.kind # "remove" => /\ r.path \in Paths /\ pending[r.path] = o
                           /\ Only(list, r.path, r.old.id)
  BY <1>2 DEF Regular, Reserved
<1>4. r.path \in Paths
  BY <1>1, <1>3 DEF Good
<1>5. CASE Filtered(o, r, r.old.id)
  BY <1>1, <1>3, <1>4, <1>5, Filters DEF Adding
<1>6. CASE RemoveHandle(o, r, r.old.id) /\ UNCHANGED pending
  <2> DEFINE u == [r EXCEPT !.at = "unhandled"]
  <2>1. /\ Goto(o, u) /\ Good(u) /\ u.at = "unhandled" /\ u.kind = r.kind /\ u.path = r.path
        /\ u.old = r.old
        /\ list' = list /\ nextId' = nextId /\ \A h \in handles' : Handled(h)
    BY <1>1, <1>6, RemoveHandleMoves
  <2> HIDE DEF u
  <2>2. Relisted
    BY <2>1, ListStays
  <2>3. op'[o] = u /\ DOMAIN op' = Ops /\ \A x \in Ops \ {o} : op'[x] = op[x]
    BY <2>1 DEF Regular, Typed, Goto
  <2>4. Typed'
    BY <1>6, <2>1, <2>2, <2>3, RelistedKeeps DEF Regular, Typed, Good, Handled
  <2>5. Adding(u) <=> Adding(r)
    BY <1>1, <2>1 DEF Adding
  <2>6. \A x \in Ops : /\ Adding(op'[x]) <=> Adding(op[x])
                       /\ op'[x].path = op[x].path /\ op'[x].old = op[x].old
    BY <2>1, <2>3, <2>5
  <2>7. Reserved'
    BY <1>6, <2>1, <2>6 DEF Regular, Reserved, Adding
  <2>8. OnlyReserved'
    <3> SUFFICES ASSUME NEW p \in Paths, pending[p] # None
                 PROVE  Adding(op'[pending[p]]) /\ op'[pending[p]].path = p
      BY <1>6 DEF OnlyReserved, Adding
    <3> QED
      BY <2>6 DEF Regular, Typed, OnlyReserved
  <2> QED
    BY <2>2, <2>4, <2>7, <2>8, RelistedKeeps DEF Regular
<1> QED
  BY <1>5, <1>6 DEF OldDetached, OldUnhandled

LEMMA ReattachedKeeps ==
  ASSUME Regular, NEW o \in Ops, Reattaches(o), ~Adding(op[o]), Reattached(o, op[o])
  PROVE  Regular'
<1>1. Good(op[o]) /\ op[o].path \in Paths /\ op[o].kind # "remove"
  BY OpIsGood DEF Good, Reattaches
<1>2. CASE op[o].id # 0
  <2>1. UpdateAndIntrospect(o, op[o], Updated(op[o].id, {MarkAttached(s) : s \in Of(op[o].id)}))
    BY <1>2 DEF Reattached
  <2>2. Remapped(list, Updated(op[o].id, {MarkAttached(s) : s \in Of(op[o].id)}))
    BY MarkedIsRemapped DEF Regular, Typed
  <2> QED
    BY <1>1, <2>1, <2>2, UpdateKeeps
<1>3. CASE op[o].id = 0
  <2> DEFINE r == [op[o] EXCEPT !.new = [attached |-> TRUE, handle |-> TRUE, volatile |-> FALSE]]
  <2>1. Good(r) /\ r.path = op[o].path /\ r.kind = op[o].kind
    BY <1>1 DEF Good, OpFields
  <2> HIDE DEF r
  <2>2. AddSource(o, r) /\ stored' = stored
    BY <1>3 DEF Reattached, rest, r
  <2> QED
    BY <1>1, <2>1, <2>2, Adds
<1> QED
  BY <1>2, <1>3

LEMMA ReloadKeeps ==
  ASSUME Regular, NEW o \in Ops, ReloadPermit(o) \/ ReloadForgotten(o) \/ ReloadVerified(o)
  PROVE  Regular'
<1>1. op[o].kind = "reload" /\ ~Adding(op[o])
  BY DEF ReloadPermit, ReloadForgotten, ReloadVerified, Is, Adding
<1>2. Good(op[o]) /\ op[o].path \in Paths
  BY <1>1, OpIsGood DEF Good
<1>3. CASE ReloadPermit(o)
  <2> DEFINE r == [op[o] EXCEPT !.at = "register"]
  <2>1. Good(r) /\ ~Adding(r)
    BY <1>2 DEF Good, OpFields, Adding
  <2> HIDE DEF r
  <2>2. ReloadFails(o, op[o]) \/ Quietly(o, r)
    BY <1>3 DEF ReloadPermit, r
  <2> QED
    BY <1>1, <2>1, <2>2, ReloadFailsKeeps, QuietlyKeeps
<1>4. CASE ReloadForgotten(o)
  BY <1>1, <1>4, ReloadFailsKeeps DEF ReloadForgotten
<1>5. CASE ReloadVerified(o)
  <2> DEFINE s == First(At(op[o].path))
             r == [op[o] EXCEPT !.new = [attached |-> FALSE, handle |-> TRUE, volatile |-> FALSE]]
  <2>1. Good(r) /\ r.path = op[o].path /\ r.kind = op[o].kind
    BY <1>2 DEF Good, OpFields
  <2>2. \/ Fails(o)
        \/ /\ At(op[o].path) # {} /\ list' = Updated(s.id, {MarkRestored(s)})
           /\ Goto(o, NextHandle(op[o]))
           /\ UNCHANGED <<handles, pending, nextId, stored>>
        \/ AddSource(o, r) /\ stored' = stored
    BY <1>5 DEF ReloadVerified, SetList, rest
  <2>3. CASE /\ At(op[o].path) # {} /\ list' = Updated(s.id, {MarkRestored(s)})
             /\ Goto(o, NextHandle(op[o]))
             /\ UNCHANGED <<handles, pending, nextId, stored>>
    <3>1. Remapped(list, list')
      BY <2>3, FirstMarkedIsRemapped DEF Regular
    <3>2. Relisted
      BY <2>3, <3>1, HandlesStay DEF Relisted
    <3> QED
      BY <1>1, <1>2, <2>3, <3>2, NextHandleGood, GoesOn
  <2> HIDE DEF r
  <2> QED
    BY <1>1, <1>2, <2>1, <2>2, <2>3, FailsKeeps, Adds
<1> QED
  BY <1>3, <1>4, <1>5

LEMMA ReattachKeeps ==
  ASSUME Regular, NEW o \in Ops,
         \/ Registered(o) \/ ReattachDenied(o) \/ Checked(o) \/ MadeRoom(o)
         \/ AttachAnswered(o)
  PROVE  Regular'
<1>1. Reattaches(o) /\ ~Adding(op[o])
  BY DEF Registered, ReattachDenied, Checked, MadeRoom, AttachAnswered, Is, Adding, Reattaches
<1>2. Good(op[o]) /\ op[o].path \in Paths
  BY <1>1, OpIsGood DEF Good, Reattaches
<1>3. CASE Registered(o)
  <2> DEFINE found == At(op[o].path)
             id == IF op[o].kind = "reattach" THEN op[o].id
                   ELSE IF found = {} THEN 0 ELSE First(found).id
             r == [op[o] EXCEPT !.at = "check", !.id = id,
                                !.ok = (db[AliasOf[op[o].path]] = op[o].path)]
             v == [op[o] EXCEPT !.at = "verify"]
  <2>1. id \in Nat
    <3>1. found # {} => First(found) \in found
      BY FirstIsThere DEF Regular, Typed, Numbered, At
    <3> QED
      BY <1>2, <3>1 DEF Regular, Typed, Numbered, At, Good
  <2>2. Fails(o) \/ Quietly(o, r) \/ Quietly(o, v)
    BY <1>3 DEF Registered
  <2> HIDE DEF id
  <2>3. Good(r) /\ ~Adding(r)
    BY <1>2, <2>1 DEF Good, OpFields, Adding
  <2>4. Good(v) /\ ~Adding(v)
    BY <1>2 DEF Good, OpFields, Adding
  <2> HIDE DEF r, v
  <2> QED
    BY <1>1, <2>2, <2>3, <2>4, FailsKeeps, QuietlyKeeps
<1>4. CASE ReattachDenied(o)
  <2>1. /\ list' = Updated(op[o].id, {[s EXCEPT !.attached = FALSE] : s \in Of(op[o].id)})
        /\ Goto(o, NoOp) /\ UNCHANGED <<handles, pending, nextId, stored>>
    BY <1>4 DEF ReattachDenied, SetList, rest
  <2>2. Remapped(list, list')
    BY <2>1, MarkedIsRemapped DEF Regular, Typed
  <2>3. Relisted
    BY <2>1, <2>2, HandlesStay DEF Relisted
  <2> QED
    BY <1>1, <2>1, <2>3, NoOpGood, GoesOn
<1>5. CASE Checked(o)
  <2> DEFINE r == [op[o] EXCEPT !.at = "detach"]
  <2>1. Good(r) /\ ~Adding(r)
    BY <1>2 DEF Good, OpFields, Adding
  <2> HIDE DEF r
  <2>2. \/ Reattached(o, op[o])
        \/ Detaches(o, r, {AliasOf[op[o].path]} \cup Holders(op[o].path))
    BY <1>5 DEF Checked, r
  <2> QED
    BY <1>1, <2>1, <2>2, ReattachedKeeps, DetachesKeeps
<1>6. CASE MadeRoom(o)
  BY <1>1, <1>6, AttachesKeeps DEF MadeRoom
<1>7. CASE AttachAnswered(o)
  BY <1>1, <1>7, ReattachedKeeps, FailsKeeps DEF AttachAnswered
<1> QED
  BY <1>3, <1>4, <1>5, <1>6, <1>7

LEMMA ToggleKeeps ==
  ASSUME Regular, NEW o \in Ops, ToggleDetached(o) \/ ToggleAttached(o)
  PROVE  Regular'
<1>1. ~Adding(op[o]) /\ Good(op[o])
  BY OpIsGood DEF ToggleDetached, ToggleAttached, Is, Adding
<1>2. CASE ToggleDetached(o)
  BY <1>1, <1>2, NoOpGood, AttachesKeeps, QuietlyKeeps DEF ToggleDetached
<1>3. CASE ToggleAttached(o)
  <2>1. Remapped(list, list)
    BY SameIsRemapped DEF Regular, Typed
  <2> QED
    BY <1>1, <1>3, <2>1, NoOpGood, UpdateKeeps, QuietlyKeeps DEF ToggleAttached
<1> QED
  BY <1>2, <1>3

LEMMA RestoreKeeps ==
  ASSUME Regular, NEW o \in Ops,
         RestoreAsked(o) \/ RestoreCancelled(o) \/ RestorePicked(o) \/ RestoreRegistered(o)
  PROVE  Regular'
<1>1. op[o].kind = "restore" /\ ~Adding(op[o])
  BY DEF RestoreAsked, RestoreCancelled, RestorePicked, RestoreRegistered, Is, Adding
<1>2. Good(op[o]) /\ op[o].path \in Paths
  BY <1>1, OpIsGood DEF Good
<1> DEFINE r == [op[o] EXCEPT !.at = "register"]
           p == [op[o] EXCEPT !.at = "picker"]
<1>3. Good(r) /\ ~Adding(r)
  BY <1>2 DEF Good, OpFields, Adding
<1>4. Good(p) /\ ~Adding(p)
  BY <1>2 DEF Good, OpFields, Adding
<1> HIDE DEF r, p
<1>5. CASE RestoreAsked(o)
  BY <1>1, <1>3, <1>4, <1>5, QuietlyKeeps DEF RestoreAsked, r, p
<1>6. CASE RestoreCancelled(o)
  BY <1>1, <1>6, NoOpGood, QuietlyKeeps DEF RestoreCancelled
<1>7. CASE RestorePicked(o)
  <2>1. /\ handles' = handles \cup {[id |-> op[o].id, path |-> op[o].path]}
        /\ Goto(o, r) /\ UNCHANGED <<list, pending, nextId, stored>>
    BY <1>7 DEF RestorePicked, rest, r
  <2>2. \A h \in handles' : Handled(h)
    BY <1>2, <2>1 DEF Regular, Typed, Handled, Good
  <2>3. Onward(o, r)
    BY <1>1, <1>3, <2>1, <2>2 DEF Onward
  <2> QED
    BY <2>3, OnwardKeeps
<1>8. CASE RestoreRegistered(o)
  <2> DEFINE l == Updated(op[o].id, {[MarkRestored(s) EXCEPT !.handle = TRUE] : s \in Of(op[o].id)})
  <2>1. Remapped(list, l)
    BY MarkedIsRemapped DEF Regular, Typed
  <2>2. UpdateAndIntrospect(o, op[o], l) \/ Onward(o, NoOp)
    BY <1>1, <1>8, NoOpGood, HandlesStay DEF RestoreRegistered, rest, Onward
  <2> HIDE DEF l
  <2> QED
    BY <1>1, <1>2, <2>1, <2>2, UpdateKeeps, OnwardKeeps
<1> QED
  BY <1>5, <1>6, <1>7, <1>8

LEMMA SchemaReadKeeps ==
  ASSUME Regular, NEW o \in Ops, SchemaRead(o)
  PROVE  Regular'
<1>1. ~Adding(op[o]) /\ Good(op[o])
  BY OpIsGood DEF SchemaRead, Adding
<1>2. CASE Fails(o)
  BY <1>1, <1>2, FailsKeeps
<1>3. CASE ~Fails(o)
  <2>1. /\ list' = Updated(op[o].id, {MarkIntrospected(s) : s \in Of(op[o].id)})
        /\ Goto(o, Ended(op[o])) /\ UNCHANGED <<handles, pending, nextId, stored>>
    BY <1>3 DEF SchemaRead, SetList, rest
  <2>2. Remapped(list, list')
    BY <2>1, MarkedIsRemapped DEF Regular, Typed
  <2>3. Relisted
    BY <2>1, <2>2, HandlesStay DEF Relisted
  <2> QED
    BY <1>1, <2>1, <2>3, EndedGood, GoesOn
<1> QED
  BY <1>2, <1>3

LEMMA DeleteKeeps ==
  ASSUME Regular, NEW o \in Ops, DeleteDetached(o)
  PROVE  Regular'
<1>1. op[o].kind = "delete" /\ ~Adding(op[o])
  BY DEF DeleteDetached, Is, Adding
<1>2. op[o].path \in Paths
  BY <1>1, OpIsGood DEF Good
<1> DEFINE left == {s \in list : s.id = op[o].id}
           r == Operation("remove", "none", op[o].path)
<1>3. Good(r) /\ r.path \in Paths /\ r.kind = "remove"
  BY <1>2, OperationGood
<1> HIDE DEF r
<1>4. Quietly(o, NoOp) \/ (Remove(o, r, First(left), pending) /\ stored' = stored)
  BY DEF DeleteDetached, rest, r
<1> HIDE DEF left
<1> QED
  BY <1>1, <1>3, <1>4, NoOpGood, QuietlyKeeps, RemovesAlone

LEMMA ClearKeeps ==
  ASSUME Regular, NEW o \in Ops, ClearListed(o) \/ Cleared(o), ~wiped'
  PROVE  Regular'
<1>1. op[o].kind = "clear" /\ ~Adding(op[o]) /\ Good(op[o])
  BY OpIsGood DEF ClearListed, Cleared, Is, Adding
<1>2. CASE ClearListed(o)
  <2> DEFINE r == [op[o] EXCEPT !.at = "clear"]
  <2>1. Good(r) /\ ~Adding(r)
    BY <1>1 DEF Good, OpFields, Adding
  <2>2. ASSUME NEW a
        PROVE  LET q == [op[o] EXCEPT !.todo = @ \ {a}] IN Good(q) /\ ~Adding(q)
    BY <1>1 DEF Good, OpFields, Adding
  <2> HIDE DEF r
  <2>3. \/ \E a : Detaches(o, [op[o] EXCEPT !.todo = @ \ {a}], {a})
        \/ /\ Goto(o, r) \/ Goto(o, NoOp)
           /\ handles' \subseteq handles
           /\ UNCHANGED <<list, pending, nextId, stored>>
    BY <1>2 DEF ClearListed, rest, r
  <2>4. CASE \E a : Detaches(o, [op[o] EXCEPT !.todo = @ \ {a}], {a})
    BY <1>1, <2>2, <2>4, DetachesKeeps
  <2>5. CASE /\ Goto(o, r) \/ Goto(o, NoOp)
             /\ handles' \subseteq handles
             /\ UNCHANGED <<list, pending, nextId, stored>>
    <3>1. Onward(o, r) \/ Onward(o, NoOp)
      BY <1>1, <2>1, <2>5, NoOpGood, HandlesStay DEF Onward
    <3> QED
      BY <3>1, OnwardKeeps
  <2> QED
    BY <2>3, <2>4, <2>5
<1>3. CASE Cleared(o)
  <2>1. /\ list' = {} /\ stored' = {} /\ Goto(o, NoOp) /\ UNCHANGED <<handles, nextId>>
        /\ pending' = [p \in Paths |-> None]
        /\ \A p \in Paths : pending[p] = None
    BY <1>3 DEF Cleared, SetList
  <2>2. pending' = pending
    BY <2>1 DEF Regular, Typed
  <2>3. Relisted
    BY <2>1, HandlesStay DEF Relisted, Remapped
  <2> QED
    BY <1>1, <2>1, <2>2, <2>3, NoOpGood, GoesOn
<1> QED
  BY <1>2, <1>3

LEMMA StepKeeps ==
  ASSUME Regular, NEW o \in Ops, Step(o), ~wiped'
  PROVE  Regular'
BY UploadKeeps, ReplaceKeeps, OldKeeps, ReloadKeeps, ReattachKeeps, ToggleKeeps, RestoreKeeps,
   SchemaReadKeeps, DeleteKeeps, ClearKeeps DEF Step, rest

-----------------------------------------------------------------------------
(* What the user starts, and the page. *)

LEMMA BeginKeeps ==
  ASSUME Regular, NEW o \in Ops, NEW r, Good(r), ~Adding(r), Begin(o, r)
  PROVE  Regular'
<1>1. ~Adding(op[o])
  BY NoOpGood DEF Begin, Start
<1>2. Onward(o, r)
  BY <1>1, HandlesStay DEF Begin, Start, Onward
<1> QED
  BY <1>2, OnwardKeeps

LEMMA UserKeeps ==
  ASSUME Regular, NEW o \in Ops, UserStarts(o)
  PROVE  Regular'
<1>1. \A s \in list : s.path \in Paths /\ s.id \in Nat
  BY DEF Regular, Typed, Numbered
<1>2. ASSUME NEW p \in Paths, NEW drag \in BOOLEAN, Upload(o, p, drag)
      PROVE  Regular'
  <2> DEFINE q == Operation("upload", "register", p)
             r == [q EXCEPT !.new = [attached |-> FALSE, handle |-> ~drag, volatile |-> drag]]
  <2>1. Good(q) /\ q.at = "register"
    BY OperationGood
  <2> HIDE DEF q
  <2>2. Good(r) /\ ~Adding(r)
    BY <2>1 DEF Good, OpFields, Adding
  <2> QED
    BY <1>2, <2>2, BeginKeeps DEF Upload, q
<1>3. ASSUME NEW p \in Paths, ReloadFile(o, p)
      PROVE  Regular'
  <2>1. Good(Operation("replace", "register", p)) /\ ~Adding(Operation("replace", "register", p))
    BY OperationGood DEF Adding
  <2> QED
    BY <1>3, <2>1, BeginKeeps DEF ReloadFile
<1>4. ASSUME NEW s \in list, Reattach(o, s)
      PROVE  Regular'
  <2> DEFINE q == Operation("reattach", "register", s.path)
             r == [q EXCEPT !.id = s.id]
  <2>1. Good(q) /\ q.at = "register"
    BY <1>1, OperationGood
  <2> HIDE DEF q
  <2>2. Good(r) /\ ~Adding(r)
    BY <1>1, <2>1 DEF Good, OpFields, Adding
  <2> QED
    BY <1>4, <2>2, BeginKeeps DEF Reattach, q
<1>5. ASSUME NEW s \in list, RestoreAccess(o, s)
      PROVE  Regular'
  <2> DEFINE q == Operation("restore", "ask", s.path)
             r == [q EXCEPT !.id = s.id, !.ok = (\E h \in handles : h.id = s.id)]
  <2>1. Good(q) /\ q.at = "ask"
    BY <1>1, OperationGood
  <2> HIDE DEF q
  <2>2. Good(r) /\ ~Adding(r)
    BY <1>1, <2>1 DEF Good, OpFields, Adding
  <2> QED
    BY <1>5, <2>2, BeginKeeps DEF RestoreAccess, q
<1>6. ASSUME NEW s \in list, ToggleWriteMode(o, s)
      PROVE  Regular'
  <2> DEFINE q == Operation("toggle", "detach", s.path)
             r == [q EXCEPT !.id = s.id, !.ok = (db[AliasOf[s.path]] # None)]
  <2>1. Good(q) /\ q.at = "detach"
    BY <1>1, OperationGood
  <2> HIDE DEF q
  <2>2. Good(r) /\ ~Adding(r)
    BY <1>1, <2>1 DEF Good, OpFields, Adding
  <2> HIDE DEF r
  <2>3. Onward(o, r)
    BY <1>6, <2>2, NoOpGood, HandlesStay DEF ToggleWriteMode, Start, Onward, r, q
  <2> QED
    BY <2>3, OnwardKeeps
<1>7. ASSUME NEW s \in list, Refresh(o, s)
      PROVE  Regular'
  <2> DEFINE q == Operation("refresh", "introspect", s.path)
             r == [q EXCEPT !.id = s.id]
  <2>1. Good(q)
    BY <1>1, OperationGood
  <2> HIDE DEF q
  <2>2. Good(r)
    BY <1>1, <2>1 DEF Good, OpFields
  <2> HIDE DEF r
  <2>3. PICK x : Goto(o, x) /\ Good(x) /\ ~Adding(x)
    BY <1>7, <2>2, IntrospectSchemaMoves DEF Refresh, q, r
  <2>4. Onward(o, x)
    BY <1>7, <2>3, NoOpGood, HandlesStay DEF Refresh, Start, Onward
  <2> QED
    BY <2>4, OnwardKeeps
<1>8. ASSUME NEW s \in list, DeleteFile(o, s)
      PROVE  Regular'
  <2> DEFINE r == Operation("remove", "none", s.path)
  <2>1. Good(r) /\ r.path \in Paths /\ r.kind = "remove"
    BY <1>1, OperationGood
  <2> HIDE DEF r
  <2>2. Remove(o, r, s, pending) /\ stored' = stored /\ ~Adding(op[o])
    BY <1>8, NoOpGood DEF DeleteFile, Start, r
  <2> QED
    BY <2>1, <2>2, RemovesAlone
<1>9. ASSUME NEW s \in list, DeleteDatabase(o, s)
      PROVE  Regular'
  <2> DEFINE same == {x \in list : x.named /\ AliasOf[x.path] = AliasOf[s.path]}
             t == IF s.named THEN First(same) ELSE s
             q == Operation("delete", "detach", t.path)
             d == [q EXCEPT !.id = t.id, !.ok = (db[AliasOf[t.path]] # None)]
             r == Operation("remove", "none", t.path)
  <2>1. t \in list
    <3>1. CASE s.named
      <4>1. First(same) \in same
        BY <1>1, <3>1, FirstIsThere
      <4> QED
        BY <3>1, <4>1
    <3>2. CASE ~s.named
      BY <3>2
    <3> QED
      BY <3>1, <3>2
  <2>2. /\ Start(o)
        /\ \/ Goto(o, d) /\ UNCHANGED <<list, pending, nextId, handles>>
           \/ Remove(o, r, t, pending)
    BY <1>9 DEF DeleteDatabase
  <2> HIDE DEF t
  <2>3. Good(q) /\ q.at = "detach"
    BY <1>1, <2>1, OperationGood
  <2> HIDE DEF q
  <2>4. Good(d) /\ ~Adding(d)
    BY <1>1, <2>1, <2>3 DEF Good, OpFields, Adding
  <2>5. Good(r) /\ r.path \in Paths /\ r.kind = "remove"
    BY <1>1, <2>1, OperationGood
  <2> HIDE DEF d, r
  <2>6. ~Adding(op[o]) /\ stored' = stored
    BY <2>2, NoOpGood DEF Start
  <2>7. CASE Goto(o, d) /\ UNCHANGED <<list, pending, nextId, handles>>
    <3>1. Onward(o, d)
      BY <2>4, <2>6, <2>7, HandlesStay DEF Onward
    <3> QED
      BY <3>1, OnwardKeeps
  <2>8. CASE Remove(o, r, t, pending)
    BY <2>5, <2>6, <2>8, RemovesAlone
  <2> QED
    BY <2>2, <2>7, <2>8
<1>10. ASSUME Clear(o)
       PROVE  Regular'
  <2> DEFINE q == Operation("clear", "list", None)
             r == [q EXCEPT !.todo = {a \in Aliases : db[a] # None}]
  <2>1. Good(q) /\ q.at = "list" /\ q.kind = "clear"
    BY OperationGood
  <2> HIDE DEF q
  <2>2. Good(r) /\ ~Adding(r)
    BY <2>1 DEF Good, OpFields, Adding
  <2> QED
    BY <1>10, <2>2, BeginKeeps DEF Clear, q
<1> QED
  BY <1>2, <1>3, <1>4, <1>5, <1>6, <1>7, <1>8, <1>9, <1>10 DEF UserStarts

LEMMA IntrospectedKeeps ==
  ASSUME Regular, Introspects
  PROVE  Regular'
<1>1. PICK i \in intro : Introspected(i)
  BY DEF Introspects
<1>2. Remapped(list, list') /\ UNCHANGED <<op, pending, nextId, handles, stored>>
  BY <1>1, MarkedIsRemapped DEF Introspected, SetList, rest, Regular, Typed
<1>3. Relisted
  BY <1>2, HandlesStay DEF Relisted
<1> QED
  BY <1>2, <1>3, StandsStill

LEMMA SaveKeeps ==
  ASSUME Regular, Save
  PROVE  Regular'
<1>1. UNCHANGED <<list, op, pending, nextId, handles>> /\ stored' = list
  BY DEF Save
<1>2. Relisted
  BY <1>1, SameIsRemapped, HandlesStay DEF Relisted, Regular, Typed
<1> QED
  BY <1>1, <1>2, StandsStill

\* What is loaded has each path once, whatever was saved.
LEMMA LoadedOnce ==
  ASSUME NEW n \in Nat, NEW l, Numbered(l, n)
  PROVE  /\ Numbered(Loaded(l), n)
         /\ \A s, t \in Loaded(l) : s.path = t.path => s = t
<1> DEFINE K == {x \in l : ~x.volatile /\ \A y \in l : y.path = x.path => y.id <= x.id}
           F(s) == [s EXCEPT !.attached = FALSE, !.failed = (s.path \in Files /\ ~s.handle)]
<1>1. \A s \in K : DOMAIN F(s) = SourceFields /\ F(s).id = s.id /\ F(s).path = s.path
  BY DEF Numbered, SourceFields
<1>2. \A s, t \in K : s.path = t.path => s = t
  BY DEF Numbered
<1>3. Loaded(l) = {F(s) : s \in K}
  BY DEF Loaded
<1>4. \A s \in K : s \in l
  OBVIOUS
<1> HIDE DEF K, F
<1>5. Numbered(Loaded(l), n)
  BY <1>1, <1>3, <1>4 DEF Numbered
<1> QED
  BY <1>1, <1>2, <1>3, <1>5

\* On a page that has just been loaded nothing is under way but the reload of the
\* handles.
LEMMA FreshOperation ==
  ASSUME NEW H, \A h \in H : Handled(h)
  PROVE  LET r == NextHandle([NoOp EXCEPT !.kind = "reload", !.todo = H]) IN
         Good(r) /\ ~Adding(r)
<1> DEFINE r == [NoOp EXCEPT !.kind = "reload", !.todo = H]
<1>1. r.kind = "reload" /\ r.todo = H /\ DOMAIN r = OpFields
  BY DEF NoOp, OpFields
<1> HIDE DEF r
<1>2. Good(NextHandle(r)) /\ ~Adding(NextHandle(r))
  BY <1>1, NextHandleIsGood
<1> QED
  BY <1>2 DEF r

LEMMA RestartKeeps ==
  ASSUME Regular, NEW flush \in BOOLEAN, Restart(flush)
  PROVE  Regular'
<1> DEFINE saved == IF flush THEN list ELSE stored
           r == NextHandle([NoOp EXCEPT !.kind = "reload", !.todo = handles])
<1>1. /\ stored' = saved /\ list' = Loaded(saved) /\ nextId' = nextId /\ handles' = handles
      /\ pending' = [p \in Paths |-> None]
      /\ op' = [x \in Ops |-> IF x = FirstOp THEN r ELSE NoOp]
  BY DEF Restart
<1>2. Numbered(saved, nextId) /\ nextId \in Nat /\ \A h \in handles : Handled(h)
  BY DEF Regular, Typed
<1> HIDE DEF saved
<1>3. Good(r) /\ ~Adding(r)
  BY <1>2, FreshOperation
<1> HIDE DEF r
<1>4. /\ Numbered(list', nextId) /\ Numbered(stored', nextId)
      /\ \A s, t \in list' : s.path = t.path => s = t
  BY <1>1, <1>2, LoadedOnce
<1>5. DOMAIN op' = Ops /\ \A x \in Ops : Good(op'[x]) /\ ~Adding(op'[x])
  BY <1>1, <1>3, NoOpGood
<1>6. pending' \in [Paths -> Ops \cup {None}] /\ \A p \in Paths : pending'[p] = None
  BY <1>1
<1>7. Typed'
  BY <1>1, <1>2, <1>4, <1>5, <1>6 DEF Typed
<1>8. Reserved' /\ OnlyReserved' /\ OncePerPath'
  BY <1>4, <1>5, <1>6 DEF Reserved, OnlyReserved, OncePerPath
<1> QED
  BY <1>7, <1>8 DEF Regular

LEMMA NextKeeps ==
  ASSUME Regular, [Next]_vars, ~wiped'
  PROVE  Regular'
<1>1. CASE UNCHANGED vars
  <2>1. Relisted
    BY <1>1, ListStays DEF vars, Regular, Typed
  <2> QED
    BY <1>1, <2>1, StandsStill DEF vars
<1>2. CASE Next
  BY <1>2, UserKeeps, StepKeeps, RestoreKeeps, RestartKeeps, IntrospectedKeeps, SaveKeeps
     DEF Next
<1> QED
  BY <1>1, <1>2

LEMMA FailsIsQuiet ==
  ASSUME NEW o, Fails(o)
  PROVE  wiped' = wiped
BY DEF Fails, ReloadFails, Forget, rest

LEMMA ReattachedIsQuiet ==
  ASSUME NEW o, NEW r, Reattached(o, r)
  PROVE  wiped' = wiped
BY DEF Reattached, UpdateAndIntrospect, rest

\* A list that was cleared while a source was being added is never one that was not.
LEMMA WipedStays ==
  ASSUME wiped, [Next]_vars
  PROVE  wiped'
<1>1. ASSUME NEW o \in Ops, UserStarts(o)
      PROVE  wiped' = wiped
  BY <1>1 DEF UserStarts, Upload, ReloadFile, Reattach, RestoreAccess, ToggleWriteMode, Refresh,
              DeleteFile, DeleteDatabase, Clear, Begin, Start
<1>2. ASSUME NEW o \in Ops, Step(o)
      PROVE  wiped'
  <2>1. CASE \/ UploadRegistered(o) \/ UploadDetached(o) \/ UploadAttached(o)
             \/ UploadStored(o) \/ UploadUnstored(o) \/ ReplaceRegistered(o) \/ ReplaceAttached(o)
    BY <2>1 DEF UploadRegistered, UploadDetached, UploadAttached, UploadStored, UploadUnstored,
                ReplaceRegistered, ReplaceAttached, Quietly, Detaches, Attaches, rest
  <2>2. CASE \/ (OldDetached(o) \/ OldUnhandled(o)) /\ UNCHANGED rest
             \/ ReloadPermit(o) \/ ReloadForgotten(o) \/ ReloadVerified(o)
    BY <2>2, FailsIsQuiet DEF ReloadPermit, ReloadForgotten, ReloadVerified, ReloadFails, Quietly, rest
  <2>3. CASE \/ Registered(o) \/ ReattachDenied(o) \/ Checked(o) \/ MadeRoom(o) \/ AttachAnswered(o)
    BY <2>3, FailsIsQuiet, ReattachedIsQuiet
       DEF Registered, ReattachDenied, Checked, MadeRoom, AttachAnswered, Quietly, Detaches,
           Attaches, rest
  <2>4. CASE \/ ToggleDetached(o) \/ ToggleAttached(o) \/ RestoreAsked(o) \/ RestoreRegistered(o)
    BY <2>4 DEF ToggleDetached, ToggleAttached, RestoreAsked, RestoreRegistered,
                UpdateAndIntrospect, Quietly, Attaches, rest
  <2>5. CASE SchemaRead(o) \/ DeleteDetached(o) \/ ClearListed(o) \/ Cleared(o)
    BY <2>5, FailsIsQuiet DEF SchemaRead, DeleteDetached, ClearListed, Cleared, Quietly, Detaches, rest
  <2> QED
    BY <1>2, <2>1, <2>2, <2>3, <2>4, <2>5 DEF Step
<1>3. ASSUME NEW o \in Ops, RestoreCancelled(o) \/ RestorePicked(o)
      PROVE  wiped' = wiped
  BY <1>3 DEF RestoreCancelled, RestorePicked, Quietly, rest
<1>4. ASSUME (\E flush \in BOOLEAN : Restart(flush)) \/ Introspects \/ Save
      PROVE  wiped' = wiped
  BY <1>4 DEF Restart, Introspects, Introspected, Save, rest
<1> QED
  BY <1>1, <1>2, <1>3, <1>4 DEF Next, vars

\* What an earlier session has left are different files.
LEMMA EarlierOnce ==
  ASSUME NEW S \in Earlier
  PROVE  /\ S \in Seq(Paths)
         /\ \A i, j \in DOMAIN S : S[i] = S[j] => i = j
<1>1. CASE S = <<>>
  BY <1>1
<1>2. ASSUME NEW p \in Paths, S = <<p>>
      PROVE  S \in Seq(Paths) /\ \A i, j \in DOMAIN S : S[i] = S[j] => i = j
  <2>1. Len(S) = 1 /\ S \in Seq(Paths)
    BY <1>2
  <2>2. DOMAIN S = 1 .. 1
    BY <2>1
  <2> QED
    BY <2>1, <2>2
<1>3. ASSUME NEW p \in Databases, NEW q \in Files, S = <<p, q>>
      PROVE  S \in Seq(Paths) /\ \A i, j \in DOMAIN S : S[i] = S[j] => i = j
  <2>1. p \in Paths /\ q \in Paths /\ p # q
    BY DisjointAssumption DEF Paths
  <2>2. Len(S) = 2 /\ S \in Seq(Paths) /\ S[1] = p /\ S[2] = q
    BY <1>3, <2>1
  <2>3. DOMAIN S = 1 .. 2
    BY <2>2
  <2> QED
    BY <2>1, <2>2, <2>3
<1> QED
  BY <1>1, <1>2, <1>3 DEF Earlier

LEMMA InitRegular ==
  ASSUME Init
  PROVE  Regular
<1>1. PICK S \in Earlier, over \in BOOLEAN :
        /\ list = Left(S, over) /\ stored = list
        /\ handles = {[id |-> i, path |-> S[i]] : i \in DOMAIN S}
        /\ nextId = Len(S) + 1
        /\ op = [x \in Ops |-> IF x = FirstOp /\ ~over
                              THEN NextHandle([NoOp EXCEPT !.kind = "reload", !.todo = handles])
                              ELSE NoOp]
        /\ pending = [p \in Paths |-> None]
  BY DEF Init
<1>2. /\ S \in Seq(Paths) /\ \A i, j \in DOMAIN S : S[i] = S[j] => i = j
  BY EarlierOnce
<1>3. /\ nextId \in Nat /\ DOMAIN S = 1 .. nextId - 1 /\ \A i \in DOMAIN S : S[i] \in Paths
  <2>1. Len(S) \in Nat /\ DOMAIN S = 1 .. Len(S)
    BY <1>2
  <2>2. \A i \in DOMAIN S : S[i] \in Paths
    BY <1>2, <2>1
  <2>3. nextId = Len(S) + 1
    BY <1>1
  <2>4. nextId \in Nat /\ nextId - 1 = Len(S)
    BY <2>1, <2>3
  <2> QED
    BY <2>1, <2>2, <2>4
<1> DEFINE F(i) == [id |-> i, path |-> S[i], attached |-> over /\ S[i] \in Databases,
                    named |-> S[i] \in Databases, handle |-> TRUE, volatile |-> FALSE,
                    failed |-> FALSE, busy |-> FALSE]
<1>a. list = {F(i) : i \in DOMAIN S}
  BY <1>1 DEF Left
<1>b. \A i : DOMAIN F(i) = SourceFields /\ F(i).id = i /\ F(i).path = S[i]
  BY DEF SourceFields
<1> HIDE DEF F
<1>4. \A s \in list : DOMAIN s = SourceFields /\ s.id \in DOMAIN S /\ s.path = S[s.id]
  BY <1>a, <1>b
<1>5. \A s, t \in list : s.id = t.id => s = t
  BY <1>a, <1>b
<1>6. Numbered(list, nextId) /\ OncePerPath
  BY <1>2, <1>3, <1>4, <1>5 DEF Numbered, OncePerPath
<1>7. \A h \in handles : Handled(h)
  <2>1. \A i \in DOMAIN S : i \in Nat /\ S[i] \in Paths
    BY <1>3
  <2>2. handles = {[id |-> i, path |-> S[i]] : i \in DOMAIN S}
    BY <1>1
  <2>3. ASSUME NEW h \in handles PROVE Handled(h)
    <3>1. PICK i \in DOMAIN S : h = [id |-> i, path |-> S[i]]
      BY <2>2
    <3>2. h.id = i /\ h.path = S[i]
      BY <3>1
    <3> QED
      BY <2>1, <3>2 DEF Handled
  <2> QED
    BY <2>3
<1> DEFINE r == NextHandle([NoOp EXCEPT !.kind = "reload", !.todo = handles])
<1>8. Good(r) /\ ~Adding(r)
  BY <1>7, FreshOperation
<1>9. op = [x \in Ops |-> IF x = FirstOp /\ ~over THEN r ELSE NoOp]
  BY <1>1
<1> HIDE DEF r
<1>10. DOMAIN op = Ops /\ \A x \in Ops : Good(op[x]) /\ ~Adding(op[x])
  BY <1>8, <1>9, NoOpGood
<1>11. pending \in [Paths -> Ops \cup {None}] /\ \A p \in Paths : pending[p] = None
  BY <1>1
<1>12. Typed
  BY <1>1, <1>3, <1>6, <1>7, <1>10, <1>11 DEF Typed
<1>13. Reserved /\ OnlyReserved
  BY <1>10, <1>11 DEF Reserved, OnlyReserved
<1> QED
  BY <1>6, <1>12, <1>13 DEF Regular

-----------------------------------------------------------------------------
(* The theorems. *)

\* Unless the list was cleared while a source was being added, in every reachable
\* state an addition that waits for the source it replaces to go is the pending
\* one of its path, nothing else is pending, and each path is in the list once:
\* the invariant of addDataSource and pendingOperations.
THEOREM Invariance == Spec => []IInv
<1>1. Init => IInv
  BY InitRegular DEF IInv
<1>2. IInv /\ [Next]_vars => IInv'
  BY NextKeeps, WipedStays DEF IInv
<1> QED
  BY <1>1, <1>2, PTL DEF Spec

\* A file is in the list once, whatever uploads, reloads and removals of any
\* number of files overlap, unless the list was cleared while one was being added.
THEOREM OncePerFile == Spec => []UniquePaths
<1>1. IInv => UniquePaths
  BY DEF IInv, Regular, OncePerPath, UniquePaths
<1> QED
  BY <1>1, Invariance, PTL

-----------------------------------------------------------------------------
(* The type invariant. *)

Kinds == {"none", "upload", "replace", "reload", "reattach", "toggle", "refresh",
          "restore", "delete", "remove", "clear"}
Ats == {"none", "register", "detach", "attach", "store", "unstored", "joined", "detached",
        "unhandled", "permit", "check", "verify", "forget", "introspect", "ask", "picker",
        "list", "clear"}
Ids(n) == 0 .. n - 1
Olds(n) == [id : Ids(n), handle : BOOLEAN]
Todos == SUBSET (Handle \cup Aliases)
OpIn(n) ==
  [kind : Kinds, at : Ats, path : Paths \cup {None}, id : Ids(n), hid : Ids(n), ok : BOOLEAN,
   new : New, old : Olds(n), peer : Ops \cup {None}, todo : Todos]

HandlesTo(n) == {h \in Handle : h.id < n}
IntrosTo(n) == {i \in [id : Nat \ {0}, ok : BOOLEAN] : i.id < n}
Dbs == [Aliases -> Databases \cup {None}]
Pendings == [Paths -> Ops \cup {None}]

Sourced(s, n) == s \in Source /\ s.id < n /\ (s.attached => s.named /\ s.path \in Databases)
Listed(l, n) == (\A s \in l : Sourced(s, n)) /\ \A s, t \in l : s.id = t.id => s = t

\* What an operation needs of its own record.
Suited(r, n) ==
  /\ r.kind \notin {"none", "clear"} => r.path \in Paths
  /\ r.kind = "reload" => r.todo \subseteq HandlesTo(n)
  /\ r.at \in {"detach", "attach", "check"} => r.path \in Databases
  /\ r.new.attached => r.path \in Databases
  /\ r.kind = "none" => r = NoOp
  /\ r.kind = "clear" => r.at \in {"list", "clear"}
  /\ r.kind = "restore" => r.id # 0
Proper(r, n) == r \in OpIn(n) /\ Suited(r, n)

\* The source it is about to mark is one of its path.
Marks(r) ==
  \/ r.kind \in {"reload", "reattach"} /\ r.at \in {"check", "detach", "attach"}
  \/ r.kind = "reattach" /\ r.at = "register"
Known(r, l) == Marks(r) => \A s \in l : s.id = r.id => s.path = r.path

TInv ==
  /\ nextId \in Nat \ {0}
  /\ Listed(list, nextId) /\ Listed(stored, nextId)
  /\ handles \subseteq HandlesTo(nextId) /\ intro \subseteq IntrosTo(nextId)
  /\ DOMAIN op = Ops /\ op = [x \in Ops |-> op[x]]
  /\ \A o \in Ops : Proper(op[o], nextId) /\ Known(op[o], list)
  /\ pending \in Pendings /\ db \in Dbs
  /\ {dirty, crossed, faulty, wiped} \subseteq BOOLEAN
  /\ starts \in 0 .. MaxStarts

LEMMA TInvIsTyped == TInv => TypeOK
<1> SUFFICES ASSUME TInv PROVE TypeOK
  OBVIOUS
<1>1. /\ list \subseteq Source /\ stored \subseteq Source
      /\ \A s \in list \cup stored : s.id < nextId
      /\ \A s, t \in list : s.id = t.id => s = t
      /\ \A s \in list : s.attached => s.named /\ s.path \in Databases
  BY DEF TInv, Listed, Sourced
<1>2. handles \subseteq Handle /\ \A h \in handles : h.id < nextId
  BY DEF TInv, HandlesTo
<1>3. intro \subseteq [id : Nat \ {0}, ok : BOOLEAN] /\ \A i \in intro : i.id < nextId
  BY DEF TInv, IntrosTo
<1>4. OpIn(nextId) = OpType
  BY DEF OpType, OpIn, Kinds, Ats, Ids, Olds, Todos
<1>5. op \in [Ops -> OpType]
  BY <1>4 DEF TInv, Proper
<1> QED BY <1>1, <1>2, <1>3, <1>5 DEF TInv, TypeOK, Dbs, Pendings

-----------------------------------------------------------------------------
(* The records of operations. *)

\* The fields of a record that an operation may have.
LEMMA FieldsOfOp ==
  ASSUME NEW n, NEW r \in OpIn(n)
  PROVE  /\ r.kind \in Kinds /\ r.at \in Ats /\ r.path \in Paths \cup {None} /\ r.id \in Ids(n)
         /\ r.hid \in Ids(n) /\ r.ok \in BOOLEAN /\ r.new \in New /\ r.old \in Olds(n)
         /\ r.peer \in Ops \cup {None} /\ r.todo \in Todos
         /\ DOMAIN r = OpFields
BY DEF OpIn, OpFields

LEMMA AtIn ==
  /\ "none" \in Ats /\ "register" \in Ats /\ "detach" \in Ats /\ "attach" \in Ats
  /\ "store" \in Ats /\ "unstored" \in Ats /\ "joined" \in Ats /\ "detached" \in Ats
  /\ "unhandled" \in Ats /\ "permit" \in Ats /\ "check" \in Ats /\ "verify" \in Ats
  /\ "forget" \in Ats /\ "introspect" \in Ats /\ "ask" \in Ats /\ "picker" \in Ats
  /\ "list" \in Ats /\ "clear" \in Ats
BY DEF Ats

LEMMA NoOpIn == ASSUME NEW n \in Nat \ {0} PROVE NoOp \in OpIn(n)
<1>1. 0 \in Ids(n)
  BY DEF Ids
<1>2. NoNew \in New
  BY DEF NoNew, New
<1>3. NoOld \in Olds(n)
  BY <1>1 DEF NoOld, Olds
<1>4. "none" \in Kinds /\ "none" \in Ats /\ {} \in Todos
  BY DEF Kinds, Ats, Todos
<1> QED BY <1>1, <1>2, <1>3, <1>4 DEF NoOp, OpIn

LEMMA NoOpProper ==
  ASSUME NEW n \in Nat \ {0}, NEW l PROVE Proper(NoOp, n) /\ Known(NoOp, l)
<1>1. NoOp.kind = "none" /\ NoOp.at = "none" /\ ~NoOp.new.attached
  BY DEF NoOp, NoNew
<1> QED BY <1>1, NoOpIn DEF Proper, Suited, Known, Marks

LEMMA NextHandleIn ==
  ASSUME NEW n \in Nat \ {0}, NEW r \in OpIn(n), r.kind = "reload", NEW h \in HandlesTo(n),
         NEW todo \in Todos, todo \subseteq HandlesTo(n), NEW l,
         NEW q, q = [r EXCEPT !.at = "permit", !.path = h.path, !.hid = h.id, !.id = 0,
                            !.ok = FALSE, !.new = NoNew, !.old = NoOld, !.todo = todo]
  PROVE  Proper(q, n) /\ Known(q, l)
<1>1. h.path \in Paths /\ h.id \in Ids(n)
  BY DEF HandlesTo, Handle, Ids
<1>2. 0 \in Ids(n) /\ NoNew \in New
  BY DEF Ids, NoNew, New
<1>3. NoOld \in Olds(n)
  BY <1>2 DEF NoOld, Olds
<1>4. q \in OpIn(n)
  BY <1>1, <1>2, <1>3, AtIn DEF OpIn
<1>5. q.at = "permit" /\ q.kind = "reload" /\ q.path = h.path /\ q.new = NoNew /\ q.todo = todo
  BY DEF OpIn
<1> QED BY <1>1, <1>4, <1>5 DEF Proper, Suited, Known, Marks, NoNew

LEMMA NextHandleProper ==
  ASSUME NEW n \in Nat \ {0}, NEW r \in OpIn(n), r.kind = "reload", r.todo \subseteq HandlesTo(n), NEW l
  PROVE  Proper(NextHandle(r), n) /\ Known(NextHandle(r), l)
<1>1. CASE r.todo = {}
  BY <1>1, NoOpProper DEF NextHandle
<1>2. CASE r.todo # {}
  <2> DEFINE h == First(r.todo)
             todo == {x \in r.todo : x.path # h.path}
             q == [r EXCEPT !.at = "permit", !.path = h.path, !.hid = h.id, !.id = 0,
                            !.ok = FALSE, !.new = NoNew, !.old = NoOld, !.todo = todo]
  <2>1. h \in r.todo
    <3>1. \A s \in r.todo : s.id \in Nat
      BY DEF HandlesTo, Handle
    <3> QED BY <1>2, <3>1, FirstIsThere
  <2>2. NextHandle(r) = q
    BY <1>2, FieldsOfOp DEF NextHandle, OpFields
  <2>3. todo \subseteq HandlesTo(n) /\ todo \in Todos
    BY DEF HandlesTo, Todos
  <2> HIDE DEF h, todo
  <2>4. Proper(q, n) /\ Known(q, l)
    BY <2>1, <2>3, NextHandleIn
  <2> QED BY <2>2, <2>4
<1> QED BY <1>1, <1>2

LEMMA EndedProper ==
  ASSUME NEW n \in Nat \ {0}, NEW r, Proper(r, n), NEW l
  PROVE  Proper(Ended(r), n) /\ Known(Ended(r), l)
BY NoOpProper, NextHandleProper DEF Ended, Proper, Suited

LEMMA MovedProper ==
  ASSUME NEW n \in Nat \ {0}, NEW r, Proper(r, n), r.kind \notin {"none", "clear"},
         NEW at \in {"register", "detach", "attach", "detached", "unhandled", "check", "verify",
                         "forget", "introspect", "picker"},
         at \in {"detach", "attach", "check"} => r.path \in Databases
  PROVE  Proper([r EXCEPT !.at = at], n)
<1>1. at \in Ats
  BY AtIn
<1>2. [r EXCEPT !.at = at] \in OpIn(n)
  BY <1>1 DEF Proper, OpIn
<1> QED BY <1>2 DEF Proper, Suited, OpIn

LEMMA AnsweredProper ==
  ASSUME NEW n \in Nat \ {0}, NEW r, Proper(r, n), r.kind \notin {"none", "clear"},
         NEW at \in {"attach", "introspect"}, NEW ok \in BOOLEAN,
         at = "attach" => r.path \in Databases
  PROVE  /\ Proper([r EXCEPT !.at = at, !.ok = ok], n)
         /\ [r EXCEPT !.at = at, !.ok = ok].at = at /\ [r EXCEPT !.at = at, !.ok = ok].kind = r.kind
         /\ [r EXCEPT !.at = at, !.ok = ok].id = r.id /\ [r EXCEPT !.at = at, !.ok = ok].path = r.path
<1>1. at \in Ats
  BY AtIn
<1>2. [r EXCEPT !.at = at, !.ok = ok] \in OpIn(n)
  BY <1>1 DEF Proper, OpIn
<1> QED BY <1>2 DEF Proper, Suited, OpIn

LEMMA WiderProper ==
  ASSUME NEW n \in Nat \ {0}, NEW r, Proper(r, n)
  PROVE  Proper(r, n + 1)
<1>1. Ids(n) \subseteq Ids(n + 1) /\ HandlesTo(n) \subseteq HandlesTo(n + 1)
  BY DEF Ids, HandlesTo, Handle
<1>2. Olds(n) \subseteq Olds(n + 1)
  BY <1>1 DEF Olds
<1>3. r \in OpIn(n + 1)
  BY <1>1, <1>2 DEF Proper, OpIn
<1> QED BY <1>1, <1>3 DEF Proper, Suited

LEMMA ResumedProper ==
  ASSUME NEW n \in Nat \ {0}, NEW r, Proper(r, n), r.kind \notin {"none", "clear"},
         NEW s, s.id \in Ids(n), s.id # 0, NEW ok \in BOOLEAN, NEW done \in BOOLEAN, NEW l
  PROVE  Proper(Resumed(r, s, ok, done), n) /\ Known(Resumed(r, s, ok, done), l)
<1> DEFINE at == IF done THEN "store" ELSE "unstored"
           a == [r EXCEPT !.id = s.id, !.peer = None, !.at = at]
           b == [r EXCEPT !.id = s.id, !.peer = None, !.at = "introspect", !.ok = ok]
<1>1. at \in Ats /\ at \in {"store", "unstored"}
  BY AtIn
<1> HIDE DEF at
<1>2. a \in OpIn(n) /\ b \in OpIn(n)
  BY <1>1, AtIn DEF Proper, OpIn
<1>3. /\ a.at = at /\ a.kind = r.kind /\ a.path = r.path /\ a.new = r.new /\ a.todo = r.todo /\ a.id = s.id
      /\ b.at = "introspect" /\ b.kind = r.kind /\ b.path = r.path /\ b.new = r.new /\ b.todo = r.todo /\ b.id = s.id
  BY DEF Proper, OpIn
<1> HIDE DEF a, b
<1>4. Proper(a, n) /\ Known(a, l)
  BY <1>1, <1>2, <1>3 DEF Proper, Suited, Known, Marks
<1>5. Proper(b, n) /\ Known(b, l)
  BY <1>2, <1>3 DEF Proper, Suited, Known, Marks
<1> QED BY <1>4, <1>5, EndedProper DEF Resumed, a, b, at

LEMMA OperationIn ==
  ASSUME NEW n \in Nat \ {0}, NEW k \in Kinds, NEW a \in Ats, NEW p \in Paths
  PROVE  /\ Operation(k, a, p) \in OpIn(n)
         /\ Operation(k, a, p).kind = k /\ Operation(k, a, p).at = a /\ Operation(k, a, p).path = p
         /\ Operation(k, a, p).id = 0 /\ Operation(k, a, p).new = NoNew /\ Operation(k, a, p).todo = {}
<1>1. Operation(k, a, p) \in OpIn(n)
  BY NoOpIn DEF Operation, OpIn
<1>2. /\ Operation(k, a, p).kind = k /\ Operation(k, a, p).at = a /\ Operation(k, a, p).path = p
      /\ Operation(k, a, p).id = 0 /\ Operation(k, a, p).new = NoNew /\ Operation(k, a, p).todo = {}
  BY DEF NoOp, Operation
<1> QED BY <1>1, <1>2

LEMMA KindIn ==
  /\ "upload" \in Kinds /\ "replace" \in Kinds /\ "reload" \in Kinds /\ "reattach" \in Kinds
  /\ "toggle" \in Kinds /\ "refresh" \in Kinds /\ "restore" \in Kinds /\ "delete" \in Kinds
  /\ "remove" \in Kinds /\ "clear" \in Kinds
BY DEF Kinds

-----------------------------------------------------------------------------
(* Lists of sources. *)

\* The list m is l, but for marks and for sources that are gone.
Kept(l, m, n) ==
  /\ \A t \in m : Sourced(t, n) /\ \E s \in l : s.id = t.id /\ s.path = t.path
  /\ \A t, u \in m : t.id = u.id => t = u

LEMMA SubsetKept ==
  ASSUME NEW n, NEW l, Listed(l, n), NEW m, m \subseteq l PROVE Kept(l, m, n)
BY DEF Listed, Kept

LEMMA UpdatedKept ==
  ASSUME NEW n, Listed(list, n), NEW i, NEW S,
         \A t \in S : Sourced(t, n) /\ \E s \in Of(i) : s.id = t.id /\ s.path = t.path,
         \A t, u \in S : t = u
  PROVE  Kept(list, Updated(i, S), n)
BY DEF Listed, Kept, Updated, Without, Of

LEMMA OfIsOne ==
  ASSUME NEW n, Listed(list, n), NEW i, NEW s \in Of(i), NEW t \in Of(i)
  PROVE  s = t /\ s \in list /\ s.id = i /\ Sourced(s, n)
BY DEF Listed, Of

LEMMA MarkIntrospectedSourced ==
  ASSUME NEW n, NEW s, Sourced(s, n)
  PROVE  /\ Sourced(MarkIntrospected(s), n) /\ MarkIntrospected(s).id = s.id
         /\ MarkIntrospected(s).path = s.path
<1> DEFINE b == s.path \in Databases
           t == [s EXCEPT !.attached = b, !.named = b, !.failed = FALSE]
<1>1. b \in BOOLEAN /\ (b => s.path \in Databases) /\ MarkIntrospected(s) = t
  BY DEF MarkIntrospected
<1> HIDE DEF b
<1>2. Sourced(t, n) /\ t.id = s.id /\ t.path = s.path
  BY <1>1 DEF Sourced, Source
<1> QED BY <1>1, <1>2

LEMMA MarkAttachedSourced ==
  ASSUME NEW n, NEW s, Sourced(s, n), s.path \in Databases
  PROVE  /\ Sourced(MarkAttached(s), n) /\ MarkAttached(s).id = s.id
         /\ MarkAttached(s).path = s.path
BY DEF Sourced, Source, MarkAttached

LEMMA MarkFailedSourced ==
  ASSUME NEW n, NEW s, Sourced(s, n)
  PROVE  Sourced(MarkFailed(s), n) /\ MarkFailed(s).id = s.id /\ MarkFailed(s).path = s.path
BY DEF Sourced, Source, MarkFailed

LEMMA MarkRestoredSourced ==
  ASSUME NEW n, NEW s, Sourced(s, n)
  PROVE  Sourced(MarkRestored(s), n) /\ MarkRestored(s).id = s.id /\ MarkRestored(s).path = s.path
BY DEF Sourced, Source, MarkRestored

Idle(s) == [s EXCEPT !.busy = FALSE]
Stopped(s) == [s EXCEPT !.failed = TRUE, !.busy = FALSE]
Denied(s) == [s EXCEPT !.attached = FALSE]
WithHandle(s) == [s EXCEPT !.handle = TRUE]

LEMMA MoreMarksSourced ==
  ASSUME NEW n, NEW s, Sourced(s, n)
  PROVE  /\ Sourced(Idle(s), n) /\ Idle(s).id = s.id /\ Idle(s).path = s.path
         /\ Sourced(Stopped(s), n) /\ Stopped(s).id = s.id /\ Stopped(s).path = s.path
         /\ Sourced(Denied(s), n) /\ Denied(s).id = s.id /\ Denied(s).path = s.path
         /\ Sourced(WithHandle(s), n) /\ WithHandle(s).id = s.id /\ WithHandle(s).path = s.path
<1>1. Sourced(Idle(s), n) /\ Idle(s).id = s.id /\ Idle(s).path = s.path
  BY DEF Sourced, Source, Idle
<1>2. Sourced(Stopped(s), n) /\ Stopped(s).id = s.id /\ Stopped(s).path = s.path
  BY DEF Sourced, Source, Stopped
<1>3. Sourced(Denied(s), n) /\ Denied(s).id = s.id /\ Denied(s).path = s.path
  BY DEF Sourced, Source, Denied
<1>4. Sourced(WithHandle(s), n) /\ WithHandle(s).id = s.id /\ WithHandle(s).path = s.path
  BY DEF Sourced, Source, WithHandle
<1> QED BY <1>1, <1>2, <1>3, <1>4

LEMMA MarkedKept ==
  ASSUME NEW n, Listed(list, n), NEW i
  PROVE  /\ Kept(list, Updated(i, {MarkIntrospected(s) : s \in Of(i)}), n)
         /\ (\A s \in Of(i) : s.path \in Databases) =>
              Kept(list, Updated(i, {MarkAttached(s) : s \in Of(i)}), n)
         /\ Kept(list, Updated(i, {Idle(MarkIntrospected(s)) : s \in Of(i)}), n)
         /\ Kept(list, Updated(i, {Stopped(s) : s \in Of(i)}), n)
         /\ Kept(list, Updated(i, {Denied(s) : s \in Of(i)}), n)
         /\ Kept(list, Updated(i, {WithHandle(MarkRestored(s)) : s \in Of(i)}), n)
<1>1. ASSUME NEW s \in Of(i) PROVE Sourced(s, n) /\ \A t \in Of(i) : s = t
  BY OfIsOne
<1>2. Kept(list, Updated(i, {MarkIntrospected(s) : s \in Of(i)}), n)
  <2> DEFINE S == {MarkIntrospected(s) : s \in Of(i)}
  <2>1. \A t \in S : Sourced(t, n) /\ \E s \in Of(i) : s.id = t.id /\ s.path = t.path
    BY <1>1, MarkIntrospectedSourced
  <2>2. \A t, u \in S : t = u
    BY <1>1
  <2> HIDE DEF S
  <2>3. Kept(list, Updated(i, S), n)
    BY <2>1, <2>2, UpdatedKept
  <2> QED BY <2>3 DEF S
<1>3. ASSUME \A s \in Of(i) : s.path \in Databases
      PROVE  Kept(list, Updated(i, {MarkAttached(s) : s \in Of(i)}), n)
  <2> DEFINE S == {MarkAttached(s) : s \in Of(i)}
  <2>1. \A t \in S : Sourced(t, n) /\ \E s \in Of(i) : s.id = t.id /\ s.path = t.path
    BY <1>1, <1>3, MarkAttachedSourced
  <2>2. \A t, u \in S : t = u
    BY <1>1
  <2> HIDE DEF S
  <2>3. Kept(list, Updated(i, S), n)
    BY <2>1, <2>2, UpdatedKept
  <2> QED BY <2>3 DEF S
<1>4. Kept(list, Updated(i, {Idle(MarkIntrospected(s)) : s \in Of(i)}), n)
  <2> DEFINE S == {Idle(MarkIntrospected(s)) : s \in Of(i)}
  <2>1. \A t \in S : Sourced(t, n) /\ \E s \in Of(i) : s.id = t.id /\ s.path = t.path
    BY <1>1, MarkIntrospectedSourced, MoreMarksSourced
  <2>2. \A t, u \in S : t = u
    BY <1>1
  <2> HIDE DEF S
  <2>3. Kept(list, Updated(i, S), n)
    BY <2>1, <2>2, UpdatedKept
  <2> QED BY <2>3 DEF S
<1>5. Kept(list, Updated(i, {Stopped(s) : s \in Of(i)}), n)
  <2> DEFINE S == {Stopped(s) : s \in Of(i)}
  <2>1. \A t \in S : Sourced(t, n) /\ \E s \in Of(i) : s.id = t.id /\ s.path = t.path
    BY <1>1, MoreMarksSourced
  <2>2. \A t, u \in S : t = u
    BY <1>1
  <2> HIDE DEF S
  <2>3. Kept(list, Updated(i, S), n)
    BY <2>1, <2>2, UpdatedKept
  <2> QED BY <2>3 DEF S
<1>6. Kept(list, Updated(i, {Denied(s) : s \in Of(i)}), n)
  <2> DEFINE S == {Denied(s) : s \in Of(i)}
  <2>1. \A t \in S : Sourced(t, n) /\ \E s \in Of(i) : s.id = t.id /\ s.path = t.path
    BY <1>1, MoreMarksSourced
  <2>2. \A t, u \in S : t = u
    BY <1>1
  <2> HIDE DEF S
  <2>3. Kept(list, Updated(i, S), n)
    BY <2>1, <2>2, UpdatedKept
  <2> QED BY <2>3 DEF S
<1>7. Kept(list, Updated(i, {WithHandle(MarkRestored(s)) : s \in Of(i)}), n)
  <2> DEFINE S == {WithHandle(MarkRestored(s)) : s \in Of(i)}
  <2>1. \A t \in S : Sourced(t, n) /\ \E s \in Of(i) : s.id = t.id /\ s.path = t.path
    BY <1>1, MarkRestoredSourced, MoreMarksSourced
  <2>2. \A t, u \in S : t = u
    BY <1>1
  <2> HIDE DEF S
  <2>3. Kept(list, Updated(i, S), n)
    BY <2>1, <2>2, UpdatedKept
  <2> QED BY <2>3 DEF S
<1> QED BY <1>2, <1>3, <1>4, <1>5, <1>6, <1>7

LEMMA FirstOfPath ==
  ASSUME NEW n, n \in Nat, Listed(list, n), NEW p, At(p) # {}
  PROVE  /\ First(At(p)) \in list /\ First(At(p)).path = p
         /\ First(At(p)).id \in Ids(n) /\ First(At(p)).id # 0
         /\ Sourced(First(At(p)), n)
<1>1. \A s \in At(p) : s.id \in Nat
  BY DEF At, Listed, Sourced, Source
<1>2. First(At(p)) \in At(p)
  BY <1>1, FirstIsThere
<1> HIDE DEF First
<1> QED BY <1>2 DEF At, Listed, Sourced, Source, Ids

LEMMA FirstMarkedKept ==
  ASSUME NEW n, n \in Nat, Listed(list, n), NEW p, At(p) # {}
  PROVE  /\ Kept(list, Updated(First(At(p)).id, {MarkFailed(First(At(p)))}), n)
         /\ Kept(list, Updated(First(At(p)).id, {MarkRestored(First(At(p)))}), n)
<1> DEFINE s == First(At(p))
<1>1. s \in list /\ Sourced(s, n)
  BY FirstOfPath
<1> HIDE DEF s
<1>2. s \in Of(s.id)
  BY <1>1 DEF Of
<1>3. Kept(list, Updated(s.id, {MarkFailed(s)}), n)
  BY <1>1, <1>2, MarkFailedSourced, UpdatedKept
<1>4. Kept(list, Updated(s.id, {MarkRestored(s)}), n)
  BY <1>1, <1>2, MarkRestoredSourced, UpdatedKept
<1> QED BY <1>3, <1>4 DEF s

-----------------------------------------------------------------------------
(* The kinds of steps. *)

\* What a step changes beside the list and the operations.
RestKept ==
  /\ stored' = stored \/ stored' = list \/ stored' = {}
  /\ {crossed', wiped'} \subseteq BOOLEAN
  /\ starts' \in 0 .. MaxStarts

Beside ==
  /\ nextId' = nextId
  /\ Kept(list, list', nextId)
  /\ RestKept
  /\ handles' \subseteq HandlesTo(nextId) /\ intro' \subseteq IntrosTo(nextId)
  /\ pending' \in Pendings /\ db' \in Dbs
  /\ {dirty', faulty'} \subseteq BOOLEAN

LEMMA KeptListed ==
  ASSUME NEW n, NEW l, NEW m, Kept(l, m, n)
  PROVE  Listed(m, n) /\ \A r : Known(r, l) => Known(r, m)
BY DEF Kept, Listed, Known

LEMMA RestListed ==
  ASSUME TInv, RestKept
  PROVE  Listed(stored', nextId)
BY DEF TInv, RestKept, Listed

LEMMA TGoes ==
  ASSUME TInv, Beside, NEW o \in Ops, NEW r, Proper(r, nextId), Known(r, list), Goto(o, r)
  PROVE  TInv'
<1>1. op' = [op EXCEPT ![o] = r]
  BY DEF Goto
<1>2. DOMAIN op' = Ops /\ op' = [x \in Ops |-> op'[x]]
  BY <1>1 DEF TInv
<1>3. ASSUME NEW x \in Ops PROVE Proper(op'[x], nextId) /\ Known(op'[x], list)
  BY <1>1 DEF TInv
<1>4. ASSUME NEW x \in Ops PROVE Known(op'[x], list')
  BY <1>3, KeptListed DEF Beside
<1>5. Listed(list', nextId) /\ Listed(stored', nextId)
  BY KeptListed, RestListed DEF Beside
<1> QED BY <1>2, <1>3, <1>4, <1>5 DEF TInv, Beside, RestKept

LEMMA TStands ==
  ASSUME TInv, Beside, op' = op
  PROVE  TInv'
<1>1. ASSUME NEW x \in Ops PROVE Known(op[x], list')
  BY KeptListed DEF Beside, TInv
<1>2. Listed(list', nextId) /\ Listed(stored', nextId)
  BY KeptListed, RestListed DEF Beside
<1> QED BY <1>1, <1>2 DEF TInv, Beside, RestKept

LEMMA RestSame == ASSUME TInv, UNCHANGED rest PROVE RestKept
BY DEF TInv, RestKept, rest

LEMMA RestStarts == ASSUME TInv, NEW o, Start(o) PROVE RestKept
BY BoundAssumption DEF TInv, RestKept, Start

LEMMA SameKept == TInv => Kept(list, list, nextId)
BY SubsetKept DEF TInv

-----------------------------------------------------------------------------
(* DuckDB. *)

LEMMA AttachingTyped ==
  ASSUME db \in Dbs, NEW p \in Databases, NEW a \in Attaching(p)
  PROVE  a.ok \in BOOLEAN /\ a.db \in Dbs
<1>1. CASE a = [ok |-> FALSE, db |-> db]
  BY <1>1
<1>2. CASE a = [ok |-> TRUE, db |-> [db EXCEPT ![AliasOf[p]] = p]]
  <2>1. [db EXCEPT ![AliasOf[p]] = p] \in Dbs
    BY DEF Dbs
  <2> QED BY <1>2, <2>1
<1> QED BY <1>1, <1>2 DEF Attaching

LEMMA IntrospectingTyped ==
  ASSUME db \in Dbs, NEW s, NEW a \in Introspecting(s)
  PROVE  a.ok \in BOOLEAN /\ a.db \in Dbs
<1>1. CASE s.path \in Databases /\ a \in Attaching(s.path)
  BY <1>1, AttachingTyped
<1>2. CASE a = [ok |-> TRUE, db |-> db]
  BY <1>2
<1> QED BY <1>1, <1>2 DEF Introspecting

LEMMA DetachedTyped ==
  ASSUME db \in Dbs, NEW A PROVE Detached(A) \in Dbs
BY DEF Dbs, Detached

-----------------------------------------------------------------------------
(* addDataSource and removeDataSource. *)

NewSource(r) ==
  [id |-> nextId, path |-> r.path, attached |-> r.new.attached,
   named |-> r.new.attached, handle |-> r.new.handle,
   volatile |-> r.new.volatile, failed |-> FALSE, busy |-> TRUE]

LEMMA NewSourced ==
  ASSUME TInv, NEW r, Proper(r, nextId), r.kind \notin {"none", "clear"}
  PROVE  /\ Sourced(NewSource(r), nextId + 1)
         /\ NewSource(r).id = nextId /\ NewSource(r).path = r.path
<1>1. r.path \in Paths /\ r.new \in New /\ nextId \in Nat \ {0}
      /\ (r.new.attached => r.path \in Databases)
  BY FieldsOfOp DEF Proper, Suited, TInv
<1> QED BY <1>1 DEF NewSource, Sourced, Source, New

Callers(o) == {o} \cup {x \in Ops : op[x].at = "joined" /\ op[x].peer = o}
Now(o, r) == [op EXCEPT ![o] = r]
NewHandles(o, r, s) ==
  {[id |-> s.id, path |-> s.path] : x \in {y \in Callers(o) : Stores(Now(o, r)[y])}}

\* The source s is added, its introspection starts with the answer a; done: the
\* handles of those that wait for it are stored.
AppendedWith(o, r, l, s, a, done) ==
  /\ SetList(l \cup {s})
  /\ db' = a.db
  /\ intro' = intro \cup {[id |-> s.id, ok |-> a.ok]}
  /\ handles' = IF done THEN handles \cup NewHandles(o, r, s) ELSE handles
  /\ op' = [x \in Ops |-> IF x \in Callers(o) THEN Resumed(Now(o, r)[x], s, a.ok, done) ELSE op[x]]
  /\ pending' = [pending EXCEPT ![r.path] = None]
  /\ nextId' = nextId + 1
  /\ faulty' = (faulty \/ ~done)

LEMMA AppendsWith ==
  ASSUME NEW o, NEW r, NEW l, AppendSource(o, r, l)
  PROVE  \E a \in Introspecting(NewSource(r)), done \in BOOLEAN :
           AppendedWith(o, r, l, NewSource(r), a, done)
<1> DEFINE D == IF NewHandles(o, r, NewSource(r)) = {} THEN {TRUE} ELSE BOOLEAN
<1>1. \E a \in Introspecting(NewSource(r)), done \in D : AppendedWith(o, r, l, NewSource(r), a, done)
  BY Zenon DEF AppendSource, NewSource, Callers, Now, NewHandles, AppendedWith
<1>2. D \subseteq BOOLEAN
  OBVIOUS
<1> QED BY <1>1, <1>2

LEMMA TAppends ==
  ASSUME TInv, RestKept, NEW o \in Ops, NEW r, Proper(r, nextId), r.kind \notin {"none", "clear"},
         NEW l, l \subseteq list, AppendSource(o, r, l)
  PROVE  TInv'
<1> DEFINE s == NewSource(r)
           now == Now(o, r)
           new == NewHandles(o, r, s)
<1>0. PICK a \in Introspecting(s), done \in BOOLEAN : AppendedWith(o, r, l, s, a, done)
  BY AppendsWith
<1>1. /\ SetList(l \cup {s})
      /\ db' = a.db
      /\ intro' = intro \cup {[id |-> s.id, ok |-> a.ok]}
      /\ handles' = IF done THEN handles \cup new ELSE handles
      /\ op' = [x \in Ops |-> IF x \in Callers(o) THEN Resumed(now[x], s, a.ok, done) ELSE op[x]]
      /\ pending' = [pending EXCEPT ![r.path] = None]
      /\ nextId' = nextId + 1
      /\ faulty' = (faulty \/ ~done)
  BY <1>0 DEF AppendedWith
<1>2. Sourced(s, nextId + 1) /\ s.id = nextId /\ s.path = r.path /\ r.path \in Paths
  BY NewSourced DEF Proper, Suited
<1>3. nextId \in Nat \ {0} /\ nextId' \in Nat \ {0} /\ nextId' = nextId + 1
  BY <1>1 DEF TInv
<1>4. a.ok \in BOOLEAN /\ a.db \in Dbs
  BY IntrospectingTyped DEF TInv
<1>5. Listed(list', nextId')
  <2>1. list' = l \cup {s}
    BY <1>1 DEF SetList
  <2>2. \A t \in l : Sourced(t, nextId + 1) /\ t.id < nextId
    BY <1>3 DEF TInv, Listed, Sourced, Source
  <2>3. \A t, u \in l : t.id = u.id => t = u
    BY DEF TInv, Listed
  <2> HIDE DEF s
  <2> QED BY <1>2, <1>3, <2>1, <2>2, <2>3 DEF Listed
<1>6. Listed(stored', nextId')
  <2>1. Listed(stored, nextId) /\ Listed(list, nextId) /\ Listed({}, nextId)
    BY DEF TInv, Listed
  <2>2. Listed(stored', nextId)
    BY <2>1 DEF RestKept
  <2> QED BY <1>3, <2>2 DEF Listed, Sourced, Source
<1>7. handles' \subseteq HandlesTo(nextId')
  <2>1. [id |-> s.id, path |-> s.path] \in HandlesTo(nextId + 1)
    BY <1>2, <1>3 DEF HandlesTo, Handle
  <2>2. HandlesTo(nextId) \subseteq HandlesTo(nextId + 1)
    BY <1>3 DEF HandlesTo, Handle
  <2>3. new \subseteq HandlesTo(nextId + 1)
    BY <2>1 DEF NewHandles
  <2> HIDE DEF s, now, new
  <2> QED BY <1>1, <1>3, <2>2, <2>3 DEF TInv
<1>8. intro' \subseteq IntrosTo(nextId')
  <2>1. [id |-> s.id, ok |-> a.ok] \in IntrosTo(nextId + 1)
    BY <1>2, <1>3, <1>4 DEF IntrosTo
  <2>2. IntrosTo(nextId) \subseteq IntrosTo(nextId + 1)
    BY <1>3 DEF IntrosTo
  <2> HIDE DEF s
  <2> QED BY <1>1, <2>1, <2>2 DEF TInv
<1>9. DOMAIN op' = Ops /\ op' = [x \in Ops |-> op'[x]]
  <2> HIDE DEF s, now
  <2> QED BY <1>1
<1>10. ASSUME NEW x \in Ops PROVE Proper(op'[x], nextId') /\ Known(op'[x], list')
  <2>1. CASE x \in Callers(o)
    <3>1. op'[x] = Resumed(now[x], s, a.ok, done)
      <4> HIDE DEF s, now
      <4> QED BY <1>1, <2>1
    <3>2. Proper(now[x], nextId) /\ now[x].kind \notin {"none", "clear"}
      <4>1. CASE x = o
        BY <4>1 DEF TInv, Now
      <4>2. CASE x # o
        <5>1. now[x] = op[x] /\ op[x].at = "joined" /\ Proper(op[x], nextId)
          BY <2>1, <4>2 DEF TInv, Callers, Now
        <5>2. NoOp.at = "none"
          BY DEF NoOp
        <5> HIDE DEF now
        <5> QED BY <5>1, <5>2 DEF Proper, Suited
      <4> QED BY <4>1, <4>2
    <3>3. s.id \in Ids(nextId + 1) /\ s.id # 0
      BY <1>2, <1>3 DEF Ids
    <3> HIDE DEF s, now
    <3>4. Proper(now[x], nextId + 1)
      BY <1>3, <3>2, WiderProper
    <3> QED BY <1>3, <1>4, <3>1, <3>2, <3>3, <3>4, ResumedProper
  <2>2. CASE x \notin Callers(o)
    <3>1. op'[x] = op[x]
      <4> HIDE DEF s, now
      <4> QED BY <1>1, <2>2
    <3>2. Proper(op[x], nextId) /\ Known(op[x], list)
      BY DEF TInv
    <3>3. Proper(op[x], nextId + 1)
      BY <1>3, <3>2, WiderProper
    <3>4. op[x].id < nextId
      BY <1>3, <3>2, FieldsOfOp DEF Proper, Ids
    <3>5. list' = l \cup {s}
      BY <1>1 DEF SetList
    <3> HIDE DEF s, now
    <3>6. Known(op[x], list')
      BY <1>2, <1>3, <3>2, <3>4, <3>5 DEF Known
    <3> QED BY <1>3, <3>1, <3>3, <3>6
  <2> QED BY <2>1, <2>2
<1>11. pending' \in Pendings
  BY <1>1 DEF TInv, Pendings
<1>12. {dirty', faulty'} \subseteq BOOLEAN
  BY <1>1 DEF TInv, SetList
<1>13. db' \in Dbs
  BY <1>1, <1>4
<1> QED BY <1>3, <1>5, <1>6, <1>7, <1>8, <1>9, <1>10, <1>11, <1>12, <1>13 DEF TInv, RestKept

LEMMA TFilters ==
  ASSUME TInv, RestKept, NEW o \in Ops, NEW r, Proper(r, nextId), r.kind \notin {"none", "clear"},
         NEW i, Filtered(o, r, i)
  PROVE  TInv'
<1>1. Without(i) \subseteq list
  BY DEF Without
<1>2. CASE r.kind = "remove"
  <2>1. Beside
    BY <1>1, <1>2, SubsetKept DEF Filtered, SetList, Beside, TInv
  <2>2. Goto(o, NoOp)
    BY <1>2 DEF Filtered
  <2> QED BY <2>1, <2>2, NoOpProper, TGoes DEF TInv
<1>3. CASE r.kind # "remove"
  BY <1>1, <1>3, TAppends DEF Filtered
<1> QED BY <1>2, <1>3

LEMMA OldProper ==
  ASSUME NEW n \in Nat \ {0}, NEW r, Proper(r, n), r.kind \notin {"none", "clear"}, NEW s, Sourced(s, n)
  PROVE  LET q == [r EXCEPT !.old = [id |-> s.id, handle |-> s.handle]] IN
         Proper(q, n) /\ q.kind = r.kind /\ q.path = r.path
<1> DEFINE old == [id |-> s.id, handle |-> s.handle]
           q == [r EXCEPT !.old = old]
<1>1. old \in Olds(n)
  BY DEF Sourced, Source, Olds, Ids
<1> HIDE DEF old
<1>2. q \in OpIn(n) /\ q.kind = r.kind /\ q.path = r.path /\ q.at = r.at /\ q.new = r.new /\ q.todo = r.todo
      /\ q.id = r.id
  BY <1>1 DEF Proper, OpIn
<1> HIDE DEF q
<1>3. Proper(q, n) /\ q.kind = r.kind /\ q.path = r.path
  BY <1>2 DEF Proper, Suited
<1> QED BY <1>3 DEF q, old

\* Where an operation is not about to mark a source, no source is looked for.
LEMMA MovedKnown ==
  ASSUME NEW r, NEW n, Proper(r, n), NEW at, at \notin {"register", "check", "detach", "attach"} \/ r.kind \notin {"reload", "reattach"}, NEW l
  PROVE  Known([r EXCEPT !.at = at], l)
BY DEF Proper, OpIn, Known, Marks

LEMMA TRemovesHandle ==
  ASSUME TInv, RestKept, NEW o \in Ops, NEW r, Proper(r, nextId), r.kind \notin {"none", "clear"},
         NEW i, RemoveHandle(o, r, i), pending' \in Pendings
  PROVE  TInv'
<1> DEFINE q == [r EXCEPT !.at = "unhandled"]
<1>1. Proper(q, nextId) /\ Known(q, list)
  BY MovedProper, MovedKnown DEF TInv
<1>2. Goto(o, q)
  BY DEF RemoveHandle
<1>3. handles' \subseteq handles /\ faulty' \in BOOLEAN
  BY DEF RemoveHandle, TInv
<1>4. Beside
  BY <1>3, SameKept DEF RemoveHandle, Beside, TInv
<1> HIDE DEF q
<1> QED BY <1>1, <1>2, <1>4, TGoes

LEMMA TRemoves ==
  ASSUME TInv, RestKept, NEW o \in Ops, NEW r, Proper(r, nextId), r.kind \notin {"none", "clear"},
         NEW s \in list, NEW p, p \in Pendings, Remove(o, r, s, p)
  PROVE  TInv'
<1> DEFINE q == [r EXCEPT !.old = [id |-> s.id, handle |-> s.handle]]
           d == [q EXCEPT !.at = "detached"]
<1>0. Sourced(s, nextId) /\ nextId \in Nat \ {0}
  BY DEF TInv, Listed
<1>1. Proper(q, nextId) /\ q.kind = r.kind
  BY <1>0, OldProper
<1> HIDE DEF q
<1>2. Proper(d, nextId) /\ Known(d, list)
  BY <1>0, <1>1, MovedProper, MovedKnown
<1> HIDE DEF d
<1>3. CASE s.attached
  <2>1. Goto(o, d) /\ UNCHANGED <<list, dirty, intro, handles, nextId>> /\ pending' = p
    BY <1>3 DEF Remove, q, d
  <2>2. PICK done \in BOOLEAN : /\ db' = IF done THEN Detached({AliasOf[s.path]}) ELSE db
                                /\ faulty' = (faulty \/ ~done)
    BY <1>3 DEF Remove
  <2>3. db' \in Dbs /\ faulty' \in BOOLEAN
    BY <2>2, DetachedTyped DEF TInv
  <2>4. Beside
    BY <2>1, <2>3, SameKept DEF Beside, TInv
  <2> QED BY <1>2, <2>1, <2>4, TGoes
<1>4. CASE ~s.attached /\ s.handle
  <2>1. RemoveHandle(o, q, s.id) /\ pending' = p
    BY <1>4 DEF Remove, q
  <2> QED BY <1>1, <2>1, TRemovesHandle
<1>5. CASE ~s.attached /\ ~s.handle
  BY <1>5, TFilters DEF Remove
<1> QED BY <1>3, <1>4, <1>5

LEMMA JoinedProper ==
  ASSUME NEW n \in Nat \ {0}, NEW r, Proper(r, n), r.kind \notin {"none", "clear"}, NEW p \in Ops, NEW l
  PROVE  LET q == [r EXCEPT !.at = "joined", !.peer = p] IN Proper(q, n) /\ Known(q, l)
<1> DEFINE q == [r EXCEPT !.at = "joined", !.peer = p]
<1>1. /\ q \in OpIn(n) /\ q.kind = r.kind /\ q.path = r.path /\ q.at = "joined" /\ q.new = r.new
      /\ q.todo = r.todo /\ q.id = r.id
  BY AtIn DEF Proper, OpIn
<1> HIDE DEF q
<1>2. Proper(q, n) /\ Known(q, l)
  BY <1>1 DEF Proper, Suited, Known, Marks
<1> QED BY <1>2 DEF q

LEMMA TAdds ==
  ASSUME TInv, RestKept, NEW o \in Ops, NEW r, Proper(r, nextId), r.kind \notin {"none", "clear"},
         AddSource(o, r)
  PROVE  TInv'
<1>0. r.path \in Paths /\ nextId \in Nat \ {0}
  BY DEF Proper, Suited, TInv
<1>1. CASE pending[r.path] # None
  <2> DEFINE q == [r EXCEPT !.at = "joined", !.peer = pending[r.path]]
  <2>1. pending[r.path] \in Ops
    BY <1>0, <1>1 DEF TInv, Pendings
  <2>2. Proper(q, nextId) /\ Known(q, list)
    BY <1>0, <2>1, JoinedProper
  <2>3. Goto(o, q)
    BY <1>1 DEF AddSource
  <2>4. Beside
    BY <1>1, SameKept DEF AddSource, Beside, TInv
  <2> HIDE DEF q
  <2> QED BY <2>2, <2>3, <2>4, TGoes
<1>2. CASE pending[r.path] = None /\ At(r.path) = {}
  BY <1>2, TAppends DEF AddSource
<1>3. CASE pending[r.path] = None /\ At(r.path) # {}
  <2> DEFINE p == [pending EXCEPT ![r.path] = o]
             s == First(At(r.path))
  <2>1. p \in Pendings
    BY DEF TInv, Pendings
  <2>2. s \in list
    BY <1>0, <1>3, FirstOfPath DEF TInv
  <2>3. Remove(o, r, s, p)
    BY <1>3 DEF AddSource
  <2> HIDE DEF p, s
  <2> QED BY <2>1, <2>2, <2>3, TRemoves
<1> QED BY <1>1, <1>2, <1>3

-----------------------------------------------------------------------------
(* The steps of the operations. *)

LEMMA OpProper ==
  ASSUME TInv, NEW o \in Ops
  PROVE  /\ nextId \in Nat \ {0} /\ Listed(list, nextId) /\ db \in Dbs
         /\ Proper(op[o], nextId) /\ Known(op[o], list) /\ op[o].ok \in BOOLEAN
         /\ op[o].kind \notin {"none", "clear"} => op[o].path \in Paths
         /\ op[o].at \in {"detach", "attach", "check"} => op[o].path \in Databases
         /\ op[o].at \notin {"none", "list", "clear"} => op[o].kind \notin {"none", "clear"}
         /\ op[o].kind = "reload" => op[o].todo \subseteq HandlesTo(nextId)
<1>1. Proper(op[o], nextId)
  BY DEF TInv
<1>2. NoOp.at = "none"
  BY DEF NoOp
<1> QED BY <1>1, <1>2, FieldsOfOp DEF TInv, Proper, Suited

\* The operation o goes on as r; the list stays.
LEMMA TOnward ==
  ASSUME TInv, RestKept, NEW o \in Ops, NEW r, Proper(r, nextId), Known(r, list), Goto(o, r),
         UNCHANGED <<list, pending, nextId, intro>>, handles' \subseteq HandlesTo(nextId),
         db' \in Dbs, dirty' \in BOOLEAN, faulty' \in BOOLEAN
  PROVE  TInv'
<1>1. Beside
  BY SameKept DEF Beside, TInv
<1> QED BY <1>1, TGoes

LEMMA TQuietly ==
  ASSUME TInv, NEW o \in Ops, NEW r, Proper(r, nextId), Known(r, list), Quietly(o, r)
  PROVE  TInv'
BY TOnward, RestSame DEF Quietly, TInv

LEMMA TStops ==
  ASSUME TInv, NEW o \in Ops, Quietly(o, NoOp)
  PROVE  TInv'
BY NoOpProper, TQuietly DEF TInv

LEMMA TDetaches ==
  ASSUME TInv, NEW o \in Ops, NEW r, Proper(r, nextId), Known(r, list), NEW A, Detaches(o, r, A)
  PROVE  TInv'
BY TOnward, RestSame, DetachedTyped DEF Detaches, TInv

\* An operation that is to mark a source goes on to the next step.
LEMMA StaysKnown ==
  ASSUME NEW n, NEW r, Proper(r, n), NEW l, Known(r, l), Marks(r) \/ r.kind \notin {"reload", "reattach"},
         NEW at, NEW ok
  PROVE  Known([r EXCEPT !.at = at], l) /\ Known([r EXCEPT !.at = at, !.ok = ok], l)
<1>1. /\ [r EXCEPT !.at = at].kind = r.kind /\ [r EXCEPT !.at = at].id = r.id
      /\ [r EXCEPT !.at = at].path = r.path
      /\ [r EXCEPT !.at = at, !.ok = ok].kind = r.kind /\ [r EXCEPT !.at = at, !.ok = ok].id = r.id
      /\ [r EXCEPT !.at = at, !.ok = ok].path = r.path
  BY DEF Proper, OpIn
<1> QED BY <1>1 DEF Known, Marks

LEMMA TAttaches ==
  ASSUME TInv, NEW o \in Ops, op[o].kind \notin {"none", "clear"}, op[o].path \in Databases,
         Marks(op[o]) \/ op[o].kind \notin {"reload", "reattach"}, Attaches(o)
  PROVE  TInv'
<1>1. PICK a \in Attaching(op[o].path) :
        db' = a.db /\ Goto(o, [op[o] EXCEPT !.at = "attach", !.ok = a.ok])
  BY DEF Attaches
<1>2. a.ok \in BOOLEAN /\ a.db \in Dbs
  BY OpProper, AttachingTyped
<1> DEFINE q == [op[o] EXCEPT !.at = "attach", !.ok = a.ok]
<1>3. Proper(q, nextId)
  BY <1>2, OpProper, AnsweredProper
<1>4. Known(q, list)
  BY OpProper, StaysKnown
<1> HIDE DEF q
<1> QED BY <1>1, <1>2, <1>3, <1>4, TOnward, RestSame DEF Attaches, TInv, q

LEMMA IntrospectProper ==
  ASSUME NEW n \in Nat \ {0}, NEW r, Proper(r, n), r.kind \notin {"none", "clear"}, NEW ok \in BOOLEAN,
         NEW q, q = [r EXCEPT !.at = "introspect", !.ok = ok], NEW l
  PROVE  Proper(q, n) /\ Known(q, l)
<1>1. /\ q \in OpIn(n) /\ q.kind = r.kind /\ q.path = r.path /\ q.at = "introspect" /\ q.new = r.new
      /\ q.todo = r.todo /\ q.id = r.id
  BY AtIn DEF Proper, OpIn
<1> QED BY <1>1 DEF Proper, Suited, Known, Marks

\* introspectSchema goes on as an operation that is to mark nothing yet.
LEMMA IntrospectSchemaProper ==
  ASSUME TInv, NEW o, NEW r, Proper(r, nextId), r.kind \notin {"none", "clear"}, NEW l, IntrospectSchema(o, r, l)
  PROVE  db' \in Dbs /\ \E q : Goto(o, q) /\ Proper(q, nextId) /\ Known(q, list)
<1>0. nextId \in Nat \ {0} /\ db \in Dbs
  BY DEF TInv
<1>1. CASE Has(l, r.id)
  <2> DEFINE s == CHOOSE s \in l : s.id = r.id
  <2>1. PICK a \in Introspecting(s) : db' = a.db /\ Goto(o, [r EXCEPT !.at = "introspect", !.ok = a.ok])
    BY <1>1 DEF IntrospectSchema
  <2> HIDE DEF s
  <2>2. a.ok \in BOOLEAN /\ a.db \in Dbs
    BY <1>0, IntrospectingTyped
  <2> DEFINE q == [r EXCEPT !.at = "introspect", !.ok = a.ok]
  <2>3. Proper(q, nextId) /\ Known(q, list)
    BY <1>0, <2>2, IntrospectProper
  <2> HIDE DEF q
  <2> QED BY <2>1, <2>2, <2>3 DEF q
<1>2. CASE ~Has(l, r.id)
  BY <1>0, <1>2, EndedProper DEF IntrospectSchema
<1> QED BY <1>1, <1>2

LEMMA TUpdates ==
  ASSUME TInv, NEW o \in Ops, NEW r, Proper(r, nextId), r.kind \notin {"none", "clear"},
         NEW l, Kept(list, l, nextId), UpdateAndIntrospect(o, r, l)
  PROVE  TInv'
<1>1. PICK q : db' \in Dbs /\ Goto(o, q) /\ Proper(q, nextId) /\ Known(q, list)
  BY IntrospectSchemaProper DEF UpdateAndIntrospect
<1>2. Beside
  BY <1>1, RestSame DEF UpdateAndIntrospect, SetList, Beside, TInv
<1> QED BY <1>1, <1>2, TGoes

LEMMA TReloadFails ==
  ASSUME TInv, NEW o \in Ops, NEW r, Proper(r, nextId), r.kind = "reload", ReloadFails(o, r), faulty' \in BOOLEAN
  PROVE  TInv'
<1>1. Kept(list, list', nextId) /\ dirty' \in BOOLEAN
  <2>1. CASE At(r.path) # {} /\ SetList(Updated(First(At(r.path)).id, {MarkFailed(First(At(r.path)))}))
    BY <2>1, FirstMarkedKept DEF SetList, TInv
  <2>2. CASE UNCHANGED <<list, dirty>>
    BY <2>2, SameKept DEF TInv
  <2> QED BY <2>1, <2>2 DEF ReloadFails
<1>2. Goto(o, NextHandle(r)) /\ UNCHANGED <<db, intro, handles, pending, nextId, rest>>
  BY DEF ReloadFails
<1>3. Beside
  BY <1>1, <1>2, RestSame DEF Beside, TInv
<1>4. Proper(NextHandle(r), nextId) /\ Known(NextHandle(r), list)
  BY NextHandleProper DEF Proper, Suited, TInv
<1> QED BY <1>2, <1>3, <1>4, TGoes

LEMMA TFails ==
  ASSUME TInv, NEW o \in Ops, Fails(o), faulty' \in BOOLEAN
  PROVE  TInv'
<1>1. CASE op[o].kind = "reload" /\ ReloadFails(o, op[o])
  BY <1>1, OpProper, TReloadFails
<1>2. CASE op[o].kind = "reload" /\ Forget(o, op[o])
  <2> DEFINE q == [op[o] EXCEPT !.at = "forget"]
  <2>1. Proper(q, nextId) /\ Known(q, list)
    BY <1>2, OpProper, MovedProper, MovedKnown
  <2> HIDE DEF q
  <2> QED BY <1>2, <2>1, TOnward, RestSame DEF Forget, TInv, q
<1>3. CASE op[o].kind # "reload"
  BY <1>3, NoOpProper, TOnward, RestSame DEF Fails, TInv
<1> QED BY <1>1, <1>2, <1>3 DEF Fails

LEMMA NewProper ==
  ASSUME NEW n \in Nat \ {0}, NEW r, Proper(r, n), NEW new \in New, new.attached => r.path \in Databases,
         r.kind \notin {"none", "clear"}
  PROVE  Proper([r EXCEPT !.new = new], n) /\ [r EXCEPT !.new = new].kind = r.kind
<1>1. /\ [r EXCEPT !.new = new] \in OpIn(n) /\ [r EXCEPT !.new = new].kind = r.kind
      /\ [r EXCEPT !.new = new].path = r.path /\ [r EXCEPT !.new = new].at = r.at
      /\ [r EXCEPT !.new = new].new = new /\ [r EXCEPT !.new = new].todo = r.todo
      /\ [r EXCEPT !.new = new].id = r.id
  BY DEF Proper, OpIn
<1> QED BY <1>1 DEF Proper, Suited

\* What an upload adds, by the way it goes.
LEMMA AddedProper ==
  ASSUME TInv, NEW o \in Ops, op[o].kind \notin {"none", "clear"}
  PROVE  /\ op[o].path \in Databases =>
              LET q == [op[o] EXCEPT !.new.attached = op[o].ok, !.new.handle = @ /\ op[o].ok] IN
              Proper(q, nextId) /\ q.kind = op[o].kind
         /\ op[o].kind = "upload" =>
            LET q == [op[o] EXCEPT !.new = [NoNew EXCEPT !.volatile = op[o].new.volatile],
                                   !.old = NoOld, !.id = 0] IN
            Proper(q, nextId) /\ q.kind = op[o].kind
         /\ op[o].path \in Databases =>
              LET q == [op[o] EXCEPT !.new.attached = op[o].ok] IN
              Proper(q, nextId) /\ q.kind = op[o].kind
<1> DEFINE r == op[o]
<1>1. Proper(r, nextId) /\ r \in OpIn(nextId) /\ nextId \in Nat \ {0} /\ r.ok \in BOOLEAN /\ r.new \in New
  BY OpProper, FieldsOfOp DEF Proper
<1> HIDE DEF r
<1>2. ASSUME r.path \in Databases
      PROVE  LET q == [r EXCEPT !.new.attached = r.ok, !.new.handle = @ /\ r.ok] IN
              Proper(q, nextId) /\ q.kind = r.kind
  <2> DEFINE h == r.new.handle /\ r.ok
             new == [r.new EXCEPT !.attached = r.ok, !.handle = h]
  <2>1. h \in BOOLEAN
    OBVIOUS
  <2>2. [r EXCEPT !.new.attached = r.ok, !.new.handle = @ /\ r.ok] = [r EXCEPT !.new = new]
    BY <1>1 DEF OpIn, New
  <2> HIDE DEF h
  <2>3. new \in New
    BY <1>1, <2>1 DEF New
  <2> HIDE DEF new
  <2>4. Proper([r EXCEPT !.new = new], nextId) /\ [r EXCEPT !.new = new].kind = r.kind
    BY <1>1, <1>2, <2>3, NewProper DEF r
  <2> QED BY <2>2, <2>4
<1>3. ASSUME r.kind = "upload"
      PROVE  LET q == [r EXCEPT !.new = [NoNew EXCEPT !.volatile = r.new.volatile],
                                   !.old = NoOld, !.id = 0] IN
             Proper(q, nextId) /\ q.kind = r.kind
  <2> DEFINE new == [NoNew EXCEPT !.volatile = r.new.volatile]
             q == [r EXCEPT !.new = new, !.old = NoOld, !.id = 0]
  <2>1. new \in New /\ ~new.attached
    BY <1>1 DEF New, NoNew
  <2>2. 0 \in Ids(nextId)
    BY <1>1 DEF Ids
  <2>3. NoOld \in Olds(nextId)
    BY <2>2 DEF NoOld, Olds
  <2> HIDE DEF new
  <2>4. q \in OpIn(nextId) /\ q.kind = r.kind /\ q.at = r.at /\ q.path = r.path /\ q.todo = r.todo /\ q.new = new
    BY <1>1, <2>1, <2>2, <2>3 DEF OpIn
  <2> HIDE DEF q
  <2>5. Proper(q, nextId) /\ q.kind = r.kind
    BY <1>1, <1>3, <2>1, <2>4 DEF Proper, Suited, r
  <2> QED BY <2>5 DEF q, new
<1>4. ASSUME r.path \in Databases
      PROVE  LET q == [r EXCEPT !.new.attached = r.ok] IN
              Proper(q, nextId) /\ q.kind = r.kind
  <2> DEFINE new == [r.new EXCEPT !.attached = r.ok]
  <2>2. [r EXCEPT !.new.attached = r.ok] = [r EXCEPT !.new = new]
    BY <1>1 DEF OpIn, New
  <2>3. new \in New
    BY <1>1 DEF New
  <2> HIDE DEF new
  <2>4. Proper([r EXCEPT !.new = new], nextId) /\ [r EXCEPT !.new = new].kind = r.kind
    BY <1>1, <1>4, <2>3, NewProper DEF r
  <2> QED BY <2>2, <2>4
<1> QED BY <1>2, <1>3, <1>4 DEF r

-----------------------------------------------------------------------------
(* Each step of an operation. *)

LEMMA UploadRegisteredTyped ==
  ASSUME TInv, NEW o \in Ops, UploadRegistered(o) PROVE TInv'
<1>1. op[o].kind = "upload" /\ op[o].at = "register" /\ Proper(op[o], nextId)
  BY OpProper DEF UploadRegistered, Is
<1>2. CASE Quietly(o, NoOp)
  BY <1>2, TStops
<1>3. CASE op[o].path \in Databases /\ Detaches(o, [op[o] EXCEPT !.at = "detach"], {AliasOf[op[o].path]})
  <2> DEFINE q == [op[o] EXCEPT !.at = "detach"]
  <2>1. Proper(q, nextId) /\ Known(q, list)
    BY <1>1, <1>3, OpProper, MovedProper, MovedKnown
  <2> HIDE DEF q
  <2> QED BY <1>3, <2>1, TDetaches DEF q
<1>4. CASE AddSource(o, op[o]) /\ UNCHANGED rest
  BY <1>1, <1>4, RestSame, TAdds
<1> QED BY <1>2, <1>3, <1>4 DEF UploadRegistered

LEMMA UploadTyped ==
  ASSUME TInv, NEW o \in Ops,
         UploadDetached(o) \/ UploadAttached(o) \/ UploadStored(o) \/ UploadUnstored(o)
  PROVE  TInv'
<1>1. CASE UploadDetached(o)
  BY <1>1, OpProper, TAttaches DEF UploadDetached, Is
<1>2. CASE UploadAttached(o)
  <2> DEFINE q == [op[o] EXCEPT !.new.attached = op[o].ok, !.new.handle = @ /\ op[o].ok]
  <2>1. Proper(q, nextId) /\ q.kind = op[o].kind /\ op[o].kind = "upload"
    BY <1>2, OpProper, AddedProper DEF UploadAttached, Is
  <2>2. AddSource(o, q) /\ UNCHANGED rest
    BY <1>2 DEF UploadAttached
  <2> HIDE DEF q
  <2> QED BY <2>1, <2>2, RestSame, TAdds
<1>3. CASE UploadStored(o)
  BY <1>3, TStops DEF UploadStored
<1>4. CASE UploadUnstored(o) /\ op[o].path \in Databases
  <2> DEFINE q == [op[o] EXCEPT !.new = [NoNew EXCEPT !.volatile = op[o].new.volatile],
                                   !.old = NoOld, !.id = 0]
  <2>1. Proper(q, nextId) /\ q.kind = op[o].kind /\ op[o].kind = "upload"
    BY <1>4, AddedProper DEF UploadUnstored, Is
  <2>2. AddSource(o, q) /\ UNCHANGED rest
    BY <1>4 DEF UploadUnstored
  <2> HIDE DEF q
  <2> QED BY <2>1, <2>2, RestSame, TAdds
<1>5. CASE UploadUnstored(o) /\ op[o].path \notin Databases
  BY <1>5, TStops DEF UploadUnstored
<1> QED BY <1>1, <1>2, <1>3, <1>4, <1>5

LEMMA ReplaceTyped ==
  ASSUME TInv, NEW o \in Ops, ReplaceRegistered(o) \/ ReplaceAttached(o)
  PROVE  TInv'
<1>0. op[o].kind = "replace"
  BY DEF ReplaceRegistered, ReplaceAttached, Is
<1>1. CASE Quietly(o, NoOp)
  BY <1>1, TStops
<1>2. CASE op[o].path \in Databases /\ Attaches(o)
  BY <1>0, <1>2, TAttaches
<1>3. CASE AddSource(o, op[o]) /\ UNCHANGED rest
  BY <1>0, <1>3, OpProper, RestSame, TAdds
<1>4. CASE ReplaceAttached(o)
  <2> DEFINE q == [op[o] EXCEPT !.new.attached = op[o].ok]
  <2>1. Proper(q, nextId) /\ q.kind = op[o].kind
    BY <1>0, <1>4, OpProper, AddedProper DEF ReplaceAttached, Is
  <2>2. AddSource(o, q) /\ UNCHANGED rest
    BY <1>4 DEF ReplaceAttached
  <2> HIDE DEF q
  <2> QED BY <1>0, <2>1, <2>2, RestSame, TAdds
<1> QED BY <1>1, <1>2, <1>3, <1>4 DEF ReplaceRegistered

LEMMA OldTyped ==
  ASSUME TInv, NEW o \in Ops, OldDetached(o) \/ OldUnhandled(o), UNCHANGED rest
  PROVE  TInv'
<1>1. op[o].at \in {"detached", "unhandled"}
  BY DEF OldDetached, OldUnhandled
<1>2. Proper(op[o], nextId) /\ op[o].kind \notin {"none", "clear"} /\ RestKept
  BY <1>1, OpProper, RestSame
<1>3. CASE RemoveHandle(o, op[o], op[o].old.id) /\ UNCHANGED pending
  BY <1>2, <1>3, TRemovesHandle DEF TInv
<1>4. CASE Filtered(o, op[o], op[o].old.id)
  BY <1>2, <1>4, TFilters
<1> QED BY <1>3, <1>4 DEF OldDetached, OldUnhandled

LEMMA ReloadTyped ==
  ASSUME TInv, NEW o \in Ops, ReloadPermit(o) \/ ReloadForgotten(o)
  PROVE  TInv'
<1>0. op[o].kind = "reload" /\ Proper(op[o], nextId) /\ nextId \in Nat \ {0}
  BY OpProper DEF ReloadPermit, ReloadForgotten, Is
<1>1. CASE ReloadFails(o, op[o]) /\ UNCHANGED faulty
  BY <1>0, <1>1, TReloadFails DEF TInv
<1>2. CASE Quietly(o, [op[o] EXCEPT !.at = "register"])
  <2> DEFINE q == [op[o] EXCEPT !.at = "register"]
  <2>1. Proper(q, nextId)
    BY <1>0, MovedProper
  <2>2. q.at = "register" /\ q.kind = "reload"
    BY <1>0 DEF Proper, OpIn
  <2> HIDE DEF q
  <2>3. Known(q, list)
    BY <2>2 DEF Known, Marks
  <2> QED BY <1>2, <2>1, <2>3, TQuietly DEF q
<1> QED BY <1>1, <1>2 DEF ReloadPermit, ReloadForgotten

LEMMA ReloadVerifiedTyped ==
  ASSUME TInv, NEW o \in Ops, ReloadVerified(o) PROVE TInv'
<1> DEFINE r == op[o]
<1>0. r.kind = "reload" /\ Proper(r, nextId) /\ nextId \in Nat \ {0} /\ Listed(list, nextId)
  BY OpProper DEF ReloadVerified, Is
<1>1. CASE Fails(o) /\ UNCHANGED faulty
  BY <1>1, TFails DEF TInv
<1>2. CASE /\ At(r.path) # {}
           /\ SetList(Updated(First(At(r.path)).id, {MarkRestored(First(At(r.path)))}))
           /\ Goto(o, NextHandle(r))
           /\ UNCHANGED <<db, intro, handles, pending, nextId, faulty, rest>>
  <2>1. Kept(list, list', nextId) /\ dirty' = TRUE
    BY <1>0, <1>2, FirstMarkedKept DEF SetList
  <2>2. Beside
    BY <1>2, <2>1, RestSame DEF Beside, TInv
  <2>3. Proper(NextHandle(r), nextId) /\ Known(NextHandle(r), list)
    BY <1>0, NextHandleProper DEF Proper, Suited
  <2> QED BY <1>2, <2>2, <2>3, TGoes
<1>3. CASE AddSource(o, [r EXCEPT !.new = [attached |-> FALSE, handle |-> TRUE, volatile |-> FALSE]]) /\ UNCHANGED rest
  <2> DEFINE new == [attached |-> FALSE, handle |-> TRUE, volatile |-> FALSE]
             q == [r EXCEPT !.new = new]
  <2>1. new \in New /\ ~new.attached
    BY DEF New
  <2> HIDE DEF new
  <2>2. Proper(q, nextId) /\ q.kind = r.kind
    BY <1>0, <2>1, NewProper
  <2>3. AddSource(o, q) /\ UNCHANGED rest
    BY <1>3 DEF new
  <2> HIDE DEF q, r
  <2> QED BY <1>0, <2>2, <2>3, RestSame, TAdds
<1> QED BY <1>1, <1>2, <1>3 DEF ReloadVerified

LEMMA RegisteredTyped ==
  ASSUME TInv, NEW o \in Ops, Registered(o) PROVE TInv'
<1> DEFINE r == op[o]
           id == IF r.kind = "reattach" THEN r.id
                 ELSE IF At(r.path) = {} THEN 0 ELSE First(At(r.path)).id
           b == db[AliasOf[r.path]] = r.path
<1>0. /\ r.kind \in {"reload", "reattach"} /\ r.at = "register" /\ Proper(r, nextId) /\ Known(r, list)
      /\ nextId \in Nat \ {0} /\ Listed(list, nextId)
  BY OpProper DEF Registered, Is
<1>1. CASE Fails(o) /\ UNCHANGED faulty
  BY <1>1, TFails DEF TInv
<1>2. CASE r.path \in Databases /\ Quietly(o, [r EXCEPT !.at = "check", !.id = id, !.ok = b])
  <2> DEFINE q == [r EXCEPT !.at = "check", !.id = id, !.ok = b]
  <2>1. id \in Ids(nextId) /\ \A s \in list : s.id = id => s.path = r.path
    <3>1. CASE r.kind = "reattach"
      BY <1>0, <3>1, FieldsOfOp DEF Proper, Known, Marks
    <3>2. CASE r.kind # "reattach" /\ At(r.path) = {}
      BY <1>0, <3>2 DEF Listed, Sourced, Source, Ids
    <3>3. CASE r.kind # "reattach" /\ At(r.path) # {}
      BY <1>0, <3>3, FirstOfPath DEF Listed
    <3> QED BY <3>1, <3>2, <3>3
  <2>2. b \in BOOLEAN
    OBVIOUS
  <2> HIDE DEF id, b
  <2>3. q \in OpIn(nextId) /\ q.kind = r.kind /\ q.at = "check" /\ q.id = id /\ q.path = r.path /\ q.new = r.new /\ q.todo = r.todo
    BY <1>0, <2>1, <2>2, AtIn DEF Proper, OpIn
  <2> HIDE DEF q
  <2>4. Proper(q, nextId) /\ Known(q, list)
    <3> HIDE DEF r
    <3> QED BY <1>0, <1>2, <2>1, <2>3 DEF Proper, Suited, Known
  <2> QED BY <1>2, <2>4, TQuietly DEF q
<1>3. CASE Quietly(o, [r EXCEPT !.at = "verify"])
  <2> DEFINE q == [r EXCEPT !.at = "verify"]
  <2>1. Proper(q, nextId) /\ Known(q, list)
    BY <1>0, MovedProper, MovedKnown
  <2> HIDE DEF q
  <2> QED BY <1>3, <2>1, TQuietly DEF q
<1> QED BY <1>1, <1>2, <1>3 DEF Registered

LEMMA ReattachDeniedTyped ==
  ASSUME TInv, NEW o \in Ops, ReattachDenied(o) PROVE TInv'
<1>1. list' = Updated(op[o].id, {Denied(s) : s \in Of(op[o].id)}) /\ dirty' = TRUE
  BY DEF ReattachDenied, SetList, Denied
<1>2. Kept(list, list', nextId)
  BY <1>1, MarkedKept DEF TInv
<1>3. Goto(o, NoOp) /\ faulty' = TRUE /\ UNCHANGED <<db, intro, handles, pending, nextId, rest>>
  BY DEF ReattachDenied
<1>4. Beside
  BY <1>1, <1>2, <1>3, RestSame DEF Beside, TInv
<1> QED BY <1>3, <1>4, NoOpProper, TGoes DEF TInv

LEMMA ReattachedTyped ==
  ASSUME TInv, NEW o \in Ops, op[o].kind \in {"reload", "reattach"}, op[o].at \in {"check", "attach"},
         Reattached(o, op[o])
  PROVE  TInv'
<1> DEFINE r == op[o]
<1>0. Proper(r, nextId) /\ Known(r, list) /\ r.path \in Databases /\ nextId \in Nat \ {0}
  BY OpProper
<1>1. CASE r.id # 0
  <2>1. UpdateAndIntrospect(o, r, Updated(r.id, {MarkAttached(s) : s \in Of(r.id)}))
    BY <1>1 DEF Reattached
  <2>2. \A s \in Of(r.id) : s.path \in Databases
    BY <1>0 DEF Of, Known, Marks
  <2>3. Kept(list, Updated(r.id, {MarkAttached(s) : s \in Of(r.id)}), nextId)
    BY <2>2, MarkedKept DEF TInv
  <2> DEFINE l == Updated(r.id, {MarkAttached(s) : s \in Of(r.id)})
  <2>4. Kept(list, l, nextId) /\ UpdateAndIntrospect(o, r, l)
    BY <2>1, <2>3
  <2> HIDE DEF l
  <2> QED BY <1>0, <2>4, TUpdates
<1>2. CASE r.id = 0
  <2> DEFINE new == [attached |-> TRUE, handle |-> TRUE, volatile |-> FALSE]
             q == [r EXCEPT !.new = new]
  <2>1. new \in New
    BY DEF New
  <2> HIDE DEF new
  <2>2. Proper(q, nextId) /\ q.kind = r.kind
    BY <1>0, <2>1, NewProper
  <2>3. AddSource(o, q) /\ UNCHANGED rest
    BY <1>2 DEF Reattached, new
  <2> HIDE DEF q
  <2> QED BY <2>2, <2>3, RestSame, TAdds
<1> QED BY <1>1, <1>2

LEMMA ReattachTyped ==
  ASSUME TInv, NEW o \in Ops, Checked(o) \/ MadeRoom(o) \/ AttachAnswered(o)
  PROVE  TInv'
<1>0. op[o].kind \in {"reload", "reattach"} /\ op[o].at \in {"check", "detach", "attach"}
  BY DEF Checked, MadeRoom, AttachAnswered, Reattaches
<1>1. Proper(op[o], nextId) /\ Known(op[o], list) /\ op[o].path \in Databases /\ Marks(op[o])
  BY <1>0, OpProper DEF Marks
<1>2. CASE Checked(o) /\ ~op[o].ok
  <2> DEFINE q == [op[o] EXCEPT !.at = "detach"]
  <2>1. Proper(q, nextId) /\ Known(q, list)
    BY <1>0, <1>1, OpProper, MovedProper, StaysKnown
  <2>2. Detaches(o, q, {AliasOf[op[o].path]} \cup Holders(op[o].path))
    BY <1>2 DEF Checked
  <2> HIDE DEF q
  <2> QED BY <2>1, <2>2, TDetaches
<1>3. CASE (Checked(o) \/ AttachAnswered(o)) /\ op[o].ok
  BY <1>0, <1>3, ReattachedTyped DEF Checked, AttachAnswered
<1>4. CASE MadeRoom(o)
  BY <1>0, <1>1, <1>4, TAttaches DEF MadeRoom
<1>5. CASE AttachAnswered(o) /\ ~op[o].ok
  BY <1>5, TFails DEF AttachAnswered, TInv
<1> QED BY <1>2, <1>3, <1>4, <1>5

LEMMA ToggleTyped ==
  ASSUME TInv, NEW o \in Ops, ToggleDetached(o) \/ ToggleAttached(o)
  PROVE  TInv'
<1>0. op[o].kind = "toggle" /\ op[o].at \in {"detach", "attach"} /\ op[o].path \in Databases /\ Proper(op[o], nextId)
  BY OpProper DEF ToggleDetached, ToggleAttached, Is
<1>1. CASE Quietly(o, NoOp)
  BY <1>1, TStops
<1>2. CASE Attaches(o)
  BY <1>0, <1>2, TAttaches
<1>3. CASE UpdateAndIntrospect(o, op[o], list)
  BY <1>0, <1>3, SameKept, TUpdates
<1> QED BY <1>1, <1>2, <1>3 DEF ToggleDetached, ToggleAttached

LEMMA RestoreTyped ==
  ASSUME TInv, NEW o \in Ops,
         RestoreAsked(o) \/ RestoreCancelled(o) \/ RestorePicked(o) \/ RestoreRegistered(o)
  PROVE  TInv'
<1>0. op[o].kind = "restore" /\ Proper(op[o], nextId) /\ nextId \in Nat \ {0} /\ op[o].path \in Paths
  BY OpProper DEF RestoreAsked, RestoreCancelled, RestorePicked, RestoreRegistered, Is
<1>1. \A at \in {"register", "picker"} :
        Proper([op[o] EXCEPT !.at = at], nextId) /\ Known([op[o] EXCEPT !.at = at], list)
  BY <1>0, MovedProper, MovedKnown
<1>2. CASE RestoreAsked(o)
  BY <1>1, <1>2, TQuietly DEF RestoreAsked
<1>3. CASE RestoreCancelled(o)
  BY <1>3, TStops DEF RestoreCancelled
<1>4. CASE RestorePicked(o)
  <2>1. [id |-> op[o].id, path |-> op[o].path] \in HandlesTo(nextId)
    <3>1. op[o].id \in Ids(nextId) /\ op[o].id # 0
      BY <1>0, FieldsOfOp DEF Proper, Suited
    <3> QED BY <1>0, <3>1 DEF Ids, HandlesTo, Handle
  <2>2. handles' \subseteq HandlesTo(nextId) /\ faulty' \in BOOLEAN
    BY <1>4, <2>1 DEF RestorePicked, TInv
  <2> DEFINE q == [op[o] EXCEPT !.at = "register"]
  <2>3. Proper(q, nextId) /\ Known(q, list)
    BY <1>1
  <2> HIDE DEF q
  <2> QED BY <1>4, <2>2, <2>3, RestSame, TOnward DEF RestorePicked, TInv, q
<1>5. CASE RestoreRegistered(o)
  <2>1. CASE Goto(o, NoOp) /\ faulty' = TRUE /\ UNCHANGED <<list, dirty, db, intro, handles, pending, nextId, rest>>
    BY <2>1, NoOpProper, RestSame, TOnward DEF TInv
  <2>2. CASE UpdateAndIntrospect(o, op[o], Updated(op[o].id,
               {[MarkRestored(s) EXCEPT !.handle = TRUE] : s \in Of(op[o].id)}))
    <3> DEFINE l == Updated(op[o].id, {WithHandle(MarkRestored(s)) : s \in Of(op[o].id)})
    <3>1. Kept(list, l, nextId)
      BY MarkedKept DEF TInv
    <3>2. UpdateAndIntrospect(o, op[o], l)
      BY <2>2 DEF WithHandle
    <3> HIDE DEF l
    <3> QED BY <1>0, <3>1, <3>2, TUpdates
  <2> QED BY <1>5, <2>1, <2>2 DEF RestoreRegistered
<1> QED BY <1>2, <1>3, <1>4, <1>5

LEMMA SchemaReadTyped ==
  ASSUME TInv, NEW o \in Ops, SchemaRead(o) PROVE TInv'
<1>1. CASE /\ SetList(Updated(op[o].id, {MarkIntrospected(s) : s \in Of(op[o].id)}))
           /\ Goto(o, Ended(op[o]))
           /\ UNCHANGED <<db, intro, handles, pending, nextId, faulty, rest>>
  <2>1. Kept(list, list', nextId) /\ dirty' = TRUE
    BY <1>1, MarkedKept DEF SetList, TInv
  <2>2. Beside
    BY <1>1, <2>1, RestSame DEF Beside, TInv
  <2>3. Proper(Ended(op[o]), nextId) /\ Known(Ended(op[o]), list)
    BY OpProper, EndedProper
  <2> QED BY <1>1, <2>2, <2>3, TGoes
<1>2. CASE Fails(o) /\ faulty' = (faulty \/ op[o].ok)
  BY <1>2, TFails DEF TInv
<1> QED BY <1>1, <1>2 DEF SchemaRead

LEMMA RemoveOperation ==
  ASSUME NEW n \in Nat \ {0}, NEW p \in Paths
  PROVE  Proper(Operation("remove", "none", p), n) /\ Operation("remove", "none", p).kind = "remove"
<1> DEFINE q == Operation("remove", "none", p)
<1>1. q \in OpIn(n)
  BY KindIn, AtIn, OperationIn
<1>2. q.kind = "remove" /\ q.at = "none" /\ q.path = p /\ q.new = NoNew
  BY DEF Operation, NoOp
<1> HIDE DEF q
<1>3. Proper(q, n) /\ q.kind = "remove"
  BY <1>1, <1>2 DEF Proper, Suited, NoNew
<1> QED BY <1>3 DEF q

LEMMA DeleteTyped ==
  ASSUME TInv, NEW o \in Ops, DeleteDetached(o) PROVE TInv'
<1>1. CASE Quietly(o, NoOp)
  BY <1>1, TStops
<1>2. CASE /\ {s \in list : s.id = op[o].id} # {}
           /\ Remove(o, Operation("remove", "none", op[o].path), First({s \in list : s.id = op[o].id}), pending)
           /\ UNCHANGED rest
  <2> DEFINE S == {s \in list : s.id = op[o].id}
             t == First(S)
             r == Operation("remove", "none", op[o].path)
  <2>1. t \in list
    <3>1. \A s \in S : s.id \in Nat
      BY DEF TInv, Listed, Sourced, Source
    <3>2. t \in S
      <4> HIDE DEF S
      <4> QED BY <1>2, <3>1, FirstIsThere DEF S
    <3> QED BY <3>2
  <2>2. op[o].path \in Paths
    BY OpProper DEF DeleteDetached, Is
  <2>3. Proper(r, nextId) /\ r.kind = "remove"
    BY <2>2, RemoveOperation DEF TInv
  <2>4. Remove(o, r, t, pending) /\ RestKept
    BY <1>2, RestSame
  <2> HIDE DEF r, t
  <2> QED BY <2>1, <2>3, <2>4, TRemoves DEF TInv
<1> QED BY <1>1, <1>2 DEF DeleteDetached

LEMMA ClearTyped ==
  ASSUME TInv, NEW o \in Ops, ClearListed(o) \/ Cleared(o) PROVE TInv'
<1>0. op[o].kind = "clear" /\ Proper(op[o], nextId) /\ nextId \in Nat \ {0}
  BY OpProper DEF ClearListed, Cleared, Is
<1>1. CASE \E a \in op[o].todo : Detaches(o, [op[o] EXCEPT !.todo = @ \ {a}], {a})
  <2>1. PICK a \in op[o].todo : Detaches(o, [op[o] EXCEPT !.todo = @ \ {a}], {a})
    BY <1>1
  <2> DEFINE todo == op[o].todo \ {a}
             q == [op[o] EXCEPT !.todo = todo]
  <2>2. todo \in Todos
    BY <1>0, FieldsOfOp DEF Proper, Todos
  <2>3. Detaches(o, q, {a})
    BY <1>0, <2>1, FieldsOfOp DEF Proper, OpFields
  <2> HIDE DEF todo
  <2>4. q \in OpIn(nextId) /\ q.kind = "clear" /\ q.at = op[o].at /\ q.new = op[o].new /\ q.path = op[o].path
    BY <1>0, <2>2 DEF Proper, OpIn
  <2> HIDE DEF q
  <2>5. Proper(q, nextId) /\ Known(q, list)
    BY <1>0, <2>4 DEF Proper, Suited, Known, Marks
  <2> QED BY <2>3, <2>5, TDetaches
<1>2. CASE /\ handles' = {} /\ Goto(o, [op[o] EXCEPT !.at = "clear"])
           /\ UNCHANGED <<list, dirty, db, intro, pending, nextId, faulty, rest>>
  <2> DEFINE q == [op[o] EXCEPT !.at = "clear"]
  <2>1. q \in OpIn(nextId) /\ q.kind = "clear" /\ q.at = "clear" /\ q.new = op[o].new /\ q.path = op[o].path
    BY <1>0, AtIn DEF Proper, OpIn
  <2>2. Goto(o, q)
    BY <1>2
  <2> HIDE DEF q
  <2>3. Proper(q, nextId) /\ Known(q, list)
    BY <1>0, <2>1 DEF Proper, Suited, Known, Marks
  <2> QED BY <1>2, <2>2, <2>3, RestSame, TOnward DEF TInv
<1>3. CASE handles' = handles /\ Goto(o, NoOp) /\ UNCHANGED <<list, dirty, db, intro, pending, nextId, faulty, rest>>
  BY <1>0, <1>3, NoOpProper, RestSame, TOnward DEF TInv
<1>4. CASE Cleared(o)
  <2>1. list' = {} /\ dirty' = TRUE /\ stored' = {} /\ Goto(o, NoOp)
        /\ UNCHANGED <<db, intro, handles, nextId, faulty, starts, crossed>>
    BY <1>4 DEF Cleared, SetList
  <2>2. wiped' \in BOOLEAN /\ pending' \in Pendings
    BY <1>4 DEF Cleared, TInv, Pendings
  <2>3. Kept(list, list', nextId)
    BY <2>1 DEF Kept
  <2>4. Beside
    BY <2>1, <2>2, <2>3 DEF Beside, RestKept, TInv
  <2> QED BY <1>0, <2>1, <2>4, NoOpProper, TGoes
<1> QED BY <1>1, <1>2, <1>3, <1>4 DEF ClearListed

LEMMA StepTyped ==
  ASSUME TInv, NEW o \in Ops, Step(o) PROVE TInv'
BY UploadRegisteredTyped, UploadTyped, ReplaceTyped, OldTyped, ReloadTyped, ReloadVerifiedTyped,
   RegisteredTyped, ReattachDeniedTyped, ReattachTyped, ToggleTyped, RestoreTyped, SchemaReadTyped,
   DeleteTyped, ClearTyped DEF Step

-----------------------------------------------------------------------------
(* What the user starts, and the rest. *)

LEMMA TBegins ==
  ASSUME TInv, NEW o \in Ops, NEW r, Proper(r, nextId), Known(r, list), Begin(o, r)
  PROVE  TInv'
<1>1. RestKept
  BY RestStarts DEF Begin
<1> QED BY <1>1, TOnward DEF Begin, TInv

\* An operation on a source of the list.
LEMMA StartedProper ==
  ASSUME TInv, NEW s \in list, NEW k, NEW a,
         k \in {"reattach", "toggle", "refresh", "restore", "delete"},
         a \in {"register", "detach", "introspect", "ask"}, a = "detach" => s.path \in Databases
  PROVE  /\ Proper([Operation(k, a, s.path) EXCEPT !.id = s.id], nextId)
         /\ Known([Operation(k, a, s.path) EXCEPT !.id = s.id], list)
         /\ [Operation(k, a, s.path) EXCEPT !.id = s.id].kind = k
         /\ [Operation(k, a, s.path) EXCEPT !.id = s.id].at = a
         /\ [Operation(k, a, s.path) EXCEPT !.id = s.id].path = s.path
         /\ [Operation(k, a, s.path) EXCEPT !.id = s.id].id = s.id
         /\ [Operation(k, a, s.path) EXCEPT !.id = s.id].new = NoNew
         /\ [Operation(k, a, s.path) EXCEPT !.id = s.id].todo = {}
<1> DEFINE q == [Operation(k, a, s.path) EXCEPT !.id = s.id]
<1>1. nextId \in Nat \ {0} /\ s.id \in Ids(nextId) /\ s.id # 0 /\ s.path \in Paths
  BY DEF TInv, Listed, Sourced, Source, Ids
<1>2. /\ Operation(k, a, s.path) \in OpIn(nextId)
      /\ Operation(k, a, s.path).kind = k /\ Operation(k, a, s.path).at = a
      /\ Operation(k, a, s.path).path = s.path /\ Operation(k, a, s.path).new = NoNew
      /\ Operation(k, a, s.path).todo = {}
  <2>1. k \in Kinds /\ a \in Ats
    BY KindIn, AtIn
  <2> QED BY <1>1, <2>1, OperationIn
<1>3. /\ q \in OpIn(nextId)
      /\ q.kind = k /\ q.at = a /\ q.path = s.path /\ q.id = s.id /\ q.new = NoNew /\ q.todo = {}
  <2> HIDE DEF Operation
  <2> QED BY <1>1, <1>2 DEF OpIn
<1> HIDE DEF q
<1>5. Proper(q, nextId)
  BY <1>1, <1>3 DEF Proper, Suited, NoNew
<1>4. Known(q, list)
  BY <1>3 DEF Known, TInv, Listed
<1> QED BY <1>3, <1>4, <1>5 DEF q

\* ... that has an answer already.
LEMMA StartedWith ==
  ASSUME TInv, NEW s \in list, NEW k, NEW a, NEW ok \in BOOLEAN,
         k \in {"reattach", "toggle", "refresh", "restore", "delete"},
         a \in {"register", "detach", "introspect", "ask"}, a = "detach" => s.path \in Databases,
         NEW q, q = [Operation(k, a, s.path) EXCEPT !.id = s.id, !.ok = ok]
  PROVE  Proper(q, nextId) /\ Known(q, list)
<1> DEFINE r == Operation(k, a, s.path)
<1>1. nextId \in Nat \ {0} /\ s.id \in Ids(nextId) /\ s.id # 0 /\ s.path \in Paths
  BY DEF TInv, Listed, Sourced, Source, Ids
<1>2. /\ r \in OpIn(nextId) /\ r.kind = k /\ r.at = a /\ r.path = s.path /\ r.new = NoNew /\ r.todo = {}
  <2>1. k \in Kinds /\ a \in Ats
    BY KindIn, AtIn
  <2> QED BY <1>1, <2>1, OperationIn
<1>3. q = [r EXCEPT !.id = s.id, !.ok = ok]
  OBVIOUS
<1> HIDE DEF r
<1>4. /\ q \in OpIn(nextId)
      /\ q.kind = k /\ q.at = a /\ q.path = s.path /\ q.id = s.id /\ q.new = NoNew /\ q.todo = {}
  BY <1>1, <1>2, <1>3 DEF OpIn
<1>5. Proper(q, nextId)
  BY <1>1, <1>4 DEF Proper, Suited, NoNew
<1>6. Known(q, list)
  BY <1>4 DEF Known, TInv, Listed
<1> QED BY <1>5, <1>6

LEMMA UploadStarts ==
  ASSUME TInv, NEW o \in Ops, NEW p \in Paths, NEW drag \in BOOLEAN, Upload(o, p, drag)
  PROVE  TInv'
<1> DEFINE new == [attached |-> FALSE, handle |-> ~drag, volatile |-> drag]
           r == Operation("upload", "register", p)
           q == [r EXCEPT !.new = new]
<1>0. nextId \in Nat \ {0} /\ 0 \in Ids(nextId)
  BY DEF TInv, Ids
<1>1. new \in New /\ ~new.attached
  BY DEF New
<1> HIDE DEF new
<1>2. r \in OpIn(nextId) /\ r.kind = "upload" /\ r.at = "register" /\ r.path = p /\ r.todo = {}
  BY <1>0, KindIn, AtIn, OperationIn
<1> HIDE DEF r
<1>3. /\ q \in OpIn(nextId) /\ q.kind = "upload" /\ q.at = "register" /\ q.path = p /\ q.todo = {}
      /\ q.new = new
  BY <1>1, <1>2 DEF OpIn
<1>4. Begin(o, q)
  BY DEF Upload, new, r
<1> HIDE DEF q
<1>5. Proper(q, nextId) /\ Known(q, list)
  BY <1>1, <1>3 DEF Proper, Suited, Known, Marks
<1> QED BY <1>4, <1>5, TBegins

LEMMA ReplaceStarts ==
  ASSUME TInv, NEW o \in Ops, NEW p \in Paths, ReloadFile(o, p)
  PROVE  TInv'
<1> DEFINE r == Operation("replace", "register", p)
<1>0. nextId \in Nat \ {0} /\ 0 \in Ids(nextId)
  BY DEF TInv, Ids
<1>1. /\ r \in OpIn(nextId) /\ r.kind = "replace" /\ r.at = "register" /\ r.path = p /\ r.todo = {}
      /\ r.new = NoNew
  BY <1>0, KindIn, AtIn, OperationIn
<1>2. Begin(o, r)
  BY DEF ReloadFile
<1> HIDE DEF r
<1>3. Proper(r, nextId) /\ Known(r, list)
  BY <1>1 DEF Proper, Suited, Known, Marks, NoNew
<1> QED BY <1>2, <1>3, TBegins

LEMMA ReattachStarts ==
  ASSUME TInv, NEW o \in Ops, NEW s \in list, Reattach(o, s)
  PROVE  TInv'
<1> DEFINE q == [Operation("reattach", "register", s.path) EXCEPT !.id = s.id]
<1>1. Proper(q, nextId) /\ Known(q, list)
  BY StartedProper
<1>2. Begin(o, q)
  BY DEF Reattach
<1> HIDE DEF q
<1> QED BY <1>1, <1>2, TBegins

LEMMA RestoreStarts ==
  ASSUME TInv, NEW o \in Ops, NEW s \in list, RestoreAccess(o, s)
  PROVE  TInv'
<1> DEFINE ok == \E h \in handles : h.id = s.id
           q == [Operation("restore", "ask", s.path) EXCEPT !.id = s.id, !.ok = ok]
<1>1. ok \in BOOLEAN
  OBVIOUS
<1>2. Begin(o, q)
  BY DEF RestoreAccess
<1> HIDE DEF ok
<1>3. Proper(q, nextId) /\ Known(q, list)
  BY <1>1, StartedWith
<1> HIDE DEF q
<1> QED BY <1>2, <1>3, TBegins

LEMMA ToggleStarts ==
  ASSUME TInv, NEW o \in Ops, NEW s \in list, ToggleWriteMode(o, s)
  PROVE  TInv'
<1> DEFINE ok == db[AliasOf[s.path]] # None
           q == [Operation("toggle", "detach", s.path) EXCEPT !.id = s.id, !.ok = ok]
<1>1. ok \in BOOLEAN /\ s.path \in Databases
  BY DEF ToggleWriteMode, TInv, Listed, Sourced
<1>2. /\ Start(o) /\ Goto(o, q) /\ db' = Detached({AliasOf[s.path]})
      /\ UNCHANGED <<list, pending, intro, nextId, handles, dirty, faulty>>
  BY DEF ToggleWriteMode
<1> HIDE DEF ok
<1>3. Proper(q, nextId) /\ Known(q, list)
  BY <1>1, StartedWith
<1> HIDE DEF q
<1> QED BY <1>2, <1>3, RestStarts, TOnward, DetachedTyped DEF TInv

LEMMA RefreshStarts ==
  ASSUME TInv, NEW o \in Ops, NEW s \in list, Refresh(o, s)
  PROVE  TInv'
<1> DEFINE r == [Operation("refresh", "introspect", s.path) EXCEPT !.id = s.id]
<1>1. Proper(r, nextId) /\ r.kind = "refresh"
  BY StartedProper
<1>2. Start(o) /\ IntrospectSchema(o, r, list)
      /\ UNCHANGED <<list, pending, intro, nextId, handles, dirty, faulty>>
  BY DEF Refresh
<1> HIDE DEF r
<1>3. PICK q : Goto(o, q) /\ Proper(q, nextId) /\ Known(q, list) /\ db' \in Dbs
  BY <1>1, <1>2, IntrospectSchemaProper
<1> QED BY <1>2, <1>3, RestStarts, TOnward DEF TInv

LEMMA TRemovesOnce ==
  ASSUME TInv, NEW o \in Ops, NEW s \in list, Start(o),
         Remove(o, Operation("remove", "none", s.path), s, pending)
  PROVE  TInv'
<1> DEFINE r == Operation("remove", "none", s.path)
<1>1. Proper(r, nextId) /\ r.kind = "remove"
  BY RemoveOperation DEF TInv, Listed, Sourced, Source
<1>2. Remove(o, r, s, pending) /\ RestKept
  BY RestStarts
<1> HIDE DEF r
<1> QED BY <1>1, <1>2, TRemoves DEF TInv

LEMMA DeleteStarts ==
  ASSUME TInv, NEW o \in Ops, NEW s \in list, DeleteFile(o, s) \/ DeleteDatabase(o, s)
  PROVE  TInv'
<1>1. CASE DeleteFile(o, s)
  BY <1>1, TRemovesOnce DEF DeleteFile
<1>2. CASE DeleteDatabase(o, s)
  <2> DEFINE S == {x \in list : x.named /\ AliasOf[x.path] = AliasOf[s.path]}
             t == IF s.named THEN First(S) ELSE s
  <2>1. t \in list
    <3>1. CASE s.named
      <4>1. s \in S /\ \A x \in S : x.id \in Nat
        BY <3>1 DEF TInv, Listed, Sourced, Source
      <4>2. First(S) \in S
        <5> HIDE DEF S
        <5> QED BY <4>1, FirstIsThere
      <4> QED BY <3>1, <4>2
    <3>2. CASE ~s.named
      BY <3>2
    <3> QED BY <3>1, <3>2
  <2>2. Start(o)
    BY <1>2 DEF DeleteDatabase
  <2>3. \/ /\ t.attached
           /\ db' = Detached({AliasOf[t.path]})
           /\ Goto(o, [Operation("delete", "detach", t.path) EXCEPT
                      !.id = t.id, !.ok = (db[AliasOf[t.path]] # None)])
           /\ UNCHANGED <<list, pending, intro, nextId, handles, dirty, faulty>>
        \/ Remove(o, Operation("remove", "none", t.path), t, pending)
    BY <1>2 DEF DeleteDatabase
  <2> HIDE DEF t
  <2>4. CASE Remove(o, Operation("remove", "none", t.path), t, pending)
    BY <2>1, <2>2, <2>4, TRemovesOnce
  <2>5. CASE /\ t.attached
             /\ db' = Detached({AliasOf[t.path]})
             /\ Goto(o, [Operation("delete", "detach", t.path) EXCEPT
                        !.id = t.id, !.ok = (db[AliasOf[t.path]] # None)])
             /\ UNCHANGED <<list, pending, intro, nextId, handles, dirty, faulty>>
    <3> DEFINE ok == db[AliasOf[t.path]] # None
               q == [Operation("delete", "detach", t.path) EXCEPT !.id = t.id, !.ok = ok]
    <3>1. ok \in BOOLEAN /\ t.path \in Databases
      BY <2>1, <2>5 DEF TInv, Listed, Sourced
    <3>2. Goto(o, q) /\ db' = Detached({AliasOf[t.path]})
          /\ UNCHANGED <<list, pending, intro, nextId, handles, dirty, faulty>>
      BY <2>5
    <3> HIDE DEF ok
    <3>3. Proper(q, nextId) /\ Known(q, list)
      BY <2>1, <3>1, StartedWith
    <3> HIDE DEF q
    <3> QED BY <2>2, <3>2, <3>3, RestStarts, TOnward, DetachedTyped DEF TInv
  <2> QED BY <2>3, <2>4, <2>5
<1> QED BY <1>1, <1>2

LEMMA ClearOperation ==
  ASSUME NEW n \in Nat \ {0}, NEW todo, todo \subseteq Aliases, NEW l,
         NEW q, q = [Operation("clear", "list", None) EXCEPT !.todo = todo]
  PROVE  /\ Proper(q, n) /\ Known(q, l) /\ q.kind = "clear" /\ q.at = "list" /\ q.todo = todo
         /\ q.new = NoNew /\ q.id = 0 /\ q.path = None
<1>1. "clear" \in Kinds /\ "list" \in Ats /\ todo \in Todos /\ None \in Paths \cup {None}
  BY DEF Kinds, Ats, Todos
<1>2. q = [NoOp EXCEPT !.kind = "clear", !.at = "list", !.path = None, !.todo = todo]
  BY DEF Operation, NoOp
<1>3. q \in OpIn(n)
  BY <1>1, <1>2, NoOpIn DEF OpIn
<1>4. q.kind = "clear" /\ q.at = "list" /\ q.todo = todo /\ q.new = NoNew /\ q.id = 0 /\ q.path = None
  BY <1>2 DEF NoOp
<1> QED BY <1>3, <1>4 DEF Proper, Suited, Known, Marks, NoNew

LEMMA ClearStarts ==
  ASSUME TInv, NEW o \in Ops, Clear(o)
  PROVE  TInv'
<1> DEFINE todo == {a \in Aliases : db[a] # None}
           q == [Operation("clear", "list", None) EXCEPT !.todo = todo]
<1>1. Begin(o, q) /\ todo \subseteq Aliases
  BY DEF Clear
<1> HIDE DEF todo
<1>2. Proper(q, nextId) /\ Known(q, list)
  BY <1>1, ClearOperation DEF TInv
<1> HIDE DEF q
<1> QED BY <1>1, <1>2, TBegins

LEMMA UserTyped ==
  ASSUME TInv, NEW o \in Ops, UserStarts(o) PROVE TInv'
BY UploadStarts, ReplaceStarts, ReattachStarts, RestoreStarts, ToggleStarts, RefreshStarts,
   DeleteStarts, ClearStarts DEF UserStarts

LEMMA IntrospectedTyped ==
  ASSUME TInv, NEW i \in intro, Introspected(i) PROVE TInv'
<1>1. UNCHANGED <<pending, op, nextId, db, handles, rest>> /\ intro' \subseteq intro
  BY DEF Introspected
<1>2. Kept(list, list', nextId) /\ dirty' = TRUE /\ faulty' \in BOOLEAN
  <2>1. CASE SetList(Updated(i.id, {[MarkIntrospected(s) EXCEPT !.busy = FALSE] : s \in Of(i.id)})) /\ UNCHANGED faulty
    BY <2>1, MarkedKept DEF SetList, TInv, Idle
  <2>2. CASE SetList(Updated(i.id, {[s EXCEPT !.failed = TRUE, !.busy = FALSE] : s \in Of(i.id)}))
             /\ faulty' = (faulty \/ i.ok)
    <3>1. faulty' \in BOOLEAN
      BY <2>2 DEF TInv
    <3> QED BY <2>2, <3>1, MarkedKept DEF SetList, TInv, Stopped
  <2> QED BY <2>1, <2>2 DEF Introspected
<1>3. Beside
  BY <1>1, <1>2, RestSame DEF Beside, TInv
<1> QED BY <1>1, <1>3, TStands

LEMMA SaveTyped ==
  ASSUME TInv, Save PROVE TInv'
<1>1. RestKept
  BY DEF Save, RestKept, TInv
<1>2. Beside
  BY <1>1, SameKept DEF Save, Beside, TInv
<1> QED BY <1>2, TStands DEF Save

LEMMA LoadedListed ==
  ASSUME NEW n, NEW l, Listed(l, n) PROVE Listed(Loaded(l), n)
<1>1. ASSUME NEW s \in l
      PROVE  LET t == [s EXCEPT !.attached = FALSE, !.failed = (s.path \in Files /\ ~s.handle)] IN
             Sourced(t, n) /\ t.id = s.id
  <2> DEFINE b == s.path \in Files /\ ~s.handle
             t == [s EXCEPT !.attached = FALSE, !.failed = b]
  <2>1. b \in BOOLEAN
    OBVIOUS
  <2> HIDE DEF b
  <2>2. Sourced(t, n) /\ t.id = s.id
    BY <2>1 DEF Listed, Sourced, Source
  <2> QED BY <2>2 DEF b
<1>2. \A t \in Loaded(l) : \E s \in l : /\ t = [s EXCEPT !.attached = FALSE, !.failed = (s.path \in Files /\ ~s.handle)]
                                        /\ Sourced(t, n) /\ t.id = s.id
  BY <1>1 DEF Loaded
<1> HIDE DEF Loaded
<1>3. \A t, u \in Loaded(l) : t.id = u.id => t = u
  <2> SUFFICES ASSUME NEW t \in Loaded(l), NEW u \in Loaded(l), t.id = u.id PROVE t = u
    OBVIOUS
  <2>1. PICK a \in l : t = [a EXCEPT !.attached = FALSE, !.failed = (a.path \in Files /\ ~a.handle)] /\ t.id = a.id
    BY <1>2
  <2>2. PICK b \in l : u = [b EXCEPT !.attached = FALSE, !.failed = (b.path \in Files /\ ~b.handle)] /\ u.id = b.id
    BY <1>2
  <2>3. a = b
    BY <2>1, <2>2 DEF Listed
  <2> QED BY <2>1, <2>2, <2>3
<1> QED BY <1>2, <1>3 DEF Listed

\* The reload of the handles that begins with the page.
LEMMA FreshProper ==
  ASSUME NEW n \in Nat \ {0}, NEW H, H \subseteq HandlesTo(n), NEW l
  PROVE  LET r == NextHandle([NoOp EXCEPT !.kind = "reload", !.todo = H]) IN
         Proper(r, n) /\ Known(r, l)
<1> DEFINE q == [NoOp EXCEPT !.kind = "reload", !.todo = H]
<1>1. "reload" \in Kinds /\ H \in Todos
  BY DEF Kinds, Todos, HandlesTo
<1>2. q \in OpIn(n)
  BY <1>1, NoOpIn DEF OpIn
<1>3. q.kind = "reload" /\ q.todo = H
  BY DEF NoOp
<1> HIDE DEF q
<1>4. Proper(NextHandle(q), n) /\ Known(NextHandle(q), l)
  BY <1>2, <1>3, NextHandleProper
<1> QED BY <1>4 DEF q

LEMMA RestartTyped ==
  ASSUME TInv, NEW flush \in BOOLEAN, Restart(flush) PROVE TInv'
<1> DEFINE saved == IF flush THEN list ELSE stored
           fresh == NextHandle([NoOp EXCEPT !.kind = "reload", !.todo = handles])
<1>1. /\ stored' = saved /\ list' = Loaded(saved) /\ dirty' = FALSE
      /\ pending' = [p \in Paths |-> None] /\ intro' = {} /\ db' = [a \in Aliases |-> None]
      /\ op' = [x \in Ops |-> IF x = FirstOp THEN fresh ELSE NoOp]
      /\ starts < MaxStarts /\ starts' = starts + 1 /\ UNCHANGED <<nextId, handles, crossed, wiped>>
  BY DEF Restart
<1>2. faulty' \in BOOLEAN
  BY DEF Restart
<1>3. Listed(saved, nextId)
  BY DEF TInv
<1>4. Listed(list', nextId) /\ Listed(stored', nextId)
  <2> HIDE DEF saved
  <2> QED BY <1>1, <1>3, LoadedListed
<1>5. \A l : Proper(fresh, nextId) /\ Known(fresh, l) /\ Proper(NoOp, nextId) /\ Known(NoOp, l)
  BY FreshProper, NoOpProper DEF TInv
<1> HIDE DEF saved, fresh
<1>6. \A x \in Ops : Proper(op'[x], nextId) /\ Known(op'[x], list')
  BY <1>1, <1>5
<1>7. DOMAIN op' = Ops /\ op' = [x \in Ops |-> op'[x]]
  BY <1>1
<1>8. pending' \in Pendings /\ db' \in Dbs
  BY <1>1 DEF Pendings, Dbs
<1>9. starts' \in 0 .. MaxStarts
  BY <1>1, BoundAssumption DEF TInv
<1> QED BY <1>1, <1>2, <1>4, <1>6, <1>7, <1>8, <1>9 DEF TInv

LEMMA NextTyped ==
  ASSUME TInv, [Next]_vars PROVE TInv'
<1>1. CASE \E o \in Ops : UserStarts(o) \/ Step(o) \/ RestoreCancelled(o) \/ RestorePicked(o)
  BY <1>1, UserTyped, StepTyped, RestoreTyped
<1>2. CASE \E flush \in BOOLEAN : Restart(flush)
  BY <1>2, RestartTyped
<1>3. CASE Introspects
  BY <1>3, IntrospectedTyped DEF Introspects
<1>4. CASE Save
  BY <1>4, SaveTyped
<1>5. CASE UNCHANGED vars
  <2>1. Beside /\ op' = op
    BY <1>5, SameKept DEF vars, Beside, RestKept, TInv
  <2> QED BY <2>1, TStands
<1> QED BY <1>1, <1>2, <1>3, <1>4, <1>5 DEF Next

\* What an earlier session may have left.
LEMMA EarlierTyped ==
  ASSUME NEW S \in Earlier
  PROVE  \E n \in 0 .. 2 : Len(S) = n /\ DOMAIN S = 1 .. n /\ \A i \in 1 .. n : S[i] \in Paths
<1>1. CASE S = <<>>
  <2>1. Len(S) = 0 /\ DOMAIN S = 1 .. 0
    BY <1>1
  <2> QED BY <2>1
<1>2. CASE S \in {<<p>> : p \in Paths}
  <2>1. PICK p \in Paths : S = <<p>>
    BY <1>2
  <2>2. Len(S) = 1 /\ DOMAIN S = 1 .. 1 /\ S[1] = p
    BY <2>1
  <2> QED BY <2>1, <2>2
<1>3. CASE S \in {<<p, q>> : p \in Databases, q \in Files}
  <2>1. PICK p \in Databases, q \in Files : S = <<p, q>>
    BY <1>3
  <2>2. Len(S) = 2 /\ DOMAIN S = 1 .. 2 /\ S[1] = p /\ S[2] = q
    BY <2>1
  <2> QED BY <2>1, <2>2 DEF Paths
<1> QED BY <1>1, <1>2, <1>3 DEF Earlier

LEMMA InitTyped == Init => TInv
<1> SUFFICES ASSUME Init PROVE TInv
  OBVIOUS
<1>1. PICK S \in Earlier, over \in BOOLEAN :
        /\ list = Left(S, over)
        /\ stored = list
        /\ handles = {[id |-> i, path |-> S[i]] : i \in DOMAIN S}
        /\ nextId = Len(S) + 1
        /\ op = [x \in Ops |-> IF x = FirstOp /\ ~over
                          THEN NextHandle([NoOp EXCEPT !.kind = "reload", !.todo = handles])
                          ELSE NoOp]
        /\ db = [a \in Aliases |->
              IF \E s \in list : s.attached /\ AliasOf[s.path] = a
              THEN (CHOOSE s \in list : s.attached /\ AliasOf[s.path] = a).path ELSE None]
        /\ pending = [p \in Paths |-> None]
        /\ intro = {}
        /\ dirty = FALSE
        /\ starts = (IF over /\ Len(S) < 2 THEN 1 ELSE 2)
        /\ crossed = FALSE /\ faulty = FALSE /\ wiped = FALSE
  BY DEF Init
<1>2. PICK n \in 0 .. 2 : Len(S) = n /\ DOMAIN S = 1 .. n /\ \A i \in 1 .. n : S[i] \in Paths
  BY EarlierTyped
<1>3. nextId \in Nat \ {0} /\ nextId = n + 1
  <2>1. nextId = Len(S) + 1
    BY <1>1
  <2> QED BY <1>2, <2>1
<1>4. Listed(list, nextId)
  <2>1. ASSUME NEW i \in DOMAIN S
        PROVE  LET t == [id |-> i, path |-> S[i], attached |-> over /\ S[i] \in Databases,
                    named |-> S[i] \in Databases, handle |-> TRUE, volatile |-> FALSE, failed |-> FALSE,
                    busy |-> FALSE] IN Sourced(t, nextId) /\ t.id = i
    <3> DEFINE b == over /\ S[i] \in Databases
               m == S[i] \in Databases
               t == [id |-> i, path |-> S[i], attached |-> b, named |-> m, handle |-> TRUE,
                     volatile |-> FALSE, failed |-> FALSE, busy |-> FALSE]
    <3>1. b \in BOOLEAN /\ m \in BOOLEAN /\ (b => m /\ S[i] \in Databases)
      OBVIOUS
    <3>2. i \in Nat \ {0} /\ i < nextId /\ S[i] \in Paths
      BY <1>2, <1>3
    <3> HIDE DEF b, m
    <3>3. Sourced(t, nextId) /\ t.id = i
      BY <3>1, <3>2 DEF Sourced, Source
    <3> QED BY <3>3 DEF b, m
  <2>2. \A t \in list : \E i \in DOMAIN S :
          /\ t = [id |-> i, path |-> S[i], attached |-> over /\ S[i] \in Databases,
                    named |-> S[i] \in Databases, handle |-> TRUE, volatile |-> FALSE, failed |-> FALSE,
                    busy |-> FALSE]
          /\ Sourced(t, nextId) /\ t.id = i
    BY <1>1, <2>1 DEF Left
  <2>3. \A t, u \in list : t.id = u.id => t = u
    <3> SUFFICES ASSUME NEW t \in list, NEW u \in list, t.id = u.id PROVE t = u
      OBVIOUS
    <3>1. PICK i \in DOMAIN S :
            /\ t = [id |-> i, path |-> S[i], attached |-> over /\ S[i] \in Databases,
                    named |-> S[i] \in Databases, handle |-> TRUE, volatile |-> FALSE, failed |-> FALSE,
                    busy |-> FALSE]
            /\ t.id = i
      BY <2>2
    <3>2. PICK j \in DOMAIN S :
            /\ u = [id |-> j, path |-> S[j], attached |-> over /\ S[j] \in Databases,
                    named |-> S[j] \in Databases, handle |-> TRUE, volatile |-> FALSE, failed |-> FALSE,
                    busy |-> FALSE]
            /\ u.id = j
      BY <2>2
    <3>3. i = j
      BY <3>1, <3>2
    <3> QED BY <3>1, <3>2, <3>3
  <2> QED BY <2>2, <2>3 DEF Listed
<1>5. handles \subseteq HandlesTo(nextId)
  <2>1. handles = {[id |-> i, path |-> S[i]] : i \in 1 .. n}
    BY <1>1, <1>2
  <2>2. \A i \in 1 .. n : [id |-> i, path |-> S[i]] \in HandlesTo(nextId)
    BY <1>2, <1>3 DEF HandlesTo, Handle
  <2> QED BY <2>1, <2>2
<1>6. \A x \in Ops : Proper(op[x], nextId) /\ Known(op[x], list)
  <2> DEFINE fresh == NextHandle([NoOp EXCEPT !.kind = "reload", !.todo = handles])
  <2>1. Proper(fresh, nextId) /\ Known(fresh, list) /\ Proper(NoOp, nextId) /\ Known(NoOp, list)
    BY <1>3, <1>5, FreshProper, NoOpProper
  <2>2. \A x \in Ops : op[x] \in {fresh, NoOp}
    BY <1>1
  <2> HIDE DEF fresh
  <2> QED BY <2>1, <2>2
<1>7. DOMAIN op = Ops /\ op = [x \in Ops |-> op[x]]
  BY <1>1
<1>8. db \in Dbs
  <2>1. ASSUME NEW a \in Aliases PROVE db[a] \in Databases \cup {None}
    <3>1. CASE \E s \in list : s.attached /\ AliasOf[s.path] = a
      <4> DEFINE t == CHOOSE s \in list : s.attached /\ AliasOf[s.path] = a
      <4>1. t \in list /\ t.attached
        BY <3>1
      <4>2. db[a] = t.path
        BY <1>1, <3>1
      <4> HIDE DEF t
      <4> QED BY <1>4, <4>1, <4>2 DEF Listed, Sourced
    <3>2. CASE ~\E s \in list : s.attached /\ AliasOf[s.path] = a
      BY <1>1, <3>2
    <3> QED BY <3>1, <3>2
  <2>2. DOMAIN db = Aliases /\ db = [a \in Aliases |-> db[a]]
    BY <1>1
  <2> QED BY <2>1, <2>2 DEF Dbs
<1>9. starts \in 0 .. MaxStarts
  <2>1. starts \in {1, 2}
    BY <1>1
  <2> QED BY <2>1, BoundAssumption
<1>10. pending \in Pendings
  BY <1>1 DEF Pendings
<1>11. intro \subseteq IntrosTo(nextId)
  BY <1>1
<1>12. {dirty, crossed, faulty, wiped} \subseteq BOOLEAN /\ Listed(stored, nextId)
  BY <1>1, <1>4
<1> QED BY <1>3, <1>4, <1>5, <1>6, <1>7, <1>8, <1>9, <1>10, <1>11, <1>12 DEF TInv

\* Every id that is in use was given out, once, and a source is marked attached
\* only with its alias known: for any number of files, aliases and operations.
THEOREM TypeCorrect == Spec => []TypeOK
<1>1. Spec => []TInv
  BY InitTyped, NextTyped, PTL DEF Spec
<1> QED BY <1>1, TInvIsTyped, PTL

-----------------------------------------------------------------------------
(* What holds while operations are left alone and nothing fails halfway: of  *)
(* the operation r under way, the list l, the handles H, the introspections  *)
(* I and the attached databases d.                                           *)

UnheldIn(d, p) == \A a \in Aliases : d[a] # p
IsListed(r, l) == \E s \in l : s.id = r.id /\ s.path = r.path

\* A stored handle is that of a listed source, which will be marked so.
HandlesOf(r, l, H) ==
  \A h \in H : \E s \in l :
    /\ s.id = h.id /\ s.path = h.path /\ ~s.volatile
    /\ s.handle \/ (r.kind = "restore" /\ r.at = "register" /\ r.id = s.id)

\* The operation is about to add the source of the attached database p.
Claims(r, p) ==
  /\ r.path = p
  /\ \/ r.at = "attach" /\ r.ok
     \/ r.at \in {"detached", "unhandled"} /\ r.kind # "remove" /\ r.new.attached

\* The source is marked attached, or about to be.
Attests(s, r, I) ==
  \/ s.attached
  \/ \E i \in I : i.id = s.id /\ i.ok
  \/ r.at = "introspect" /\ r.ok /\ r.id = s.id

\* An attached database has its alias and a source that says so.
DatabasesOf(r, l, I, d) ==
  \A a \in Aliases : d[a] # None =>
    /\ AliasOf[d[a]] = a
    /\ (\E s \in l : s.path = d[a] /\ Attests(s, r, I)) \/ Claims(r, d[a])

ReloadOf(r, l, d) ==
  /\ \A h \in r.todo : UnheldIn(d, h.path) /\ h.path # r.path
  /\ r.at \in {"permit", "register", "check", "detach", "forget", "verify"} => UnheldIn(d, r.path)
  /\ r.at \in {"attach", "introspect"} /\ ~r.ok => UnheldIn(d, r.path)
  /\ r.id # 0 => IsListed(r, l)
  /\ r.id = 0 /\ r.at \in {"check", "detach", "attach"} => \A s \in l : s.path # r.path

\* An operation whose source is being removed.
RemovalOf(r, l, H, d) ==
  /\ \A s \in l : s.id = r.old.id => s.path = r.path
  /\ UnheldIn(d, r.path) \/ (r.kind # "remove" /\ r.new.attached)
  /\ \A h \in H : h.id = r.old.id => r.at = "detached" /\ r.old.handle

OperationOf(r, l, H, I, d) ==
  /\ r.at \notin {"joined", "unstored"}
  /\ r.new.handle => ~r.new.volatile
  /\ \A s \in l : s.id = r.id => s.path = r.path
  /\ r.kind \in {"toggle", "refresh", "restore", "reattach"} => IsListed(r, l)
  /\ r.kind = "upload" /\ r.at = "detach" => UnheldIn(d, r.path)
  /\ r.kind = "upload" /\ r.at = "attach" => r.ok \/ UnheldIn(d, r.path)
  /\ r.kind = "replace" /\ (r.at = "register" \/ (r.at = "attach" /\ ~r.ok)) =>
       UnheldIn(d, r.path) \/ \E s \in l : s.path = r.path /\ s.attached
  /\ r.kind = "delete" => UnheldIn(d, r.path)
  /\ r.kind = "reload" => ReloadOf(r, l, d)
  /\ r.at \in {"detached", "unhandled"} => RemovalOf(r, l, H, d)
  /\ r.kind = "clear" => /\ \A a \in Aliases : d[a] # None => a \in r.todo
                         /\ r.at = "clear" => H = {} /\ r.todo = {}
  /\ r.kind \notin {"none", "reload"} => I = {} \/ (r.kind = "upload" /\ r.at = "store")

Agree(r, l, H, I, d) == HandlesOf(r, l, H) /\ DatabasesOf(r, l, I, d) /\ OperationOf(r, l, H, I, d)

\* r is the operation under way, if there is one.
Active(r) ==
  \/ r = NoOp /\ \A x \in Ops : op[x] = NoOp
  \/ \E o \in Ops : op[o] = r /\ r # NoOp /\ \A x \in Ops \ {o} : op[x] = NoOp

Saved == dirty \/ stored = list \/ list = Loaded(stored)

CalmInv == ~wiped /\ Saved /\ \E r : Active(r) /\ Agree(r, list, handles, intro, db)

\* No help of the operation is needed.
Plain(l, H, I, d) == HandlesOf(NoOp, l, H) /\ DatabasesOf(NoOp, l, I, d)

LEMMA NoOpFields ==
  /\ NoOp.kind = "none" /\ NoOp.at = "none" /\ NoOp.path = None /\ NoOp.id = 0 /\ NoOp.ok = FALSE
  /\ NoOp.new = NoNew /\ NoOp.todo = {} /\ NoNew.handle = FALSE /\ NoNew.attached = FALSE
BY DEF NoOp, NoNew

LEMMA PlainGives ==
  ASSUME NEW l, NEW H, NEW I, NEW d, NEW r
  PROVE  /\ HandlesOf(NoOp, l, H) => HandlesOf(r, l, H)
         /\ DatabasesOf(NoOp, l, I, d) => DatabasesOf(r, l, I, d)
<1>1. NoOp.kind = "none" /\ NoOp.at = "none"
  BY NoOpFields
<1>2. HandlesOf(NoOp, l, H) => HandlesOf(r, l, H)
  BY <1>1 DEF HandlesOf
<1>3. \A s : Attests(s, NoOp, I) => Attests(s, r, I)
  BY <1>1 DEF Attests
<1>4. \A p : ~Claims(NoOp, p)
  BY <1>1 DEF Claims
<1> QED BY <1>2, <1>3, <1>4 DEF DatabasesOf

LEMMA HandlesPlain ==
  ASSUME NEW r, NEW l, NEW H, HandlesOf(r, l, H), ~(r.kind = "restore" /\ r.at = "register")
  PROVE  HandlesOf(NoOp, l, H)
BY DEF HandlesOf

LEMMA AttestsPlain ==
  ASSUME NEW r, NEW s, NEW I, Attests(s, r, I), ~(r.at = "introspect" /\ r.ok)
  PROVE  Attests(s, NoOp, I)
BY DEF Attests

LEMMA DatabasesPlain ==
  ASSUME NEW r, NEW l, NEW I, NEW d, DatabasesOf(r, l, I, d), ~(r.at = "introspect" /\ r.ok),
         ~(r.at = "attach" /\ r.ok), r.at \notin {"detached", "unhandled"}
  PROVE  DatabasesOf(NoOp, l, I, d)
BY AttestsPlain DEF DatabasesOf, Claims

LEMMA AgreeNoOp ==
  ASSUME NEW n, NEW l, Listed(l, n), NEW H, NEW I, NEW d, Plain(l, H, I, d)
  PROVE  Agree(NoOp, l, H, I, d)
<1>1. \A s \in l : s.id # 0
  BY DEF Listed, Sourced, Source
<1>2. OperationOf(NoOp, l, H, I, d)
  BY <1>1, NoOpFields DEF OperationOf
<1> QED BY <1>2 DEF Plain, Agree

LEMMA NextHandleIs ==
  ASSUME NEW n, NEW r \in OpIn(n), r.todo \subseteq HandlesTo(n), r.kind = "reload", r.todo # {}
  PROVE  LET q == NextHandle(r) IN
         \E h \in r.todo :
           /\ q.kind = "reload" /\ q.at = "permit" /\ q.path = h.path /\ q.id = 0 /\ q.ok = FALSE
           /\ q.new = NoNew /\ q.todo = {x \in r.todo : x.path # h.path}
<1> DEFINE h == First(r.todo)
           todo == {x \in r.todo : x.path # h.path}
           q == [r EXCEPT !.at = "permit", !.path = h.path, !.hid = h.id, !.id = 0,
                            !.ok = FALSE, !.new = NoNew, !.old = NoOld, !.todo = todo]
<1>1. h \in r.todo
  <2>1. \A s \in r.todo : s.id \in Nat
    BY DEF HandlesTo, Handle
  <2> QED BY <2>1, FirstIsThere
<1>2. NextHandle(r) = q
  BY FieldsOfOp DEF NextHandle, OpFields
<1> HIDE DEF h, todo
<1>3. /\ q.kind = "reload" /\ q.at = "permit" /\ q.path = h.path /\ q.id = 0 /\ q.ok = FALSE
      /\ q.new = NoNew /\ q.todo = todo
  BY DEF OpIn
<1> HIDE DEF q
<1> QED BY <1>1, <1>2, <1>3 DEF todo

LEMMA AgreeNextOf ==
  ASSUME NEW n, NEW r \in OpIn(n), r.todo \subseteq HandlesTo(n), r.kind = "reload", NEW l, Listed(l, n), NEW H, NEW I, NEW d,
         Plain(l, H, I, d), \A h \in r.todo : UnheldIn(d, h.path)
  PROVE  Agree(NextHandle(r), l, H, I, d)
<1>1. CASE r.todo = {}
  BY <1>1, AgreeNoOp DEF NextHandle
<1>2. CASE r.todo # {}
  <2> DEFINE q == NextHandle(r)
  <2>1. PICK h \in r.todo :
           /\ q.kind = "reload" /\ q.at = "permit" /\ q.path = h.path /\ q.id = 0 /\ q.ok = FALSE
           /\ q.new = NoNew /\ q.todo = {x \in r.todo : x.path # h.path}
    BY <1>2, NextHandleIs
  <2> HIDE DEF q
  <2>2. \A s \in l : s.id # 0
    BY DEF Listed, Sourced, Source
  <2>3. ReloadOf(q, l, d)
    BY <2>1 DEF ReloadOf
  <2>4. OperationOf(q, l, H, I, d)
    BY <2>1, <2>2, <2>3, NoOpFields DEF OperationOf
  <2> QED BY <2>4, PlainGives DEF Plain, Agree, q
<1> QED BY <1>1, <1>2

LEMMA AgreeNext ==
  ASSUME NEW n, NEW r, Proper(r, n), r.kind = "reload", NEW l, Listed(l, n), NEW H, NEW I, NEW d,
         Plain(l, H, I, d), \A h \in r.todo : UnheldIn(d, h.path)
  PROVE  Agree(NextHandle(r), l, H, I, d)
BY AgreeNextOf DEF Proper, Suited

LEMMA AgreeEnded ==
  ASSUME NEW n, NEW r, Proper(r, n), NEW l, Listed(l, n), NEW H, NEW I, NEW d,
         Plain(l, H, I, d), r.kind = "reload" => \A h \in r.todo : UnheldIn(d, h.path)
  PROVE  Agree(Ended(r), l, H, I, d)
BY AgreeNext, AgreeNoOp DEF Ended

\* The fields of an operation that moves on.
LEMMA MovedFields ==
  ASSUME NEW n, NEW r, Proper(r, n), NEW at, NEW q, q = [r EXCEPT !.at = at]
  PROVE  /\ q.at = at /\ q.kind = r.kind /\ q.path = r.path /\ q.id = r.id /\ q.hid = r.hid
         /\ q.ok = r.ok /\ q.new = r.new /\ q.old = r.old /\ q.todo = r.todo
BY DEF Proper, OpIn

LEMMA NewFields ==
  ASSUME NEW n, NEW r, Proper(r, n), NEW new, NEW q, q = [r EXCEPT !.new = new]
  PROVE  /\ q.at = r.at /\ q.ok = r.ok /\ q.kind = r.kind /\ q.path = r.path /\ q.id = r.id
         /\ q.new = new /\ q.old = r.old /\ q.todo = r.todo
BY DEF Proper, OpIn

-----------------------------------------------------------------------------
(* One operation at a time. *)

Alone(o) == \A x \in Ops \ {o} : op[x] = NoOp

LEMMA OneActs ==
  ASSUME CalmInv, NEW o \in Ops, op[o] # NoOp
  PROVE  Alone(o) /\ Agree(op[o], list, handles, intro, db) /\ ~wiped /\ Saved
<1>1. PICK r : Active(r) /\ Agree(r, list, handles, intro, db)
  BY DEF CalmInv
<1>2. op[o] = r /\ Alone(o)
  BY <1>1 DEF Active, Alone
<1> QED BY <1>1, <1>2 DEF CalmInv

LEMMA OneActed ==
  ASSUME NEW o \in Ops, NEW r, op'[o] = r, \A x \in Ops \ {o} : op'[x] = NoOp,
         ~wiped', Saved', Agree(r, list', handles', intro', db')
  PROVE  CalmInv'
<1>1. Active(r)'
  BY DEF Active
<1> QED BY <1>1 DEF CalmInv

LEMMA CGoes ==
  ASSUME TInv, NEW o \in Ops, Alone(o), NEW r, Goto(o, r),
         ~wiped', Saved', Agree(r, list', handles', intro', db')
  PROVE  CalmInv'
<1>1. op'[o] = r /\ \A x \in Ops \ {o} : op'[x] = NoOp
  BY DEF TInv, Goto, Alone
<1> QED BY <1>1, OneActed

LEMMA SavedStays ==
  ASSUME Saved, dirty' = TRUE \/ UNCHANGED <<list, stored, dirty>>
  PROVE  Saved'
BY DEF Saved, Loaded

\* An operation that begins is alone.
LEMMA StartsAlone ==
  ASSUME CalmInv, NEW o \in Ops, Start(o), ~crossed'
  PROVE  /\ Alone(o) /\ op[o] = NoOp /\ intro = {} /\ Plain(list, handles, intro, db)
         /\ ~wiped /\ ~wiped' /\ Saved /\ stored' = stored
<1>1. PICK r : Active(r) /\ Agree(r, list, handles, intro, db)
  BY DEF CalmInv
<1>2. op[o] = NoOp /\ intro = {} /\ \A x \in Ops : op[x] = NoOp
  BY DEF Start
<1>3. r = NoOp
  BY <1>1, <1>2 DEF Active
<1> QED BY <1>1, <1>2, <1>3 DEF Alone, CalmInv, Start, Agree, Plain

-----------------------------------------------------------------------------
(* The databases. *)

LEMMA DetachedHolds ==
  ASSUME db \in Dbs, NEW A
  PROVE  /\ \A p : p # None /\ UnheldIn(db, p) => UnheldIn(Detached(A), p)
         /\ \A r, l, I : DatabasesOf(r, l, I, db) => DatabasesOf(r, l, I, Detached(A))
         /\ \A p, l, I, r : p \in Databases /\ DatabasesOf(r, l, I, db) /\ AliasOf[p] \in A =>
              UnheldIn(Detached(A), p)
         /\ \A a \in Aliases : Detached(A)[a] # None => db[a] = Detached(A)[a] /\ a \notin A
<1>1. \A a \in Aliases : Detached(A)[a] # None => db[a] = Detached(A)[a] /\ a \notin A
  BY DEF Detached
<1>2. \A p : p # None /\ UnheldIn(db, p) => UnheldIn(Detached(A), p)
  BY <1>1 DEF UnheldIn
<1>3. \A r, l, I : DatabasesOf(r, l, I, db) => DatabasesOf(r, l, I, Detached(A))
  BY <1>1 DEF DatabasesOf
<1>4. ASSUME NEW p \in Databases, NEW r, NEW l, NEW I, DatabasesOf(r, l, I, db), AliasOf[p] \in A
      PROVE  UnheldIn(Detached(A), p)
  <2>1. p # None
    BY NoneAssumption
  <2> QED BY <1>1, <1>4, <2>1 DEF UnheldIn, DatabasesOf
<1> QED BY <1>1, <1>2, <1>3, <1>4

\* e has what d has, and p under its alias perhaps.
GrownBy(d, e, p) ==
  \A a \in Aliases : e[a] # None => e[a] = d[a] \/ (e[a] = p /\ AliasOf[p] = a)

LEMMA AttachingGrows ==
  ASSUME db \in Dbs, NEW p \in Databases, NEW a \in Attaching(p)
  PROVE  /\ GrownBy(db, a.db, p)
         /\ a.ok \/ a = [ok |-> FALSE, db |-> db]
         /\ a.ok => UnheldIn(db, p)
<1>1. CASE a = [ok |-> FALSE, db |-> db]
  BY <1>1 DEF GrownBy
<1>2. CASE a = [ok |-> TRUE, db |-> [db EXCEPT ![AliasOf[p]] = p]] /\ Holders(p) = {}
  <2>1. \A x \in Aliases : a.db[x] = IF x = AliasOf[p] THEN p ELSE db[x]
    BY <1>2 DEF Dbs
  <2> QED BY <1>2, <2>1 DEF GrownBy, Holders, UnheldIn
<1> QED BY <1>1, <1>2 DEF Attaching

LEMMA IntrospectingGrows ==
  ASSUME db \in Dbs, NEW s, NEW a \in Introspecting(s)
  PROVE  /\ GrownBy(db, a.db, s.path)
         /\ a.ok \/ (a.db = db /\ UnheldIn(db, s.path))
         /\ s.attached => a.ok /\ a.db = db
<1>1. CASE s.path \in Databases /\ ~s.attached /\ Holders(s.path) = {} /\ a \in Attaching(s.path)
  BY <1>1, AttachingGrows DEF Holders, UnheldIn
<1>2. CASE a = [ok |-> TRUE, db |-> db]
  BY <1>2 DEF GrownBy
<1> QED BY <1>1, <1>2 DEF Introspecting

LEMMA GrownUnheld ==
  ASSUME NEW d, NEW e, NEW p, GrownBy(d, e, p), NEW q, q # p, q # None, UnheldIn(d, q)
  PROVE  UnheldIn(e, q)
BY DEF GrownBy, UnheldIn

-----------------------------------------------------------------------------
(* Marks. *)

\* Every source of l is in m, with its handle, and is attached there if it was:
\* but for the sources of a path in P.
Upholds(l, m, P) ==
  \A s \in l : \E t \in m :
    /\ t.id = s.id /\ t.path = s.path /\ t.volatile = s.volatile
    /\ s.handle => t.handle
    /\ s.attached => t.attached \/ s.path \in P

LEMMA SameUpholds == ASSUME NEW l, NEW P PROVE Upholds(l, l, P)
BY DEF Upholds

LEMMA UpdatedUpholds ==
  ASSUME NEW i, NEW S, NEW P,
         \A s \in Of(i) : \E t \in S :
           /\ t.id = s.id /\ t.path = s.path /\ t.volatile = s.volatile
           /\ s.handle => t.handle
           /\ s.attached => t.attached \/ s.path \in P
  PROVE  Upholds(list, Updated(i, S), P)
BY DEF Upholds, Updated, Without, Of

LEMMA MarkKeeps ==
  ASSUME NEW n, NEW s, Sourced(s, n)
  PROVE  /\ MarkIntrospected(s).volatile = s.volatile /\ MarkIntrospected(s).handle = s.handle
         /\ s.path \in Databases => MarkIntrospected(s).attached
         /\ MarkAttached(s).volatile = s.volatile /\ MarkAttached(s).handle = s.handle
         /\ MarkAttached(s).attached
         /\ MarkFailed(s).volatile = s.volatile /\ MarkFailed(s).handle = s.handle
         /\ MarkRestored(s).volatile = s.volatile /\ MarkRestored(s).handle = s.handle
         /\ MarkRestored(s).attached = s.attached
         /\ Idle(s).volatile = s.volatile /\ Idle(s).handle = s.handle
         /\ Idle(s).attached = s.attached
         /\ Stopped(s).volatile = s.volatile /\ Stopped(s).handle = s.handle
         /\ Stopped(s).attached = s.attached
         /\ WithHandle(s).volatile = s.volatile /\ WithHandle(s).handle = TRUE
         /\ WithHandle(s).attached = s.attached
<1>1. s = [f \in SourceFields |-> s[f]]
  BY DEF Sourced, Source, SourceFields
<1>2. MarkIntrospected(s).volatile = s.volatile /\ MarkIntrospected(s).handle = s.handle
      /\ (s.path \in Databases => MarkIntrospected(s).attached)
  BY <1>1 DEF MarkIntrospected, SourceFields
<1>3. MarkAttached(s).volatile = s.volatile /\ MarkAttached(s).handle = s.handle /\ MarkAttached(s).attached
  BY <1>1 DEF MarkAttached, SourceFields
<1>4. MarkFailed(s).volatile = s.volatile /\ MarkFailed(s).handle = s.handle
  BY <1>1 DEF MarkFailed, SourceFields
<1>5. MarkRestored(s).volatile = s.volatile /\ MarkRestored(s).handle = s.handle
      /\ MarkRestored(s).attached = s.attached
  BY <1>1 DEF MarkRestored, SourceFields
<1>6. Idle(s).volatile = s.volatile /\ Idle(s).handle = s.handle /\ Idle(s).attached = s.attached
  BY <1>1 DEF Idle, SourceFields
<1>7. Stopped(s).volatile = s.volatile /\ Stopped(s).handle = s.handle /\ Stopped(s).attached = s.attached
  BY <1>1 DEF Stopped, SourceFields
<1>8. WithHandle(s).volatile = s.volatile /\ WithHandle(s).handle = TRUE /\ WithHandle(s).attached = s.attached
  BY <1>1 DEF WithHandle, SourceFields
<1> QED BY <1>2, <1>3, <1>4, <1>5, <1>6, <1>7, <1>8

\* Each of the marks, at the source i or at the first of a path.
LEMMA MarkedUpholds ==
  ASSUME NEW n, Listed(list, n), NEW i, NEW P
  PROVE  /\ Upholds(list, Updated(i, {MarkIntrospected(s) : s \in Of(i)}), P)
         /\ (\A s \in Of(i) : s.path \in Databases) =>
              Upholds(list, Updated(i, {MarkAttached(s) : s \in Of(i)}), P)
         /\ Upholds(list, Updated(i, {Idle(MarkIntrospected(s)) : s \in Of(i)}), P)
         /\ Upholds(list, Updated(i, {Stopped(s) : s \in Of(i)}), P)
         /\ Upholds(list, Updated(i, {WithHandle(MarkRestored(s)) : s \in Of(i)}), P)
<1>1. ASSUME NEW s \in Of(i) PROVE Sourced(s, n)
  BY OfIsOne
<1>0. \A s \in Of(i) : s.attached => s.path \in Databases
  BY <1>1 DEF Sourced
<1>2. Upholds(list, Updated(i, {MarkIntrospected(s) : s \in Of(i)}), P)
  <2> DEFINE S == {MarkIntrospected(s) : s \in Of(i)}
  <2>1. ASSUME NEW s \in Of(i)
        PROVE  \E t \in S : /\ t.id = s.id /\ t.path = s.path /\ t.volatile = s.volatile
                            /\ s.handle => t.handle
                            /\ s.attached => t.attached \/ s.path \in P
    <3>1. MarkIntrospected(s) \in S
      OBVIOUS
    <3>2. MarkIntrospected(s).id = s.id /\ MarkIntrospected(s).path = s.path
      BY <1>1, MarkIntrospectedSourced
    <3>3. /\ MarkIntrospected(s).volatile = s.volatile /\ MarkIntrospected(s).handle = s.handle
          /\ s.path \in Databases => MarkIntrospected(s).attached
      BY <1>1, MarkKeeps
    <3> HIDE DEF S
    <3> QED BY <1>0, <3>1, <3>2, <3>3
  <2> HIDE DEF S
  <2>2. Upholds(list, Updated(i, S), P)
    BY <2>1, UpdatedUpholds
  <2> QED BY <2>2 DEF S
<1>3. ASSUME \A s \in Of(i) : s.path \in Databases
      PROVE  Upholds(list, Updated(i, {MarkAttached(s) : s \in Of(i)}), P)
  <2> DEFINE S == {MarkAttached(s) : s \in Of(i)}
  <2>1. ASSUME NEW s \in Of(i)
        PROVE  \E t \in S : /\ t.id = s.id /\ t.path = s.path /\ t.volatile = s.volatile
                            /\ s.handle => t.handle
                            /\ s.attached => t.attached \/ s.path \in P
    <3>1. MarkAttached(s) \in S
      OBVIOUS
    <3>2. MarkAttached(s).id = s.id /\ MarkAttached(s).path = s.path
      BY <1>1, <1>3, MarkAttachedSourced
    <3>3. /\ MarkAttached(s).volatile = s.volatile /\ MarkAttached(s).handle = s.handle
          /\ MarkAttached(s).attached
      BY <1>1, MarkKeeps
    <3> HIDE DEF S
    <3> QED BY <3>1, <3>2, <3>3
  <2> HIDE DEF S
  <2>2. Upholds(list, Updated(i, S), P)
    BY <2>1, UpdatedUpholds
  <2> QED BY <2>2 DEF S
<1>4. Upholds(list, Updated(i, {Idle(MarkIntrospected(s)) : s \in Of(i)}), P)
  <2> DEFINE S == {Idle(MarkIntrospected(s)) : s \in Of(i)}
  <2>1. ASSUME NEW s \in Of(i)
        PROVE  \E t \in S : /\ t.id = s.id /\ t.path = s.path /\ t.volatile = s.volatile
                            /\ s.handle => t.handle
                            /\ s.attached => t.attached \/ s.path \in P
    <3> DEFINE m == MarkIntrospected(s)
    <3>1. Idle(m) \in S
      OBVIOUS
    <3>2. /\ Sourced(m, n) /\ m.id = s.id /\ m.path = s.path /\ m.volatile = s.volatile /\ m.handle = s.handle
          /\ s.path \in Databases => m.attached
      BY <1>1, MarkIntrospectedSourced, MarkKeeps
    <3> HIDE DEF m, S
    <3>3. Idle(m).id = m.id /\ Idle(m).path = m.path
      BY <3>2, MoreMarksSourced
    <3>4. Idle(m).volatile = m.volatile /\ Idle(m).handle = m.handle /\ Idle(m).attached = m.attached
      BY <3>2, MarkKeeps
    <3> QED BY <1>0, <3>1, <3>2, <3>3, <3>4
  <2> HIDE DEF S
  <2>2. Upholds(list, Updated(i, S), P)
    BY <2>1, UpdatedUpholds
  <2> QED BY <2>2 DEF S
<1>5. Upholds(list, Updated(i, {Stopped(s) : s \in Of(i)}), P)
  <2> DEFINE S == {Stopped(s) : s \in Of(i)}
  <2>1. ASSUME NEW s \in Of(i)
        PROVE  \E t \in S : /\ t.id = s.id /\ t.path = s.path /\ t.volatile = s.volatile
                            /\ s.handle => t.handle
                            /\ s.attached => t.attached \/ s.path \in P
    <3>1. Stopped(s) \in S
      OBVIOUS
    <3>2. Stopped(s).id = s.id /\ Stopped(s).path = s.path
      BY <1>1, MoreMarksSourced
    <3>3. Stopped(s).volatile = s.volatile /\ Stopped(s).handle = s.handle /\ Stopped(s).attached = s.attached
      BY <1>1, MarkKeeps
    <3> QED BY <3>1, <3>2, <3>3
  <2> HIDE DEF S
  <2>2. Upholds(list, Updated(i, S), P)
    BY <2>1, UpdatedUpholds
  <2> QED BY <2>2 DEF S
<1>6. Upholds(list, Updated(i, {WithHandle(MarkRestored(s)) : s \in Of(i)}), P)
  <2> DEFINE S == {WithHandle(MarkRestored(s)) : s \in Of(i)}
  <2>1. ASSUME NEW s \in Of(i)
        PROVE  \E t \in S : /\ t.id = s.id /\ t.path = s.path /\ t.volatile = s.volatile
                            /\ s.handle => t.handle
                            /\ s.attached => t.attached \/ s.path \in P
    <3> DEFINE m == MarkRestored(s)
    <3>1. WithHandle(m) \in S
      OBVIOUS
    <3>2. /\ Sourced(m, n) /\ m.id = s.id /\ m.path = s.path /\ m.volatile = s.volatile /\ m.handle = s.handle
          /\ m.attached = s.attached
      BY <1>1, MarkRestoredSourced, MarkKeeps
    <3> HIDE DEF m, S
    <3>3. WithHandle(m).id = m.id /\ WithHandle(m).path = m.path
      BY <3>2, MoreMarksSourced
    <3>4. WithHandle(m).volatile = m.volatile /\ WithHandle(m).handle = TRUE /\ WithHandle(m).attached = m.attached
      BY <3>2, MarkKeeps
    <3> QED BY <3>1, <3>2, <3>3, <3>4
  <2> HIDE DEF S
  <2>2. Upholds(list, Updated(i, S), P)
    BY <2>1, UpdatedUpholds
  <2> QED BY <2>2 DEF S
<1> QED BY <1>2, <1>3, <1>4, <1>5, <1>6

LEMMA FirstMarkedUpholds ==
  ASSUME NEW n, n \in Nat, Listed(list, n), NEW p, At(p) # {}
  PROVE  /\ Upholds(list, Updated(First(At(p)).id, {MarkFailed(First(At(p)))}), {p})
         /\ Upholds(list, Updated(First(At(p)).id, {MarkRestored(First(At(p)))}), {p})
<1> DEFINE s == First(At(p))
<1>1. s \in list /\ Sourced(s, n) /\ s.path = p
  BY FirstOfPath
<1> HIDE DEF s
<1>2. \A t \in Of(s.id) : t = s
  BY <1>1 DEF Of, Listed
<1>3. Upholds(list, Updated(s.id, {MarkFailed(s)}), {p})
  BY <1>1, <1>2, MarkFailedSourced, MarkKeeps, UpdatedUpholds
<1>4. Upholds(list, Updated(s.id, {MarkRestored(s)}), {p})
  BY <1>1, <1>2, MarkRestoredSourced, MarkKeeps, UpdatedUpholds
<1> QED BY <1>3, <1>4 DEF s

\* What the marks leave.
LEMMA UpholdsKeeps ==
  ASSUME NEW l, NEW m, NEW n, Kept(l, m, n), NEW P, Upholds(l, m, P), NEW H, NEW I, NEW d,
         \A p \in P : UnheldIn(d, p), NEW r
  PROVE  /\ HandlesOf(r, l, H) => HandlesOf(r, m, H)
         /\ DatabasesOf(r, l, I, d) => DatabasesOf(r, m, I, d)
         /\ IsListed(r, l) => IsListed(r, m)
         /\ (\A s \in l : s.id = r.id => s.path = r.path) => \A s \in m : s.id = r.id => s.path = r.path
         /\ ReloadOf(r, l, d) => ReloadOf(r, m, d)
<1>1. ASSUME HandlesOf(r, l, H) PROVE HandlesOf(r, m, H)
  BY <1>1 DEF Upholds, HandlesOf
<1>2. ASSUME DatabasesOf(r, l, I, d) PROVE DatabasesOf(r, m, I, d)
  <2>1. ASSUME NEW a \in Aliases, d[a] # None, NEW s \in l, s.path = d[a], Attests(s, r, I)
        PROVE  \E t \in m : t.path = d[a] /\ Attests(t, r, I)
    <3>1. PICK t \in m : t.id = s.id /\ t.path = s.path /\ (s.attached => t.attached \/ s.path \in P)
      BY DEF Upholds
    <3>2. s.path \notin P
      BY <2>1 DEF UnheldIn
    <3> QED BY <2>1, <3>1, <3>2 DEF Attests
  <2> QED BY <1>2, <2>1 DEF DatabasesOf
<1>3. IsListed(r, l) => IsListed(r, m)
  BY DEF Upholds, IsListed
<1>4. (\A s \in l : s.id = r.id => s.path = r.path) => \A s \in m : s.id = r.id => s.path = r.path
  BY DEF Kept
<1>5. ReloadOf(r, l, d) => ReloadOf(r, m, d)
  BY <1>3 DEF ReloadOf, Kept
<1> QED BY <1>1, <1>2, <1>3, <1>4, <1>5

-----------------------------------------------------------------------------
(* addDataSource and removeDataSource by themselves. *)

Supported(l, I, p, b) ==
  \A a \in Aliases : db[a] # None =>
    /\ AliasOf[db[a]] = a
    /\ (\E s \in l : s.path = db[a] /\ Attests(s, NoOp, I)) \/ (db[a] = p /\ b)

\* The source of r can be added to l.
Appendable(r, l) ==
  /\ HandlesOf(NoOp, l, handles)
  /\ Supported(l, intro, r.path, r.new.attached)
  /\ \A s \in l : s.path # r.path
  /\ r.new.handle => ~r.new.volatile
  /\ r.kind = "reload" => \A h \in r.todo : UnheldIn(db, h.path) /\ h.path # r.path

LEMMA AppendedPlain ==
  ASSUME TInv, NEW o \in Ops, Alone(o), NEW r, Proper(r, nextId), NEW l, l \subseteq list,
         r.kind \notin {"none", "clear"},
         Appendable(r, l), NEW s, s = NewSource(r), NEW a \in Introspecting(s),
         AppendedWith(o, r, l, s, a, TRUE)
  PROVE  Plain(list', handles', intro', db')
<1>1. /\ list' = l \cup {s} /\ db' = a.db /\ intro' = intro \cup {[id |-> s.id, ok |-> a.ok]}
      /\ handles' = handles \cup NewHandles(o, r, s)
  BY DEF AppendedWith, SetList
<1>2. /\ s.id = nextId /\ s.path = r.path /\ s.attached = r.new.attached /\ s.handle = r.new.handle
      /\ s.volatile = r.new.volatile
  BY DEF NewSource
<1>3. Callers(o) = {o} /\ Now(o, r)[o] = r
  BY NoOpFields DEF Callers, Alone, Now, TInv
<1>4. \A h \in NewHandles(o, r, s) : h.id = s.id /\ h.path = s.path /\ r.new.handle
  BY <1>3 DEF NewHandles, Stores
<1>5. HandlesOf(NoOp, list', handles')
  <2>1. \A h \in handles : \E t \in l : t.id = h.id /\ t.path = h.path /\ ~t.volatile /\ t.handle
    BY NoOpFields DEF Appendable, HandlesOf
  <2>2. r.new.handle => ~s.volatile /\ s.handle
    BY <1>2 DEF Appendable
  <2> QED BY <1>1, <1>4, <2>1, <2>2 DEF HandlesOf
<1>6. GrownBy(db, a.db, r.path) /\ (a.ok \/ (a.db = db /\ UnheldIn(db, r.path)))
  BY <1>2, IntrospectingGrows DEF TInv
<1>7. DatabasesOf(NoOp, list', intro', db')
  <2> SUFFICES ASSUME NEW x \in Aliases, a.db[x] # None
               PROVE  AliasOf[a.db[x]] = x /\ \E t \in list' : t.path = a.db[x] /\ Attests(t, NoOp, intro')
    BY <1>1 DEF DatabasesOf
  <2>0. \A t : Attests(t, NoOp, intro) => Attests(t, NoOp, intro')
    BY <1>1 DEF Attests
  <2>1. CASE a.db[x] = db[x] /\ \E t \in l : t.path = db[x] /\ Attests(t, NoOp, intro)
    BY <1>1, <2>0, <2>1 DEF Appendable, Supported
  <2>2. CASE a.db[x] = db[x] /\ db[x] = r.path /\ r.new.attached
    <3>1. Attests(s, NoOp, intro')
      BY <1>2, <2>2 DEF Attests
    <3>2. AliasOf[a.db[x]] = x
      BY <2>2 DEF Appendable, Supported
    <3> QED BY <1>1, <1>2, <2>2, <3>1, <3>2
  <2>3. CASE a.db[x] # db[x]
    <3>1. a.db[x] = r.path /\ AliasOf[r.path] = x /\ a.ok
      BY <1>6, <2>3 DEF GrownBy
    <3>2. Attests(s, NoOp, intro')
      <4> DEFINE i == [id |-> s.id, ok |-> a.ok]
      <4>1. i \in intro' /\ i.id = s.id /\ i.ok
        BY <1>1, <3>1
      <4> HIDE DEF i
      <4> QED BY <4>1 DEF Attests
    <3> QED BY <1>1, <1>2, <3>1, <3>2
  <2> QED BY <2>1, <2>2, <2>3 DEF Appendable, Supported
<1> QED BY <1>5, <1>7 DEF Plain

LEMMA CAppends ==
  ASSUME TInv, TInv', NEW o \in Ops, Alone(o), NEW r, Proper(r, nextId), r.kind \notin {"none", "clear"},
         NEW l, l \subseteq list, Appendable(r, l), AppendSource(o, r, l), ~faulty', ~wiped'
  PROVE  CalmInv'
<1> DEFINE s == NewSource(r)
<1>0. PICK a \in Introspecting(s), done \in BOOLEAN : AppendedWith(o, r, l, s, a, done)
  BY AppendsWith
<1>1. AppendedWith(o, r, l, s, a, TRUE)
  <2>1. done = TRUE
    BY <1>0 DEF AppendedWith
  <2> QED BY <1>0, <2>1
<1> DEFINE q == Resumed(r, s, a.ok, TRUE)
<1>2. /\ list' = l \cup {s} /\ dirty' = TRUE /\ db' = a.db /\ nextId' = nextId + 1
      /\ op' = [x \in Ops |-> IF x \in Callers(o) THEN Resumed(Now(o, r)[x], s, a.ok, TRUE) ELSE op[x]]
  BY <1>1 DEF AppendedWith, SetList
<1>3. Callers(o) = {o} /\ Now(o, r)[o] = r
  BY NoOpFields DEF Callers, Alone, Now, TInv
<1>4. op'[o] = q /\ \A x \in Ops \ {o} : op'[x] = NoOp
  <2> HIDE DEF s
  <2> QED BY <1>2, <1>3 DEF Alone
<1>5. Plain(list', handles', intro', db')
  <2> HIDE DEF q
  <2> QED BY <1>1, AppendedPlain
<1>6. s.id = nextId /\ s.path = r.path /\ nextId \in Nat \ {0} /\ r.path \in Paths
      /\ Sourced(s, nextId + 1)
  BY NewSourced DEF TInv, Proper, Suited
<1>7. GrownBy(db, a.db, r.path) /\ (a.ok \/ (a.db = db /\ UnheldIn(db, r.path)))
  BY <1>6, IntrospectingGrows DEF TInv
<1> HIDE DEF s
<1>8. \A t \in list' : t.id = nextId => t.path = r.path
  BY <1>2, <1>6 DEF TInv, Listed, Sourced, Source
<1>9. r.kind = "reload" => \A h \in r.todo : UnheldIn(db', h.path) /\ h.path # r.path
  <2>1. r.kind = "reload" => \A h \in r.todo : h.path # None
    BY NoneAssumption DEF Proper, Suited, HandlesTo, Handle, Paths
  <2> QED BY <1>2, <1>7, <2>1, GrownUnheld DEF Appendable
<1>10. Agree(q, list', handles', intro', db')
  <2>1. CASE Stores(r)
    <3> DEFINE at == "store"
               b == [r EXCEPT !.id = s.id, !.peer = None, !.at = at]
    <3>1. q = b
      BY <2>1 DEF Resumed
    <3>2. b.at = "store" /\ b.kind = "upload" /\ b.id = nextId /\ b.path = r.path /\ b.new = r.new
      BY <1>6, <2>1 DEF Proper, OpIn, Stores
    <3> HIDE DEF b, q
    <3>3. OperationOf(b, list', handles', intro', db')
      BY <1>8, <3>2 DEF OperationOf, Appendable
    <3> QED BY <1>5, <3>1, <3>3, PlainGives DEF Plain, Agree
  <2>2. CASE ~Stores(r) /\ r.kind = "reload" /\ r.path \in Databases
    <3> DEFINE b == [r EXCEPT !.id = s.id, !.peer = None, !.at = "introspect", !.ok = a.ok]
    <3>1. q = b
      BY <2>2 DEF Resumed
    <3>2. b.at = "introspect" /\ b.kind = "reload" /\ b.id = nextId /\ b.path = r.path /\ b.new = r.new
          /\ b.ok = a.ok /\ b.todo = r.todo
      BY <1>6, <2>2 DEF Proper, OpIn
    <3> HIDE DEF b, q
    <3>3. IsListed(b, list')
      BY <1>2, <1>6, <3>2 DEF IsListed
    <3>4. ~b.ok => UnheldIn(db', b.path)
      BY <1>2, <1>7, <3>2
    <3>5. ReloadOf(b, list', db')
      BY <1>6, <1>9, <2>2, <3>2, <3>3, <3>4 DEF ReloadOf
    <3>6. OperationOf(b, list', handles', intro', db')
      BY <1>8, <3>2, <3>5 DEF OperationOf, Appendable
    <3> QED BY <1>5, <3>1, <3>6, PlainGives DEF Plain, Agree
  <2>3. CASE ~Stores(r) /\ ~(r.kind = "reload" /\ r.path \in Databases)
    <3>1. q = Ended(r)
      BY <2>3 DEF Resumed
    <3>2. Proper(r, nextId + 1) /\ Listed(list', nextId + 1)
      BY <1>2, <1>6, WiderProper DEF TInv
    <3> HIDE DEF q
    <3> QED BY <1>5, <1>9, <3>1, <3>2, AgreeEnded
  <2> QED BY <2>1, <2>2, <2>3
<1>11. Saved'
  BY <1>2 DEF Saved
<1> HIDE DEF q
<1> QED BY <1>4, <1>10, <1>11, OneActed

\* The source s can be removed for r.
Removable(r, s) ==
  /\ r.kind \in {"upload", "replace", "remove"}
  /\ r.path = s.path
  /\ HandlesOf(NoOp, list, handles)
  /\ Supported(list, intro, r.path, r.kind # "remove" /\ r.new.attached)
  /\ intro = {}
  /\ r.new.handle => ~r.new.volatile
  /\ \A t \in list : t.id = r.id => t.path = r.path

\* An operation that removes a source, before the list is filtered.
LEMMA RemovalAgrees ==
  ASSUME NEW q, q.kind \in {"upload", "replace", "remove"}, q.at \in {"detached", "unhandled"}, NEW l, NEW H, NEW d,
         HandlesOf(NoOp, l, H), DatabasesOf(q, l, {}, d), RemovalOf(q, l, H, d),
         q.new.handle => ~q.new.volatile, \A t \in l : t.id = q.id => t.path = q.path
  PROVE  Agree(q, l, H, {}, d)
<1>1. OperationOf(q, l, H, {}, d)
  BY DEF OperationOf
<1> QED BY <1>1, PlainGives DEF Agree

LEMMA CRemoves ==
  ASSUME TInv, TInv', OncePerPath, NEW o \in Ops, Alone(o), NEW r, Proper(r, nextId),
         NEW s \in list, Removable(r, s), NEW p, Remove(o, r, s, p), Saved, stored' = stored, ~faulty', ~wiped'
  PROVE  CalmInv'
<1>0. /\ Listed(list, nextId) /\ db \in Dbs /\ Sourced(s, nextId) /\ intro = {}
      /\ \A t \in list : t.id = s.id => t = s
      /\ \A t \in list : t.path = r.path => t = s
      /\ \A h \in handles : \E t \in list : t.id = h.id /\ t.path = h.path /\ ~t.volatile /\ t.handle
  BY NoOpFields DEF TInv, Listed, OncePerPath, Removable, HandlesOf
<1>1. \A a \in Aliases : db[a] # None =>
        /\ AliasOf[db[a]] = a
        /\ (\E t \in list : t.path = db[a] /\ t.attached) \/ (db[a] = r.path /\ r.kind # "remove" /\ r.new.attached)
  BY <1>0, NoOpFields DEF Removable, Supported, Attests
<1>2. CASE s.attached
  <2> DEFINE q == [[r EXCEPT !.old = [id |-> s.id, handle |-> s.handle]] EXCEPT !.at = "detached"]
  <2>1. /\ q.at = "detached" /\ q.kind = r.kind /\ q.path = r.path /\ q.id = r.id /\ q.new = r.new
        /\ q.old.id = s.id /\ q.old.handle = s.handle
    BY DEF Proper, OpIn
  <2>2. Goto(o, q) /\ UNCHANGED <<list, dirty, intro, handles, nextId>>
    BY <1>2 DEF Remove
  <2> HIDE DEF q
  <2>3. db' = Detached({AliasOf[s.path]})
    BY <1>2 DEF Remove
  <2>4. \A a \in Aliases : db'[a] # None => db'[a] = db[a] /\ a # AliasOf[s.path]
    BY <1>0, <2>3, DetachedHolds
  <2>5. UnheldIn(db', r.path)
    <3>1. r.path # None /\ r.path = s.path
      BY <1>0, NoneAssumption DEF Sourced, Source, Paths, Removable
    <3> QED BY <1>1, <2>4, <3>1 DEF UnheldIn
  <2>6. DatabasesOf(q, list, {}, db')
    <3> SUFFICES ASSUME NEW a \in Aliases, db'[a] # None
                 PROVE  AliasOf[db'[a]] = a /\ \E t \in list : t.path = db'[a] /\ Attests(t, q, {})
      BY DEF DatabasesOf
    <3>1. db'[a] = db[a] /\ db[a] # r.path
      BY <2>4, <2>5 DEF UnheldIn
    <3> QED BY <1>1, <3>1 DEF Attests
  <2>7. RemovalOf(q, list, handles, db')
    <3>1. \A t \in list : t.id = q.old.id => t.path = q.path
      BY <1>0, <2>1 DEF Removable
    <3>2. \A h \in handles : h.id = q.old.id => q.at = "detached" /\ q.old.handle
      BY <1>0, <2>1
    <3> QED BY <2>1, <2>5, <3>1, <3>2 DEF RemovalOf
  <2>8. Agree(q, list, handles, {}, db')
    BY <2>1, <2>6, <2>7, RemovalAgrees DEF Removable
  <2>9. Saved'
    BY <2>2, SavedStays
  <2> QED BY <1>0, <2>2, <2>8, <2>9, CGoes
<1>3. CASE ~s.attached /\ s.handle
  <2> DEFINE q == [[r EXCEPT !.old = [id |-> s.id, handle |-> s.handle]] EXCEPT !.at = "unhandled"]
  <2>1. /\ q.at = "unhandled" /\ q.kind = r.kind /\ q.path = r.path /\ q.id = r.id /\ q.new = r.new
        /\ q.old.id = s.id /\ q.old.handle = s.handle
    BY DEF Proper, OpIn
  <2>2. Goto(o, q) /\ UNCHANGED <<list, dirty, db, intro, nextId>> /\ handles' = {h \in handles : h.id # s.id}
    BY <1>3 DEF Remove, RemoveHandle
  <2> HIDE DEF q
  <2>3. DatabasesOf(q, list, {}, db)
    BY <1>1, <2>1 DEF DatabasesOf, Attests, Claims
  <2>4. UnheldIn(db, r.path) \/ (r.kind # "remove" /\ r.new.attached)
    <3>1. r.path # None
      BY <1>0, NoneAssumption DEF Sourced, Source, Paths, Removable
    <3> QED BY <1>0, <1>1, <1>3, <3>1 DEF UnheldIn
  <2>5. RemovalOf(q, list, handles', db)
    <3>1. \A t \in list : t.id = q.old.id => t.path = q.path
      BY <1>0, <2>1 DEF Removable
    <3>2. \A h \in handles' : h.id # q.old.id
      BY <2>1, <2>2
    <3> QED BY <2>1, <2>4, <3>1, <3>2 DEF RemovalOf
  <2>6. HandlesOf(NoOp, list, handles')
    BY <2>2 DEF HandlesOf, Removable
  <2>7. Agree(q, list, handles', {}, db)
    BY <2>1, <2>3, <2>5, <2>6, RemovalAgrees DEF Removable
  <2>8. Saved'
    BY <2>2, SavedStays
  <2> QED BY <1>0, <2>2, <2>7, <2>8, CGoes
<1>4. CASE ~s.attached /\ ~s.handle
  <2>1. Filtered(o, r, s.id)
    BY <1>4 DEF Remove
  <2>2. HandlesOf(NoOp, Without(s.id), handles)
    BY <1>0, <1>4 DEF HandlesOf, Without
  <2>3. \A t \in list : t.attached => t \in Without(s.id)
    BY <1>0, <1>4 DEF Without
  <2>4. CASE r.kind = "remove"
    <3>1. list' = Without(s.id) /\ dirty' = TRUE /\ Goto(o, NoOp) /\ UNCHANGED <<db, intro, handles>>
      BY <2>1, <2>4 DEF Filtered, SetList
    <3>2. DatabasesOf(NoOp, Without(s.id), {}, db)
      BY <1>1, <2>3, <2>4 DEF DatabasesOf, Attests
    <3>3. Agree(NoOp, list', handles', intro', db')
      BY <1>0, <2>2, <3>1, <3>2, AgreeNoOp DEF TInv, Plain
    <3> QED BY <3>1, <3>3, CGoes, SavedStays
  <2>5. CASE r.kind # "remove"
    <3>1. AppendSource(o, r, Without(s.id)) /\ Without(s.id) \subseteq list
      BY <2>1, <2>5 DEF Filtered, Without
    <3>2. Supported(Without(s.id), intro, r.path, r.new.attached)
      BY <1>0, <1>1, <2>3 DEF Supported, Attests
    <3>3. \A t \in Without(s.id) : t.path # r.path
      BY <1>0 DEF Without
    <3>4. Appendable(r, Without(s.id))
      BY <2>2, <3>2, <3>3 DEF Appendable, Removable
    <3> QED BY <3>1, <3>4, CAppends DEF Removable
  <2> QED BY <2>4, <2>5
<1> QED BY <1>2, <1>3, <1>4

LEMMA NonePending ==
  ASSUME Regular, NEW o \in Ops, Alone(o), ~Adding(op[o])
  PROVE  \A p \in Paths : pending[p] = None
<1>1. \A x \in Ops : ~Adding(op[x])
  BY NoOpGood DEF Alone
<1> QED BY <1>1 DEF Regular, OnlyReserved, Typed

\* The source of r can be added, whatever is there.
Addable(r) ==
  /\ r.path \in Paths
  /\ HandlesOf(NoOp, list, handles)
  /\ Supported(list, intro, r.path, r.new.attached)
  /\ r.new.handle => ~r.new.volatile
  /\ \/ At(r.path) = {} /\ (r.kind = "reload" => \A h \in r.todo : UnheldIn(db, h.path) /\ h.path # r.path)
     \/ /\ r.kind \in {"upload", "replace"} /\ intro = {}
        /\ \A t \in list : t.id = r.id => t.path = r.path

LEMMA CAdds ==
  ASSUME TInv, TInv', Regular, NEW o \in Ops, Alone(o), ~Adding(op[o]), NEW r, Proper(r, nextId),
         r.kind \in {"upload", "replace", "reload"}, Addable(r),
         AddSource(o, r), Saved, stored' = stored, ~faulty', ~wiped'
  PROVE  CalmInv'
<1>1. pending[r.path] = None
  BY NonePending DEF Addable
<1>2. CASE At(r.path) = {}
  <2>1. AppendSource(o, r, list)
    BY <1>1, <1>2 DEF AddSource
  <2>2. \A s \in list : s.path # r.path
    BY <1>2 DEF At
  <2>3. r.kind = "reload" => \A h \in r.todo : UnheldIn(db, h.path) /\ h.path # r.path
    BY DEF Addable
  <2>4. Appendable(r, list)
    BY <2>2, <2>3 DEF Appendable, Addable
  <2> QED BY <2>1, <2>4, CAppends
<1>3. CASE At(r.path) # {}
  <2> DEFINE s == First(At(r.path))
             p == [pending EXCEPT ![r.path] = o]
  <2>1. s \in list /\ s.path = r.path
    BY <1>3, FirstOfPath DEF TInv
  <2>2. Remove(o, r, s, p)
    BY <1>1, <1>3 DEF AddSource
  <2> HIDE DEF s, p
  <2>3. Removable(r, s)
    BY <1>3, <2>1 DEF Removable, Addable, Supported
  <2> QED BY <2>1, <2>2, <2>3, CRemoves DEF Regular
<1> QED BY <1>2, <1>3

-----------------------------------------------------------------------------
(* What the steps of an operation that is alone lead to. *)

\* The operation o is alone and takes a step in which nothing fails.
Acts(o) ==
  /\ TInv /\ TInv' /\ Regular /\ ~wiped /\ Saved /\ ~faulty'
  /\ Alone(o) /\ Agree(op[o], list, handles, intro, db)

\* What it holds is nothing that the list does not say.
Simple(r) ==
  /\ ~(r.kind = "restore" /\ r.at = "register")
  /\ ~(r.at = "introspect" /\ r.ok) /\ ~(r.at = "attach" /\ r.ok)
  /\ r.at \notin {"detached", "unhandled"}

LEMMA ActsPlain ==
  ASSUME NEW o \in Ops, Acts(o), Simple(op[o])
  PROVE  Plain(list, handles, intro, db)
BY HandlesPlain, DatabasesPlain DEF Acts, Simple, Agree, Plain

LEMMA COnward ==
  ASSUME NEW o \in Ops, Acts(o), NEW r, Goto(o, r), wiped' = wiped, stored' = stored,
         dirty' = TRUE \/ UNCHANGED <<list, dirty>>, Agree(r, list', handles', intro', db')
  PROVE  CalmInv'
BY SavedStays, CGoes DEF Acts

LEMMA CQuietly ==
  ASSUME NEW o \in Ops, Acts(o), NEW r, Quietly(o, r), Agree(r, list, handles, intro, db)
  PROVE  CalmInv'
BY COnward DEF Quietly, rest

LEMMA CStops ==
  ASSUME NEW o \in Ops, Acts(o), Simple(op[o]), Quietly(o, NoOp)
  PROVE  CalmInv'
BY ActsPlain, AgreeNoOp, CQuietly DEF Acts, TInv

LEMMA CDetaches ==
  ASSUME NEW o \in Ops, Acts(o), Simple(op[o]), NEW A, NEW r, Detaches(o, r, A),
         OperationOf(r, list, handles, intro, Detached(A))
  PROVE  CalmInv'
<1>1. Plain(list, handles, intro, db)
  BY ActsPlain
<1>2. DatabasesOf(NoOp, list, intro, Detached(A))
  BY <1>1, DetachedHolds DEF Plain, Acts, TInv
<1>3. Agree(r, list, handles, intro, Detached(A))
  BY <1>1, <1>2, PlainGives DEF Plain, Agree
<1> QED BY <1>3, COnward DEF Detaches, rest

\* ATTACH: a database that is attached is claimed by the operation.
LEMMA CAttaches ==
  ASSUME NEW o \in Ops, Acts(o), Simple(op[o]), op[o].path \in Databases, Attaches(o),
         \A q, d : (/\ q.kind = op[o].kind /\ q.at = "attach" /\ q.path = op[o].path /\ q.id = op[o].id
                    /\ q.new = op[o].new /\ q.todo = op[o].todo /\ q.ok \in BOOLEAN
                    /\ GrownBy(db, d, q.path)
                    /\ (~q.ok => d = db))
                   => OperationOf(q, list, handles, intro, d)
  PROVE  CalmInv'
<1> DEFINE r == op[o]
<1>1. PICK a \in Attaching(r.path) : db' = a.db /\ Goto(o, [r EXCEPT !.at = "attach", !.ok = a.ok])
  BY DEF Attaches
<1>2. Plain(list, handles, intro, db) /\ Proper(r, nextId) /\ db \in Dbs
  BY ActsPlain, OpProper DEF Acts
<1>3. GrownBy(db, a.db, r.path) /\ (a.ok \/ a.db = db) /\ a.ok \in BOOLEAN
  BY <1>2, AttachingGrows, AttachingTyped
<1> DEFINE q == [r EXCEPT !.at = "attach", !.ok = a.ok]
<1>4. /\ q.kind = r.kind /\ q.at = "attach" /\ q.path = r.path /\ q.id = r.id /\ q.new = r.new
      /\ q.todo = r.todo /\ q.ok = a.ok
  BY <1>2 DEF Proper, OpIn
<1> HIDE DEF q
<1>5. OperationOf(q, list, handles, intro, a.db)
  BY <1>3, <1>4
<1>6. DatabasesOf(q, list, intro, a.db)
  <2> SUFFICES ASSUME NEW x \in Aliases, a.db[x] # None
               PROVE  /\ AliasOf[a.db[x]] = x
                      /\ (\E s \in list : s.path = a.db[x] /\ Attests(s, q, intro)) \/ Claims(q, a.db[x])
    BY DEF DatabasesOf
  <2>1. CASE a.db[x] = db[x]
    <3>1. DatabasesOf(q, list, intro, db)
      BY <1>2, PlainGives DEF Plain
    <3> QED BY <2>1, <3>1 DEF DatabasesOf
  <2>2. CASE a.db[x] # db[x]
    BY <1>3, <1>4, <2>2 DEF GrownBy, Claims
  <2> QED BY <2>1, <2>2
<1>7. Agree(q, list, handles, intro, a.db)
  BY <1>2, <1>5, <1>6, PlainGives DEF Plain, Agree
<1>8. UNCHANGED <<list, dirty, intro, handles, pending, nextId, faulty, rest>> /\ Goto(o, q)
  BY <1>1 DEF Attaches, q
<1> HIDE DEF r
<1> QED BY <1>1, <1>7, <1>8, COnward DEF rest

\* addDataSource, called by an operation that is no addition yet.
LEMMA CAddsOwn ==
  ASSUME NEW o \in Ops, Acts(o), op[o].at \notin {"detached", "unhandled"}, NEW r, Proper(r, nextId),
         r.kind \in {"upload", "replace", "reload"}, Addable(r), AddSource(o, r), UNCHANGED rest
  PROVE  CalmInv'
BY CAdds DEF Acts, Adding, rest

\* Every database has its source, or is the one that r attached.
LEMMA SupportedBy ==
  ASSUME NEW r, NEW l, NEW I, DatabasesOf(r, l, I, db), ~(r.at = "introspect" /\ r.ok),
         r.at \notin {"detached", "unhandled"}, NEW b, r.at = "attach" /\ r.ok => b
  PROVE  Supported(l, I, r.path, b)
BY AttestsPlain DEF DatabasesOf, Supported, Claims

\* introspectSchema of the source of r, which is in l.
LEMMA IntrospectAgrees ==
  ASSUME NEW o \in Ops, TInv, NEW r, Proper(r, nextId), NEW l, Listed(l, nextId), IsListed(r, l),
         r.kind \in {"reload", "reattach", "toggle", "refresh", "restore"},
         r.new.handle => ~r.new.volatile,
         HandlesOf(NoOp, l, handles), Supported(l, intro, r.path, TRUE),
         r.kind = "reload" => \A h \in r.todo : UnheldIn(db, h.path) /\ h.path # r.path,
         r.kind # "reload" => intro = {},
         IntrospectSchema(o, r, l)
  PROVE  \E q : Goto(o, q) /\ Agree(q, l, handles, intro, db')
<1> DEFINE s == CHOOSE s \in l : s.id = r.id
<1>1. Has(l, r.id)
  BY DEF Has, IsListed
<1>2. s \in l /\ s.id = r.id
  BY <1>1 DEF Has
<1>3. PICK a \in Introspecting(s) : db' = a.db /\ Goto(o, [r EXCEPT !.at = "introspect", !.ok = a.ok])
  BY <1>1 DEF IntrospectSchema
<1> HIDE DEF s
<1>4. s.path = r.path /\ \A t \in l : t.id = r.id => t.path = r.path
  BY <1>2 DEF Listed, IsListed
<1>5. GrownBy(db, a.db, r.path) /\ (a.ok \/ (a.db = db /\ UnheldIn(db, r.path)))
  BY <1>4, IntrospectingGrows DEF TInv
<1> DEFINE q == [r EXCEPT !.at = "introspect", !.ok = a.ok]
<1>6. /\ q.kind = r.kind /\ q.at = "introspect" /\ q.path = r.path /\ q.id = r.id /\ q.new = r.new
      /\ q.todo = r.todo /\ q.ok = a.ok
  BY DEF Proper, OpIn
<1> HIDE DEF q
<1>7. r.kind = "reload" => \A h \in r.todo : UnheldIn(a.db, h.path) /\ h.path # r.path
  <2>1. r.kind = "reload" => \A h \in r.todo : h.path # None
    BY NoneAssumption DEF Proper, Suited, HandlesTo, Handle, Paths
  <2> QED BY <1>5, <2>1, GrownUnheld
<1>8. IsListed(q, l)
  BY <1>6 DEF IsListed
<1>9. r.kind = "reload" => ReloadOf(q, l, a.db)
  BY <1>5, <1>6, <1>7, <1>8, <1>2 DEF ReloadOf
<1>10. OperationOf(q, l, handles, intro, a.db)
  BY <1>4, <1>6, <1>8, <1>9 DEF OperationOf
<1>11. DatabasesOf(q, l, intro, a.db)
  <2> SUFFICES ASSUME NEW x \in Aliases, a.db[x] # None
               PROVE  AliasOf[a.db[x]] = x /\ \E t \in l : t.path = a.db[x] /\ Attests(t, q, intro)
    BY DEF DatabasesOf
  <2>1. \A t : Attests(t, NoOp, intro) => Attests(t, q, intro)
    BY NoOpFields DEF Attests
  <2>2. a.ok => Attests(s, q, intro)
    BY <1>2, <1>6 DEF Attests
  <2>3. CASE a.db[x] # r.path
    <3>1. a.db[x] = db[x]
      BY <1>5, <2>3 DEF GrownBy
    <3> QED BY <2>1, <2>3, <3>1 DEF Supported
  <2>4. CASE a.db[x] = r.path
    <3>1. a.ok
      BY <1>5, <2>4 DEF UnheldIn
    <3>2. AliasOf[a.db[x]] = x
      BY <1>5 DEF GrownBy, Supported
    <3> QED BY <1>2, <1>4, <2>2, <2>4, <3>1, <3>2
  <2> QED BY <2>3, <2>4
<1>12. Agree(q, l, handles, intro, a.db)
  BY <1>10, <1>11, PlainGives DEF Agree
<1> QED BY <1>3, <1>12 DEF q

\* updateDataSource and introspectSchema.
LEMMA CUpdates ==
  ASSUME NEW o \in Ops, Acts(o), op[o].kind \in {"reload", "reattach", "toggle", "refresh", "restore"},
         NEW l, Kept(list, l, nextId), IsListed(op[o], l), HandlesOf(NoOp, l, handles),
         Supported(l, intro, op[o].path, TRUE), UpdateAndIntrospect(o, op[o], l)
  PROVE  CalmInv'
<1> DEFINE r == op[o]
<1>1. Proper(r, nextId) /\ Listed(l, nextId)
  BY OpProper, KeptListed DEF Acts
<1>2. OperationOf(r, list, handles, intro, db)
  BY DEF Acts, Agree
<1>3. r.new.handle => ~r.new.volatile
  BY <1>2 DEF OperationOf
<1>4. r.kind = "reload" => \A h \in r.todo : UnheldIn(db, h.path) /\ h.path # r.path
  BY <1>2 DEF OperationOf, ReloadOf
<1>5. r.kind # "reload" => intro = {}
  BY <1>2 DEF OperationOf
<1>6. IntrospectSchema(o, r, l)
  BY DEF UpdateAndIntrospect
<1> HIDE DEF r
<1>7. PICK q : Goto(o, q) /\ Agree(q, l, handles, intro, db')
  BY <1>1, <1>3, <1>4, <1>5, <1>6, IntrospectAgrees DEF Acts, r
<1>8. /\ list' = l /\ dirty' = TRUE
      /\ UNCHANGED <<intro, handles, pending, nextId, faulty, rest>>
  BY DEF UpdateAndIntrospect, SetList
<1>9. Agree(q, list', handles', intro', db') /\ wiped' = wiped /\ stored' = stored
  BY <1>7, <1>8 DEF rest
<1> QED BY <1>7, <1>8, <1>9, COnward

\* The catch of a reload.
LEMMA CReloadFails ==
  ASSUME NEW o \in Ops, Acts(o), Simple(op[o]), op[o].kind = "reload", UnheldIn(db, op[o].path),
         ReloadFails(o, op[o])
  PROVE  CalmInv'
<1> DEFINE r == op[o]
<1>1. Plain(list, handles, intro, db) /\ Proper(r, nextId) /\ nextId \in Nat /\ Listed(list, nextId)
  BY ActsPlain, OpProper DEF Acts
<1>2. \A h \in r.todo : UnheldIn(db, h.path)
  BY DEF Acts, Agree, OperationOf, ReloadOf
<1>3. Goto(o, NextHandle(r)) /\ UNCHANGED <<db, intro, handles, pending, nextId, rest>>
  BY DEF ReloadFails
<1>4. CASE UNCHANGED <<list, dirty>>
  <2>1. Agree(NextHandle(r), list', handles', intro', db')
    BY <1>1, <1>2, <1>3, <1>4, AgreeNext
  <2> HIDE DEF r
  <2> QED BY <1>3, <1>4, <2>1, COnward DEF rest
<1>5. CASE At(r.path) # {} /\ SetList(Updated(First(At(r.path)).id, {MarkFailed(First(At(r.path)))}))
  <2> DEFINE l == Updated(First(At(r.path)).id, {MarkFailed(First(At(r.path)))})
  <2>1. Kept(list, l, nextId) /\ Upholds(list, l, {r.path})
    BY <1>1, <1>5, FirstMarkedKept, FirstMarkedUpholds
  <2>2. list' = l /\ dirty' = TRUE
    BY <1>5 DEF SetList
  <2> HIDE DEF l, r
  <2>3. Plain(l, handles, intro, db)
    BY <1>1, <2>1, UpholdsKeeps DEF Plain, r
  <2>4. Listed(l, nextId)
    BY <2>1, KeptListed
  <2>5. Agree(NextHandle(r), l, handles, intro, db)
    BY <1>1, <1>2, <2>3, <2>4, AgreeNext DEF r
  <2> QED BY <1>3, <2>2, <2>5, COnward DEF rest
<1> QED BY <1>4, <1>5 DEF ReloadFails

\* An operation that lost its file or its database.
LEMMA CFails ==
  ASSUME NEW o \in Ops, Acts(o), Simple(op[o]), op[o].at \in {"register", "attach", "verify", "introspect"},
         op[o].at \in {"attach", "introspect"} => ~op[o].ok, Fails(o)
  PROVE  CalmInv'
<1> DEFINE r == op[o]
<1>1. Plain(list, handles, intro, db) /\ Proper(r, nextId) /\ nextId \in Nat /\ Listed(list, nextId)
  BY ActsPlain, OpProper DEF Acts
<1>2. OperationOf(r, list, handles, intro, db)
  BY DEF Acts, Agree
<1>3. r.kind = "reload" => UnheldIn(db, r.path)
  BY <1>2 DEF OperationOf, ReloadOf
<1>4. CASE r.kind = "reload" /\ ReloadFails(o, r)
  BY <1>3, <1>4, CReloadFails
<1>5. CASE r.kind = "reload" /\ Forget(o, r)
  <2> DEFINE q == [r EXCEPT !.at = "forget"]
  <2>1. /\ q.kind = r.kind /\ q.at = "forget" /\ q.path = r.path /\ q.id = r.id /\ q.new = r.new
        /\ q.todo = r.todo
    BY <1>1, MovedFields
  <2>2. Goto(o, q) /\ handles' = {h \in handles : h.id # r.hid}
        /\ UNCHANGED <<list, dirty, db, intro, pending, nextId, rest>>
    BY <1>5 DEF Forget
  <2> HIDE DEF q, r
  <2>3. HandlesOf(NoOp, list, handles')
    BY <1>1, <2>2 DEF Plain, HandlesOf
  <2>4. ReloadOf(q, list, db)
    BY <1>2, <1>3, <1>5, <2>1 DEF OperationOf, ReloadOf, IsListed
  <2>5. OperationOf(q, list, handles', intro, db)
    BY <1>2, <1>5, <2>1, <2>4 DEF OperationOf
  <2>6. Agree(q, list, handles', intro, db)
    BY <1>1, <2>3, <2>5, PlainGives DEF Plain, Agree
  <2> QED BY <2>2, <2>6, COnward DEF rest
<1>6. CASE r.kind # "reload"
  <2>1. Goto(o, NoOp) /\ UNCHANGED <<list, dirty, db, intro, handles, pending, nextId, rest>>
    BY <1>6 DEF Fails
  <2>2. Agree(NoOp, list', handles', intro', db')
    BY <1>1, <2>1, AgreeNoOp
  <2> QED BY <2>1, <2>2, COnward DEF rest
<1> QED BY <1>4, <1>5, <1>6 DEF Fails

\* filter and the set of the new source, after the old one.
LEMMA CFilters ==
  ASSUME NEW o \in Ops, Acts(o), op[o].at \in {"detached", "unhandled"},
         \A h \in handles : h.id # op[o].old.id, Filtered(o, op[o], op[o].old.id), UNCHANGED rest
  PROVE  CalmInv'
<1> DEFINE r == op[o]
           l == Without(r.old.id)
<1>1. Proper(r, nextId) /\ Listed(list, nextId) /\ r.kind \notin {"none", "clear"}
  BY OpProper DEF Acts
<1>2. RemovalOf(r, list, handles, db) /\ (r.new.handle => ~r.new.volatile)
  BY DEF Acts, Agree, OperationOf
<1>3. HandlesOf(NoOp, list, handles) /\ DatabasesOf(r, list, intro, db)
  BY HandlesPlain DEF Acts, Agree
<1>4. HandlesOf(NoOp, l, handles)
  BY <1>3 DEF HandlesOf, Without
<1>5. l \subseteq list
  BY DEF Without
<1>6. \A s \in list : s \in l \/ s.path = r.path
  BY <1>2 DEF RemovalOf, Without
<1>7. \A s : Attests(s, r, intro) => Attests(s, NoOp, intro)
  BY AttestsPlain
<1>8. wiped' = wiped /\ stored' = stored
  BY DEF rest
<1>9. CASE r.kind = "remove"
  <2>1. list' = l /\ dirty' = TRUE /\ Goto(o, NoOp) /\ UNCHANGED <<db, intro, handles>>
    BY <1>9 DEF Filtered, SetList
  <2>2. \A a \in Aliases : db[a] # r.path
    BY <1>2, <1>9 DEF RemovalOf, UnheldIn
  <2> HIDE DEF l, r
  <2>3. DatabasesOf(NoOp, l, intro, db)
    BY <1>3, <1>6, <1>7, <1>9, <2>2 DEF DatabasesOf, Claims
  <2>4. Listed(l, nextId)
    BY <1>1, <1>5 DEF Listed
  <2>5. Agree(NoOp, l, handles, intro, db)
    BY <1>4, <2>3, <2>4, AgreeNoOp DEF Plain
  <2> QED BY <1>8, <2>1, <2>5, COnward
<1>10. CASE r.kind # "remove"
  <2>1. AppendSource(o, r, l)
    BY <1>10 DEF Filtered
  <2>2. \A s \in l : s.path # r.path
    <3>1. Only(list, r.path, r.old.id)
      BY <1>10 DEF Acts, Regular, Reserved, Adding
    <3> QED BY <3>1 DEF Only, Without
  <2>3. r.kind = "reload" => \A h \in r.todo : UnheldIn(db, h.path) /\ h.path # r.path
    BY DEF Acts, Agree, OperationOf, ReloadOf
  <2> HIDE DEF l, r
  <2>4. Supported(l, intro, r.path, r.new.attached)
    <3> SUFFICES ASSUME NEW a \in Aliases, db[a] # None
                 PROVE  /\ AliasOf[db[a]] = a
                        /\ (\E s \in l : s.path = db[a] /\ Attests(s, NoOp, intro))
                           \/ (db[a] = r.path /\ r.new.attached)
      BY DEF Supported
    <3>1. AliasOf[db[a]] = a
      BY <1>3 DEF DatabasesOf
    <3>2. CASE Claims(r, db[a])
      <4>1. r.at \in {"detached", "unhandled"}
        BY DEF r
      <4> QED BY <3>1, <3>2, <4>1 DEF Claims
    <3>3. ASSUME NEW s \in list, s.path = db[a], Attests(s, r, intro)
          PROVE  s \in l \/ (db[a] = r.path /\ r.new.attached)
      BY <1>2, <1>6, <3>3 DEF RemovalOf, UnheldIn
    <3> QED BY <1>3, <1>7, <3>1, <3>2, <3>3 DEF DatabasesOf
  <2>5. Appendable(r, l)
    BY <1>2, <1>4, <2>2, <2>3, <2>4 DEF Appendable
  <2> QED BY <1>1, <1>5, <1>8, <2>1, <2>5, CAppends DEF Acts
<1> QED BY <1>9, <1>10

-----------------------------------------------------------------------------
(* Each step, when the operation is alone. *)

LEMMA UploadRegisteredCalm ==
  ASSUME NEW o \in Ops, Acts(o), UploadRegistered(o) PROVE CalmInv'
<1> DEFINE r == op[o]
<1>1. r.kind = "upload" /\ r.at = "register" /\ Proper(r, nextId) /\ Simple(r)
  BY OpProper DEF UploadRegistered, Is, Simple, Acts
<1>2. Plain(list, handles, intro, db) /\ OperationOf(r, list, handles, intro, db)
  BY <1>1, ActsPlain DEF Acts, Agree
<1>3. CASE Quietly(o, NoOp)
  BY <1>1, <1>3, CStops
<1>4. CASE r.path \in Databases /\ Detaches(o, [r EXCEPT !.at = "detach"], {AliasOf[r.path]})
  <2> DEFINE q == [r EXCEPT !.at = "detach"]
             A == {AliasOf[r.path]}
  <2>1. q.kind = r.kind /\ q.at = "detach" /\ q.path = r.path /\ q.id = r.id /\ q.new = r.new
    BY <1>1, MovedFields
  <2>2. UnheldIn(Detached(A), r.path)
    BY <1>2, <1>4, DetachedHolds DEF Plain, Acts, TInv
  <2>3. Detaches(o, q, A)
    BY <1>4
  <2> HIDE DEF q, A, r
  <2>4. OperationOf(q, list, handles, intro, Detached(A))
    BY <1>1, <1>2, <2>1, <2>2 DEF OperationOf
  <2> QED BY <1>1, <2>3, <2>4, CDetaches DEF r
<1>5. CASE AddSource(o, r) /\ UNCHANGED rest
  <2>1. Supported(list, intro, r.path, r.new.attached)
    BY <1>1, SupportedBy DEF Acts, Agree
  <2>2. r.path \in Paths
    BY <1>1 DEF Proper, Suited
  <2>3. Addable(r)
    BY <1>1, <1>2, <2>1, <2>2 DEF Addable, Plain, OperationOf
  <2> QED BY <1>1, <1>5, <2>3, CAddsOwn
<1> QED BY <1>3, <1>4, <1>5 DEF UploadRegistered

LEMMA UploadCalm ==
  ASSUME NEW o \in Ops, Acts(o),
         UploadDetached(o) \/ UploadAttached(o) \/ UploadStored(o) \/ UploadUnstored(o)
  PROVE  CalmInv'
<1> DEFINE r == op[o]
<1>1. r.kind = "upload" /\ Proper(r, nextId) /\ r.path \in Paths /\ OperationOf(r, list, handles, intro, db)
      /\ r.at \in {"detach", "attach", "store", "unstored"}
      /\ r.ok \in BOOLEAN
  BY OpProper DEF UploadDetached, UploadAttached, UploadStored, UploadUnstored, Is, Acts, Agree
<1>2. CASE UploadDetached(o)
  <2>1. r.at = "detach" /\ Simple(r) /\ Attaches(o) /\ r.path \in Databases
    BY <1>2, OpProper DEF UploadDetached, Is, Simple, Acts
  <2>2. UnheldIn(db, r.path) /\ intro = {}
    BY <1>1, <2>1 DEF OperationOf
  <2>3. ASSUME NEW q, NEW d, q.kind = r.kind, q.at = "attach", q.path = r.path, q.id = r.id,
               q.new = r.new, ~q.ok => d = db
        PROVE  OperationOf(q, list, handles, intro, d)
    BY <1>1, <2>2, <2>3 DEF OperationOf
  <2> QED BY <2>1, <2>3, CAttaches
<1>3. CASE UploadAttached(o)
  <2> DEFINE q == [r EXCEPT !.new.attached = r.ok, !.new.handle = @ /\ r.ok]
  <2>0. r.at = "attach" /\ r.path \in Databases
    BY <1>3, OpProper DEF UploadAttached, Is, Acts
  <2>1. Proper(q, nextId) /\ q.kind = r.kind
    BY <1>1, <2>0, AddedProper DEF Acts
  <2>2. q.path = r.path /\ q.id = r.id /\ q.new.attached = r.ok /\ q.new.volatile = r.new.volatile
        /\ (q.new.handle => r.new.handle)
    <3> DEFINE h == r.new.handle /\ r.ok
               new == [r.new EXCEPT !.attached = r.ok, !.handle = h]
    <3>1. r \in OpIn(nextId) /\ r.new \in New
      BY <1>1, FieldsOfOp DEF Proper
    <3>2. q = [r EXCEPT !.new = new]
      BY <3>1 DEF OpIn, New
    <3> HIDE DEF h
    <3>3. new.attached = r.ok /\ new.volatile = r.new.volatile /\ new.handle = h
      BY <3>1 DEF New
    <3> HIDE DEF new, q
    <3>4. q.path = r.path /\ q.id = r.id /\ q.new = new
      BY <3>1, <3>2 DEF OpIn
    <3> QED BY <3>3, <3>4 DEF h
  <2>3. AddSource(o, q) /\ UNCHANGED rest
    BY <1>3 DEF UploadAttached
  <2> HIDE DEF q
  <2>4. Supported(list, intro, r.path, r.ok)
    BY <2>0, SupportedBy DEF Acts, Agree
  <2>5. HandlesOf(NoOp, list, handles)
    BY <1>1, HandlesPlain DEF Acts, Agree
  <2>6. Addable(q)
    BY <1>1, <2>0, <2>1, <2>2, <2>4, <2>5 DEF Addable, OperationOf
  <2> QED BY <1>1, <2>0, <2>1, <2>3, <2>6, CAddsOwn
<1>4. CASE UploadStored(o)
  BY <1>4, CStops DEF UploadStored, Is, Simple
<1>5. CASE UploadUnstored(o)
  BY <1>1, <1>5 DEF UploadUnstored, Is, OperationOf
<1> QED BY <1>2, <1>3, <1>4, <1>5

LEMMA ReplaceCalm ==
  ASSUME NEW o \in Ops, Acts(o), ReplaceRegistered(o) \/ ReplaceAttached(o)
  PROVE  CalmInv'
<1> DEFINE r == op[o]
<1>1. r.kind = "replace" /\ Proper(r, nextId) /\ r.path \in Paths /\ OperationOf(r, list, handles, intro, db)
      /\ r.ok \in BOOLEAN
  BY OpProper DEF ReplaceRegistered, ReplaceAttached, Is, Acts, Agree
<1>2. intro = {}
  BY <1>1 DEF OperationOf
<1>3. CASE ReplaceRegistered(o) /\ Quietly(o, NoOp)
  BY <1>3, CStops DEF ReplaceRegistered, Is, Simple
<1>4. CASE ReplaceRegistered(o) /\ r.path \in Databases /\ Attaches(o)
  <2>1. r.at = "register" /\ Simple(r)
    BY <1>4 DEF ReplaceRegistered, Is, Simple
  <2>2. ASSUME NEW q, NEW d, q.kind = r.kind, q.at = "attach", q.path = r.path, q.id = r.id,
               q.new = r.new, ~q.ok => d = db
        PROVE  OperationOf(q, list, handles, intro, d)
    BY <1>1, <1>2, <2>1, <2>2 DEF OperationOf
  <2> QED BY <1>4, <2>1, <2>2, CAttaches
<1>5. CASE ReplaceRegistered(o) /\ AddSource(o, r) /\ UNCHANGED rest
  <2>1. r.at = "register" /\ Simple(r)
    BY <1>5 DEF ReplaceRegistered, Is, Simple
  <2>2. Supported(list, intro, r.path, r.new.attached) /\ HandlesOf(NoOp, list, handles)
    BY <2>1, ActsPlain, SupportedBy DEF Acts, Agree, Plain
  <2>3. Addable(r)
    BY <1>1, <1>2, <2>2 DEF Addable, OperationOf
  <2> QED BY <1>1, <1>5, <2>1, <2>3, CAddsOwn
<1>6. CASE ReplaceAttached(o)
  <2> DEFINE q == [r EXCEPT !.new.attached = r.ok]
  <2>0. r.at = "attach" /\ r.path \in Databases
    BY <1>6, OpProper DEF ReplaceAttached, Is, Acts
  <2>1. Proper(q, nextId) /\ q.kind = r.kind
    BY <1>1, <2>0, AddedProper DEF Acts
  <2>2. q.path = r.path /\ q.id = r.id /\ q.new.attached = r.ok /\ q.new.volatile = r.new.volatile
        /\ q.new.handle = r.new.handle
    <3> DEFINE new == [r.new EXCEPT !.attached = r.ok]
    <3>1. r \in OpIn(nextId) /\ r.new \in New
      BY <1>1, FieldsOfOp DEF Proper
    <3>2. q = [r EXCEPT !.new = new]
      BY <3>1 DEF OpIn, New
    <3>3. new.attached = r.ok /\ new.volatile = r.new.volatile /\ new.handle = r.new.handle
      BY <3>1 DEF New
    <3> HIDE DEF new, q
    <3>4. q.path = r.path /\ q.id = r.id /\ q.new = new
      BY <3>1, <3>2 DEF OpIn
    <3> QED BY <3>3, <3>4
  <2>3. AddSource(o, q) /\ UNCHANGED rest
    BY <1>6 DEF ReplaceAttached
  <2> HIDE DEF q
  <2>4. Supported(list, intro, r.path, r.ok)
    BY <2>0, SupportedBy DEF Acts, Agree
  <2>5. HandlesOf(NoOp, list, handles)
    BY <1>1, HandlesPlain DEF Acts, Agree
  <2>6. Addable(q)
    BY <1>1, <1>2, <2>1, <2>2, <2>4, <2>5 DEF Addable, OperationOf
  <2> QED BY <1>1, <2>0, <2>1, <2>3, <2>6, CAddsOwn
<1> QED BY <1>3, <1>4, <1>5, <1>6 DEF ReplaceRegistered

LEMMA OldCalm ==
  ASSUME NEW o \in Ops, Acts(o), OldDetached(o) \/ OldUnhandled(o), UNCHANGED rest
  PROVE  CalmInv'
<1> DEFINE r == op[o]
<1>1. r.at \in {"detached", "unhandled"} /\ Proper(r, nextId)
  BY OpProper DEF OldDetached, OldUnhandled, Acts
<1>2. /\ RemovalOf(r, list, handles, db) /\ OperationOf(r, list, handles, intro, db)
      /\ HandlesOf(r, list, handles) /\ DatabasesOf(r, list, intro, db)
  BY <1>1 DEF Acts, Agree, OperationOf
<1>3. CASE RemoveHandle(o, r, r.old.id)
  <2> DEFINE q == [r EXCEPT !.at = "unhandled"]
  <2>1. q.kind = r.kind /\ q.at = "unhandled" /\ q.path = r.path /\ q.id = r.id /\ q.new = r.new
        /\ q.old = r.old /\ q.todo = r.todo
    BY <1>1, MovedFields
  <2>2. Goto(o, q) /\ handles' = {h \in handles : h.id # r.old.id} /\ UNCHANGED <<list, dirty, db, intro, nextId>>
    BY <1>3 DEF RemoveHandle, Acts
  <2> HIDE DEF q, r
  <2>3. HandlesOf(NoOp, list, handles')
    BY <1>1, <1>2, <2>2, HandlesPlain DEF HandlesOf
  <2>4. DatabasesOf(q, list, intro, db)
    BY <1>1, <1>2, <2>1 DEF DatabasesOf, Attests, Claims
  <2>5. RemovalOf(q, list, handles', db)
    BY <1>2, <2>1, <2>2 DEF RemovalOf
  <2>6. ReloadOf(r, list, db) => ReloadOf(q, list, db)
    BY <1>1, <2>1 DEF ReloadOf, IsListed
  <2>7. OperationOf(q, list, handles', intro, db)
    <3>1. IsListed(r, list) => IsListed(q, list)
      BY <2>1 DEF IsListed
    <3> QED BY <1>1, <1>2, <2>1, <2>2, <2>5, <2>6, <3>1 DEF OperationOf
  <2>8. Agree(q, list, handles', intro, db)
    BY <2>3, <2>4, <2>7, PlainGives DEF Agree
  <2> QED BY <2>2, <2>8, COnward DEF rest
<1>4. CASE Filtered(o, r, r.old.id) /\ (r.at = "unhandled" \/ ~r.old.handle)
  <2>1. \A h \in handles : h.id # r.old.id
    BY <1>2, <1>4 DEF RemovalOf
  <2> QED BY <1>1, <1>4, <2>1, CFilters
<1> QED BY <1>3, <1>4 DEF OldDetached, OldUnhandled

LEMMA ReloadCalm ==
  ASSUME NEW o \in Ops, Acts(o), ReloadPermit(o) \/ ReloadForgotten(o)
  PROVE  CalmInv'
<1> DEFINE r == op[o]
<1>1. r.kind = "reload" /\ r.at \in {"permit", "forget"} /\ Proper(r, nextId) /\ Simple(r)
  BY OpProper DEF ReloadPermit, ReloadForgotten, Is, Simple, Acts
<1>2. OperationOf(r, list, handles, intro, db) /\ ReloadOf(r, list, db) /\ UnheldIn(db, r.path)
  BY <1>1 DEF Acts, Agree, OperationOf, ReloadOf
<1>3. CASE ReloadFails(o, r)
  BY <1>1, <1>2, <1>3, CReloadFails
<1>4. CASE Quietly(o, [r EXCEPT !.at = "register"])
  <2> DEFINE q == [r EXCEPT !.at = "register"]
  <2>1. /\ q.kind = r.kind /\ q.at = "register" /\ q.path = r.path /\ q.id = r.id /\ q.new = r.new
        /\ q.todo = r.todo
    BY <1>1, MovedFields
  <2> HIDE DEF q
  <2>2. ReloadOf(q, list, db)
    BY <1>1, <1>2, <2>1 DEF ReloadOf, IsListed
  <2>3. OperationOf(q, list, handles, intro, db)
    BY <1>1, <1>2, <2>1, <2>2 DEF OperationOf
  <2>4. Agree(q, list, handles, intro, db)
    BY <1>1, <2>3, ActsPlain, PlainGives DEF Plain, Agree
  <2> QED BY <1>4, <2>4, CQuietly DEF q
<1> QED BY <1>3, <1>4 DEF ReloadPermit, ReloadForgotten

LEMMA ReloadVerifiedCalm ==
  ASSUME NEW o \in Ops, Acts(o), ReloadVerified(o) PROVE CalmInv'
<1> DEFINE r == op[o]
<1>1. /\ r.kind = "reload" /\ r.at = "verify" /\ Proper(r, nextId) /\ Simple(r) /\ r.path \in Paths
      /\ nextId \in Nat \ {0} /\ Listed(list, nextId)
  BY OpProper DEF ReloadVerified, Is, Simple, Acts
<1>2. OperationOf(r, list, handles, intro, db) /\ ReloadOf(r, list, db) /\ UnheldIn(db, r.path)
  BY <1>1 DEF Acts, Agree, OperationOf, ReloadOf
<1>3. Plain(list, handles, intro, db)
  BY <1>1, ActsPlain
<1>4. CASE Fails(o)
  BY <1>1, <1>4, CFails
<1>5. CASE /\ At(r.path) # {}
           /\ SetList(Updated(First(At(r.path)).id, {MarkRestored(First(At(r.path)))}))
           /\ Goto(o, NextHandle(r))
           /\ UNCHANGED <<db, intro, handles, pending, nextId, faulty, rest>>
  <2> DEFINE l == Updated(First(At(r.path)).id, {MarkRestored(First(At(r.path)))})
  <2>1. Kept(list, l, nextId) /\ Upholds(list, l, {r.path})
    BY <1>1, <1>5, FirstMarkedKept, FirstMarkedUpholds
  <2>2. list' = l /\ dirty' = TRUE
    BY <1>5 DEF SetList
  <2> HIDE DEF l, r
  <2>3. Plain(l, handles, intro, db)
    BY <1>2, <1>3, <2>1, UpholdsKeeps DEF Plain
  <2>4. Listed(l, nextId)
    BY <2>1, KeptListed
  <2>5. Agree(NextHandle(r), l, handles, intro, db)
    BY <1>1, <1>2, <2>3, <2>4, AgreeNext DEF ReloadOf
  <2> QED BY <1>5, <2>2, <2>5, COnward DEF rest
<1>6. CASE /\ At(r.path) = {}
           /\ AddSource(o, [r EXCEPT !.new = [attached |-> FALSE, handle |-> TRUE, volatile |-> FALSE]])
           /\ UNCHANGED rest
  <2> DEFINE new == [attached |-> FALSE, handle |-> TRUE, volatile |-> FALSE]
             q == [r EXCEPT !.new = new]
  <2>1. new \in New /\ ~new.attached /\ ~new.volatile
    BY DEF New
  <2> HIDE DEF new
  <2>2. Proper(q, nextId) /\ q.kind = r.kind
    BY <1>1, <2>1, NewProper
  <2>3. AddSource(o, q)
    BY <1>6 DEF new
  <2>4. q.path = r.path /\ q.todo = r.todo /\ q.new = new
    BY <1>1, NewFields
  <2> HIDE DEF q
  <2>5. Supported(list, intro, q.path, q.new.attached)
    BY <1>1, <2>1, <2>4, SupportedBy DEF Acts, Agree
  <2>6. Addable(q)
    BY <1>1, <1>2, <1>3, <1>6, <2>1, <2>2, <2>4, <2>5 DEF Addable, Plain, ReloadOf
  <2> QED BY <1>1, <1>6, <2>2, <2>3, <2>6, CAddsOwn
<1> QED BY <1>4, <1>5, <1>6 DEF ReloadVerified

LEMMA RegisteredCalm ==
  ASSUME NEW o \in Ops, Acts(o), Registered(o) PROVE CalmInv'
<1> DEFINE r == op[o]
           id == IF r.kind = "reattach" THEN r.id
                 ELSE IF At(r.path) = {} THEN 0 ELSE First(At(r.path)).id
           b == db[AliasOf[r.path]] = r.path
<1>1. /\ r.kind \in {"reload", "reattach"} /\ r.at = "register" /\ Proper(r, nextId) /\ Simple(r)
      /\ nextId \in Nat \ {0} /\ Listed(list, nextId)
  BY OpProper DEF Registered, Is, Simple, Acts
<1>2. /\ OperationOf(r, list, handles, intro, db) /\ Plain(list, handles, intro, db)
      /\ r.kind = "reload" => ReloadOf(r, list, db) /\ UnheldIn(db, r.path)
      /\ r.kind = "reattach" => IsListed(r, list)
  BY <1>1, ActsPlain DEF Acts, Agree, OperationOf, ReloadOf
<1>3. CASE Fails(o)
  BY <1>1, <1>3, CFails
<1>4. CASE r.path \in Databases /\ Quietly(o, [r EXCEPT !.at = "check", !.id = id, !.ok = b])
  <2> DEFINE q == [r EXCEPT !.at = "check", !.id = id, !.ok = b]
  <2>1. /\ \A s \in list : s.id = id => s.path = r.path
        /\ r.kind = "reload" /\ id # 0 => \E s \in list : s.id = id /\ s.path = r.path
        /\ r.kind = "reload" /\ id = 0 => \A s \in list : s.path # r.path
        /\ r.kind = "reattach" => id = r.id
    <3>1. CASE r.kind = "reattach"
      BY <1>2, <3>1 DEF OperationOf
    <3>2. CASE r.kind # "reattach" /\ At(r.path) = {}
      BY <1>1, <3>2 DEF Listed, Sourced, Source, At
    <3>3. CASE r.kind # "reattach" /\ At(r.path) # {}
      BY <1>1, <3>3, FirstOfPath DEF Listed
    <3> QED BY <3>1, <3>2, <3>3
  <2> HIDE DEF id, b
  <2>2. q.kind = r.kind /\ q.at = "check" /\ q.id = id /\ q.path = r.path /\ q.new = r.new /\ q.todo = r.todo
    BY <1>1 DEF Proper, OpIn
  <2> HIDE DEF q
  <2>3. r.kind = "reload" => ReloadOf(q, list, db)
    BY <1>2, <2>1, <2>2 DEF ReloadOf, IsListed
  <2>4. r.kind = "reattach" => IsListed(q, list)
    BY <1>2, <2>1, <2>2 DEF IsListed
  <2>5. OperationOf(q, list, handles, intro, db)
    BY <1>1, <1>2, <2>1, <2>2, <2>3, <2>4 DEF OperationOf
  <2>6. Agree(q, list, handles, intro, db)
    BY <1>2, <2>5, PlainGives DEF Plain, Agree
  <2> QED BY <1>4, <2>6, CQuietly DEF q
<1>5. CASE Quietly(o, [r EXCEPT !.at = "verify"])
  <2> DEFINE q == [r EXCEPT !.at = "verify"]
  <2>1. /\ q.kind = r.kind /\ q.at = "verify" /\ q.path = r.path /\ q.id = r.id /\ q.new = r.new
        /\ q.todo = r.todo
    BY <1>1, MovedFields
  <2> HIDE DEF q
  <2>2. /\ r.kind = "reload" => ReloadOf(q, list, db)
        /\ r.kind = "reattach" => IsListed(q, list)
    BY <1>1, <1>2, <2>1 DEF ReloadOf, IsListed
  <2>3. OperationOf(q, list, handles, intro, db)
    BY <1>1, <1>2, <2>1, <2>2 DEF OperationOf
  <2>4. Agree(q, list, handles, intro, db)
    BY <1>2, <2>3, PlainGives DEF Plain, Agree
  <2> QED BY <1>5, <2>4, CQuietly DEF q
<1> QED BY <1>3, <1>4, <1>5 DEF Registered

\* The database is there.
LEMMA ReattachedCalm ==
  ASSUME NEW o \in Ops, Acts(o), op[o].kind \in {"reload", "reattach"}, op[o].at \in {"check", "attach"},
         op[o].ok, Reattached(o, op[o])
  PROVE  CalmInv'
<1> DEFINE r == op[o]
<1>1. /\ Proper(r, nextId) /\ Known(r, list) /\ r.path \in Databases /\ nextId \in Nat \ {0}
      /\ Listed(list, nextId) /\ r.path \in Paths
  BY OpProper DEF Acts, Paths
<1>2. OperationOf(r, list, handles, intro, db) /\ HandlesOf(NoOp, list, handles)
  BY HandlesPlain DEF Acts, Agree
<1>3. Supported(list, intro, r.path, TRUE)
  BY SupportedBy DEF Acts, Agree
<1>4. CASE r.id # 0
  <2> DEFINE l == Updated(r.id, {MarkAttached(s) : s \in Of(r.id)})
  <2>1. UpdateAndIntrospect(o, r, l)
    BY <1>4 DEF Reattached
  <2>2. \A s \in Of(r.id) : s.path \in Databases
    BY <1>1 DEF Of, Known, Marks
  <2>3. Kept(list, l, nextId) /\ Upholds(list, l, {})
    BY <1>1, <2>2, MarkedKept, MarkedUpholds
  <2> HIDE DEF l
  <2>4. IsListed(r, list)
    BY <1>2, <1>4 DEF OperationOf, ReloadOf
  <2>5. IsListed(r, l) /\ HandlesOf(NoOp, l, handles)
    BY <1>2, <2>3, <2>4, UpholdsKeeps
  <2>6. Supported(l, intro, r.path, TRUE)
    <3>1. ASSUME NEW s \in list, Attests(s, NoOp, intro)
          PROVE  \E t \in l : t.path = s.path /\ Attests(t, NoOp, intro)
      <4>1. PICK t \in l : t.id = s.id /\ t.path = s.path /\ (s.attached => t.attached)
        BY <2>3 DEF Upholds
      <4> QED BY <3>1, <4>1 DEF Attests
    <3> HIDE DEF r
    <3> QED BY <1>3, <3>1 DEF Supported
  <2> QED BY <2>1, <2>3, <2>5, <2>6, CUpdates
<1>5. CASE r.id = 0
  <2> DEFINE new == [attached |-> TRUE, handle |-> TRUE, volatile |-> FALSE]
             q == [r EXCEPT !.new = new]
  <2>1. new \in New /\ new.attached /\ ~new.volatile
    BY DEF New
  <2> HIDE DEF new
  <2>2. Proper(q, nextId) /\ q.kind = r.kind
    BY <1>1, <2>1, NewProper
  <2>3. AddSource(o, q) /\ UNCHANGED rest
    BY <1>5 DEF Reattached, new
  <2>4. q.path = r.path /\ q.todo = r.todo /\ q.new = new
    BY <1>1, NewFields
  <2> HIDE DEF q
  <2>5. r.kind = "reload"
    BY <1>1, <1>2, <1>5 DEF OperationOf, IsListed, Listed, Sourced, Source
  <2>6. /\ \A s \in list : s.path # r.path
        /\ \A h \in r.todo : UnheldIn(db, h.path) /\ h.path # r.path
    BY <1>2, <1>5, <2>5 DEF OperationOf, ReloadOf
  <2>7. At(q.path) = {}
    BY <2>4, <2>6 DEF At
  <2>8. Supported(list, intro, q.path, q.new.attached)
    BY <1>3, <2>1, <2>4 DEF Supported
  <2>9. Addable(q)
    BY <1>1, <1>2, <2>1, <2>2, <2>4, <2>5, <2>6, <2>7, <2>8 DEF Addable
  <2> QED BY <2>2, <2>3, <2>5, <2>9, CAddsOwn
<1> QED BY <1>4, <1>5

LEMMA ReattachCalm ==
  ASSUME NEW o \in Ops, Acts(o), Checked(o) \/ MadeRoom(o) \/ AttachAnswered(o)
  PROVE  CalmInv'
<1> DEFINE r == op[o]
<1>1. r.kind \in {"reload", "reattach"} /\ r.at \in {"check", "detach", "attach"}
  BY DEF Checked, MadeRoom, AttachAnswered, Reattaches
<1>2. /\ Proper(r, nextId) /\ r.path \in Databases /\ db \in Dbs
      /\ OperationOf(r, list, handles, intro, db)
      /\ r.kind = "reload" => ReloadOf(r, list, db)
  BY <1>1, OpProper DEF Acts, Agree, OperationOf
<1>3. r.kind = "reload" => \A h \in r.todo : h.path # None
  BY <1>2, NoneAssumption DEF Proper, Suited, HandlesTo, Handle, Paths
<1>4. CASE Checked(o) /\ ~r.ok
  <2> DEFINE q == [r EXCEPT !.at = "detach"]
             A == {AliasOf[r.path]} \cup Holders(r.path)
  <2>1. /\ q.kind = r.kind /\ q.at = "detach" /\ q.path = r.path /\ q.id = r.id /\ q.new = r.new
        /\ q.todo = r.todo
    BY <1>2, MovedFields
  <2>2. Detaches(o, q, A) /\ Simple(r) /\ r.at = "check"
    BY <1>4 DEF Checked, Simple
  <2>3. UnheldIn(Detached(A), r.path)
    <3>1. AliasOf[r.path] \in A
      OBVIOUS
    <3>2. DatabasesOf(NoOp, list, intro, db)
      BY <2>2, ActsPlain DEF Plain
    <3> HIDE DEF A
    <3> QED BY <1>2, <3>1, <3>2, DetachedHolds
  <2> HIDE DEF q, A
  <2>4. r.kind = "reload" => ReloadOf(q, list, Detached(A))
    <3> HIDE DEF r
    <3>1. r.kind = "reload" => \A h \in r.todo : UnheldIn(Detached(A), h.path) /\ h.path # r.path
      BY <1>2, <1>3, DetachedHolds DEF ReloadOf
    <3> QED BY <1>2, <2>1, <2>2, <2>3, <3>1 DEF ReloadOf, IsListed
  <2>5. OperationOf(q, list, handles, intro, Detached(A))
    BY <1>1, <1>2, <2>1, <2>4 DEF OperationOf, IsListed
  <2> QED BY <2>2, <2>5, CDetaches
<1>5. CASE (Checked(o) \/ AttachAnswered(o)) /\ r.ok
  BY <1>1, <1>5, ReattachedCalm DEF Checked, AttachAnswered
<1>6. CASE MadeRoom(o)
  <2>1. r.at = "detach" /\ Simple(r) /\ Attaches(o)
    BY <1>6 DEF MadeRoom, Simple
  <2>2. ASSUME NEW q, NEW d, q.kind = r.kind, q.at = "attach", q.path = r.path, q.id = r.id,
               q.new = r.new, q.todo = r.todo, GrownBy(db, d, q.path), ~q.ok => d = db
        PROVE  OperationOf(q, list, handles, intro, d)
    <3> HIDE DEF r
    <3>1. r.kind = "reload" => \A h \in r.todo : UnheldIn(d, h.path) /\ h.path # r.path
      BY <1>2, <1>3, <2>2, GrownUnheld DEF ReloadOf
    <3>2. r.kind = "reload" => ReloadOf(q, list, d)
      BY <1>2, <2>1, <2>2, <3>1 DEF ReloadOf, IsListed
    <3>3. r.kind = "reattach" => IsListed(q, list)
      BY <1>2, <2>2 DEF OperationOf, IsListed
    <3> QED BY <1>1, <1>2, <2>2, <3>2, <3>3 DEF OperationOf
  <2> QED BY <1>2, <2>1, <2>2, CAttaches
<1>7. CASE AttachAnswered(o) /\ ~r.ok
  BY <1>7, CFails DEF AttachAnswered, Simple
<1> QED BY <1>4, <1>5, <1>6, <1>7

LEMMA ToggleCalm ==
  ASSUME NEW o \in Ops, Acts(o), ToggleDetached(o) \/ ToggleAttached(o)
  PROVE  CalmInv'
<1> DEFINE r == op[o]
<1>1. /\ r.kind = "toggle" /\ r.at \in {"detach", "attach"} /\ Proper(r, nextId) /\ r.path \in Databases
      /\ OperationOf(r, list, handles, intro, db) /\ Listed(list, nextId)
  BY OpProper DEF ToggleDetached, ToggleAttached, Is, Acts, Agree
<1>2. IsListed(r, list) /\ intro = {}
  BY <1>1 DEF OperationOf
<1>3. CASE Quietly(o, NoOp) /\ (r.at = "detach" \/ ~r.ok)
  BY <1>1, <1>3, CStops DEF Simple
<1>4. CASE r.at = "detach" /\ Attaches(o)
  <2>1. ASSUME NEW q, NEW d, q.kind = r.kind, q.at = "attach", q.path = r.path, q.id = r.id,
               q.new = r.new
        PROVE  OperationOf(q, list, handles, intro, d)
    BY <1>1, <1>2, <2>1 DEF OperationOf, IsListed
  <2>2. Simple(r)
    BY <1>1, <1>4 DEF Simple
  <2> QED BY <1>1, <1>4, <2>1, <2>2, CAttaches
<1>5. CASE r.at = "attach" /\ r.ok /\ UpdateAndIntrospect(o, r, list)
  <2>1. Kept(list, list, nextId)
    BY SameKept DEF Acts
  <2>2. HandlesOf(NoOp, list, handles) /\ Supported(list, intro, r.path, TRUE)
    BY <1>5, HandlesPlain, SupportedBy DEF Acts, Agree
  <2> QED BY <1>1, <1>2, <1>5, <2>1, <2>2, CUpdates
<1> QED BY <1>1, <1>3, <1>4, <1>5 DEF ToggleDetached, ToggleAttached, Is

LEMMA RestoreCalm ==
  ASSUME NEW o \in Ops, Acts(o),
         RestoreAsked(o) \/ RestoreCancelled(o) \/ RestorePicked(o) \/ RestoreRegistered(o)
  PROVE  CalmInv'
<1> DEFINE r == op[o]
<1>1. /\ r.kind = "restore" /\ r.at \in {"ask", "picker", "register"} /\ Proper(r, nextId)
      /\ OperationOf(r, list, handles, intro, db) /\ Listed(list, nextId)
  BY OpProper DEF RestoreAsked, RestoreCancelled, RestorePicked, RestoreRegistered, Is, Acts, Agree
<1>2. IsListed(r, list) /\ intro = {} /\ HandlesOf(r, list, handles) /\ DatabasesOf(NoOp, list, intro, db)
  BY <1>1, DatabasesPlain DEF Acts, Agree, OperationOf
<1>3. ASSUME NEW at \in {"register", "picker"}, NEW q, q = [r EXCEPT !.at = at]
      PROVE  /\ q.kind = r.kind /\ q.at = at /\ q.id = r.id /\ q.path = r.path
             /\ OperationOf(q, list, handles, intro, db)
             /\ \A H : OperationOf(q, list, H, intro, db)
  <2>1. q.kind = r.kind /\ q.at = at /\ q.path = r.path /\ q.id = r.id /\ q.new = r.new
    BY <1>1, <1>3 DEF Proper, OpIn
  <2> HIDE DEF r
  <2>2. \A H : OperationOf(q, list, H, intro, db)
    BY <1>1, <1>2, <2>1 DEF OperationOf, IsListed
  <2> QED BY <2>1, <2>2
<1>4. CASE RestoreAsked(o)
  <2>1. PICK at \in {"register", "picker"} : Quietly(o, [r EXCEPT !.at = at])
    BY <1>4 DEF RestoreAsked
  <2> DEFINE q == [r EXCEPT !.at = at]
  <2>2. OperationOf(q, list, handles, intro, db)
    BY <1>3
  <2>3. r.at = "ask"
    BY <1>4 DEF RestoreAsked, Is
  <2>4. HandlesOf(NoOp, list, handles)
    BY <1>2, <2>3, HandlesPlain
  <2> HIDE DEF q
  <2>5. Agree(q, list, handles, intro, db)
    BY <1>2, <2>2, <2>4, PlainGives DEF Agree
  <2> QED BY <2>1, <2>5, CQuietly DEF q
<1>5. CASE RestoreCancelled(o)
  BY <1>5, CStops DEF RestoreCancelled, Is, Simple
<1>6. CASE RestorePicked(o)
  <2> DEFINE q == [r EXCEPT !.at = "register"]
             new == [id |-> r.id, path |-> r.path]
  <2>1. q.kind = "restore" /\ q.at = "register" /\ q.id = r.id /\ q.path = r.path
        /\ OperationOf(q, list, handles', intro, db)
    BY <1>1, <1>3
  <2>2. handles' = handles \cup {new} /\ Goto(o, q) /\ UNCHANGED <<list, dirty, db, intro, pending, nextId, rest>>
    BY <1>6 DEF RestorePicked
  <2>3. \A s \in list : s.id = r.id => ~s.volatile
    BY <1>6 DEF RestorePicked, Acts
  <2>4. new.id = r.id /\ new.path = r.path
    OBVIOUS
  <2>5. HandlesOf(NoOp, list, handles)
    BY <1>6, HandlesPlain DEF RestorePicked, Is, Acts, Agree
  <2> HIDE DEF q, new, r
  <2>6. HandlesOf(q, list, handles')
    BY <1>2, <2>1, <2>2, <2>3, <2>4, <2>5, NoOpFields DEF HandlesOf, IsListed
  <2>7. Agree(q, list, handles', intro, db)
    BY <1>2, <2>1, <2>6, PlainGives DEF Agree
  <2> QED BY <2>2, <2>7, COnward DEF rest
<1>7. CASE RestoreRegistered(o)
  <2> DEFINE S == {WithHandle(MarkRestored(s)) : s \in Of(r.id)}
             l == Updated(r.id, S)
  <2>1. UpdateAndIntrospect(o, r, l) /\ r.at = "register"
    BY <1>7 DEF RestoreRegistered, WithHandle, Acts, Is
  <2>2. Kept(list, l, nextId) /\ Upholds(list, l, {})
    BY <1>1, MarkedKept, MarkedUpholds
  <2>3. \A t \in S : t.handle /\ t \in l
    <3>1. ASSUME NEW s \in Of(r.id) PROVE WithHandle(MarkRestored(s)).handle
      <4>1. Sourced(s, nextId)
        BY <1>1 DEF Of, Listed
      <4>2. Sourced(MarkRestored(s), nextId)
        BY <4>1, MarkRestoredSourced
      <4> HIDE DEF WithHandle, MarkRestored
      <4> QED BY <4>2, MarkKeeps
    <3> HIDE DEF WithHandle, MarkRestored
    <3> QED BY <3>1 DEF Updated
  <2>4. \A t \in l : t \in S \/ t.id # r.id
    BY DEF Updated, Without
  <2> HIDE DEF S, l
  <2>5. IsListed(r, l)
    BY <1>2, <2>2, UpholdsKeeps
  <2>6. HandlesOf(r, l, handles)
    BY <1>2, <2>2, UpholdsKeeps
  <2>7. HandlesOf(NoOp, l, handles)
    BY <2>3, <2>4, <2>6 DEF HandlesOf
  <2>8. DatabasesOf(NoOp, l, intro, db)
    BY <1>2, <2>2, UpholdsKeeps
  <2>9. Supported(l, intro, r.path, TRUE)
    BY <2>8, NoOpFields DEF DatabasesOf, Supported, Claims
  <2> QED BY <1>1, <2>1, <2>2, <2>5, <2>7, <2>9, CUpdates
<1> QED BY <1>4, <1>5, <1>6, <1>7

LEMMA SchemaReadCalm ==
  ASSUME NEW o \in Ops, Acts(o), SchemaRead(o) PROVE CalmInv'
<1> DEFINE r == op[o]
           l == Updated(r.id, {MarkIntrospected(s) : s \in Of(r.id)})
<1>1. /\ r.at = "introspect" /\ Proper(r, nextId) /\ Listed(list, nextId) /\ r.kind \notin {"none", "clear"}
      /\ OperationOf(r, list, handles, intro, db) /\ DatabasesOf(r, list, intro, db)
      /\ HandlesOf(NoOp, list, handles) /\ db \in Dbs
  BY OpProper, HandlesPlain DEF SchemaRead, Acts, Agree
<1>2. CASE /\ SetList(l) /\ Goto(o, Ended(r))
           /\ UNCHANGED <<db, intro, handles, pending, nextId, faulty, rest>>
  <2>1. Kept(list, l, nextId) /\ Upholds(list, l, {})
    BY <1>1, MarkedKept, MarkedUpholds
  <2>2. \A s \in list : s.id = r.id /\ s.path \in Databases => \E t \in l : t.path = s.path /\ t.attached
    <3> SUFFICES ASSUME NEW s \in list, s.id = r.id, s.path \in Databases
                 PROVE  \E t \in l : t.path = s.path /\ t.attached
      OBVIOUS
    <3>1. Sourced(s, nextId) /\ s \in Of(r.id)
      BY <1>1 DEF Listed, Of
    <3>2. MarkIntrospected(s) \in l
      BY <3>1 DEF Updated
    <3>3. MarkIntrospected(s).path = s.path
      BY <3>1, MarkIntrospectedSourced
    <3>4. MarkIntrospected(s).attached
      BY <3>1, MarkKeeps
    <3> HIDE DEF l, r
    <3> QED BY <3>2, <3>3, <3>4
  <2>3. list' = l /\ dirty' = TRUE
    BY <1>2 DEF SetList
  <2> HIDE DEF l
  <2>4. Listed(l, nextId) /\ HandlesOf(NoOp, l, handles)
    BY <1>1, <2>1, KeptListed, UpholdsKeeps
  <2>5. DatabasesOf(NoOp, l, intro, db)
    <3> SUFFICES ASSUME NEW a \in Aliases, db[a] # None
                 PROVE  AliasOf[db[a]] = a /\ \E t \in l : t.path = db[a] /\ Attests(t, NoOp, intro)
      BY DEF DatabasesOf
    <3>1. db[a] \in Databases
      BY <1>1 DEF Dbs
    <3>2. PICK s \in list : AliasOf[db[a]] = a /\ s.path = db[a] /\ Attests(s, r, intro)
      BY <1>1 DEF DatabasesOf, Claims
    <3>3. PICK t \in l : t.id = s.id /\ t.path = s.path /\ (s.attached => t.attached)
      BY <2>1 DEF Upholds
    <3>4. CASE s.id = r.id
      BY <2>2, <3>1, <3>2, <3>4 DEF Attests
    <3>5. CASE s.id # r.id
      BY <3>2, <3>3, <3>5 DEF Attests
    <3> QED BY <3>4, <3>5
  <2>6. r.kind = "reload" => \A h \in r.todo : UnheldIn(db, h.path)
    BY <1>1 DEF OperationOf, ReloadOf
  <2> HIDE DEF r
  <2>7. Agree(Ended(r), l, handles, intro, db)
    BY <1>1, <2>4, <2>5, <2>6, AgreeEnded DEF Plain
  <2> QED BY <1>2, <2>3, <2>7, COnward DEF rest
<1>3. CASE Fails(o) /\ faulty' = (faulty \/ r.ok)
  <2>1. ~r.ok
    BY <1>3 DEF Acts
  <2> QED BY <1>1, <1>3, <2>1, CFails DEF Simple
<1> QED BY <1>2, <1>3 DEF SchemaRead

\* removeDataSource, called for a source of the list by itself.
LEMMA RemovableByItself ==
  ASSUME TInv, Plain(list, handles, intro, db), intro = {}, NEW s \in list, NEW p \in Paths, s.path = p
  PROVE  /\ Proper(Operation("remove", "none", p), nextId)
         /\ Removable(Operation("remove", "none", p), s)
<1> DEFINE r == Operation("remove", "none", p)
<1>1. Proper(r, nextId) /\ r.kind = "remove" /\ r.path = p /\ r.id = 0 /\ r.new = NoNew
  <2>1. Proper(r, nextId) /\ r.kind = "remove"
    BY RemoveOperation DEF TInv
  <2>2. r.path = p /\ r.id = 0 /\ r.new = NoNew
    BY DEF Operation, NoOp
  <2> QED BY <2>1, <2>2
<1> HIDE DEF r
<1>2. Supported(list, intro, r.path, r.kind # "remove" /\ r.new.attached)
  BY NoOpFields DEF Plain, DatabasesOf, Supported, Claims
<1>3. \A t \in list : t.id # 0
  BY DEF TInv, Listed, Sourced, Source
<1>4. Removable(r, s)
  BY <1>1, <1>2, <1>3, NoOpFields DEF Removable, Plain
<1> QED BY <1>1, <1>4 DEF r

LEMMA DeleteCalm ==
  ASSUME NEW o \in Ops, Acts(o), DeleteDetached(o) PROVE CalmInv'
<1> DEFINE left == {s \in list : s.id = op[o].id}
<1>1. op[o].kind = "delete" /\ op[o].at = "detach" /\ Simple(op[o]) /\ op[o].path \in Paths
  BY OpProper DEF DeleteDetached, Is, Simple, Acts
<1>2. Plain(list, handles, intro, db) /\ OperationOf(op[o], list, handles, intro, db)
  BY <1>1, ActsPlain DEF Acts, Agree
<1>3. CASE Quietly(o, NoOp)
  BY <1>1, <1>3, CStops
<1>4. CASE left # {} /\ Remove(o, Operation("remove", "none", op[o].path), First(left), pending) /\ UNCHANGED rest
  <2>1. First(left) \in left
    <3>1. \A s \in left : s.id \in Nat
      BY DEF Acts, TInv, Listed, Sourced, Source
    <3> HIDE DEF left
    <3> QED BY <1>4, <3>1, FirstIsThere
  <2> DEFINE s == First(left)
             q == Operation("remove", "none", op[o].path)
  <2>2. s \in list /\ s.path = op[o].path /\ intro = {}
    <3>1. s \in list /\ s.id = op[o].id
      BY <2>1
    <3> HIDE DEF s
    <3> QED BY <1>1, <1>2, <3>1 DEF OperationOf
  <2>3. Remove(o, q, s, pending)
    BY <1>4
  <2> HIDE DEF s, left
  <2>4. Proper(q, nextId) /\ Removable(q, s)
    BY <1>1, <1>2, <2>2, RemovableByItself DEF Acts
  <2> HIDE DEF q
  <2> QED BY <1>4, <2>2, <2>3, <2>4, CRemoves DEF Acts, Regular, rest
<1> QED BY <1>3, <1>4 DEF DeleteDetached

LEMMA ClearCalm ==
  ASSUME NEW o \in Ops, Acts(o), ClearListed(o) \/ Cleared(o) PROVE CalmInv'
<1> DEFINE r == op[o]
<1>1. /\ r.kind = "clear" /\ r.at \in {"list", "clear"} /\ Proper(r, nextId) /\ Listed(list, nextId)
      /\ nextId \in Nat \ {0} /\ db \in Dbs /\ Simple(r)
  BY OpProper DEF ClearListed, Cleared, Is, Simple, Acts
<1>2. /\ OperationOf(r, list, handles, intro, db) /\ Plain(list, handles, intro, db)
      /\ \A a \in Aliases : db[a] # None => a \in r.todo
      /\ r.at = "clear" => handles = {} /\ r.todo = {}
      /\ intro = {}
  BY <1>1, ActsPlain DEF Acts, Agree, OperationOf
<1>3. CASE \E a \in r.todo : Detaches(o, [r EXCEPT !.todo = @ \ {a}], {a}) /\ r.at = "list"
  <2>1. PICK a \in r.todo : Detaches(o, [r EXCEPT !.todo = @ \ {a}], {a})
    BY <1>3
  <2> DEFINE todo == r.todo \ {a}
             q == [r EXCEPT !.todo = todo]
  <2>2. Detaches(o, q, {a})
    BY <1>1, <2>1, FieldsOfOp DEF Proper, OpFields
  <2> HIDE DEF todo
  <2>3. q.kind = "clear" /\ q.at = "list" /\ q.new = r.new /\ q.id = r.id /\ q.path = r.path /\ q.todo = todo
    BY <1>1, <1>3 DEF Proper, OpIn
  <2> HIDE DEF q
  <2>4. \A x \in Aliases : Detached({a})[x] # None => x \in todo
    BY <1>1, <1>2, DetachedHolds DEF todo
  <2> HIDE DEF r
  <2>5. OperationOf(q, list, handles, intro, Detached({a}))
    BY <1>2, <2>3, <2>4 DEF OperationOf
  <2> QED BY <1>1, <2>2, <2>5, CDetaches DEF r
<1>4. CASE /\ r.todo = {} /\ r.at = "list" /\ handles' = {} /\ Goto(o, [r EXCEPT !.at = "clear"])
           /\ UNCHANGED <<list, dirty, db, intro, pending, nextId, faulty, rest>>
  <2> DEFINE q == [r EXCEPT !.at = "clear"]
  <2>1. /\ q.kind = r.kind /\ q.at = "clear" /\ q.path = r.path /\ q.id = r.id /\ q.new = r.new
        /\ q.todo = r.todo
    BY <1>1, MovedFields
  <2>2. Goto(o, q)
    BY <1>4
  <2> HIDE DEF q, r
  <2>3. OperationOf(q, list, {}, intro, db)
    BY <1>1, <1>2, <1>4, <2>1 DEF OperationOf
  <2>4. HandlesOf(NoOp, list, {})
    BY DEF HandlesOf
  <2>5. Agree(q, list, {}, intro, db)
    BY <1>2, <2>3, <2>4, PlainGives DEF Plain, Agree
  <2> QED BY <1>4, <2>2, <2>5, COnward DEF rest
<1>5. CASE /\ handles' = handles /\ Goto(o, NoOp)
           /\ UNCHANGED <<list, dirty, db, intro, pending, nextId, faulty, rest>>
  <2>1. Agree(NoOp, list, handles, intro, db)
    BY <1>1, <1>2, AgreeNoOp
  <2> QED BY <1>5, <2>1, COnward DEF rest
<1>6. CASE Cleared(o)
  <2>1. list' = {} /\ dirty' = TRUE /\ Goto(o, NoOp) /\ UNCHANGED <<db, intro, handles>> /\ r.at = "clear"
        /\ wiped' = (wiped \/ \E p \in Paths : pending[p] # None)
    BY <1>6 DEF Cleared, SetList, Is
  <2>2. ~wiped'
    <3>1. ~Adding(r)
      BY <2>1 DEF Adding
    <3> QED BY <2>1, <3>1, NonePending DEF Acts
  <2>3. Plain({}, handles, intro, db)
    BY <1>2, <2>1 DEF Plain, HandlesOf, DatabasesOf
  <2>4. Listed({}, nextId)
    BY DEF Listed
  <2>5. Agree(NoOp, {}, handles, intro, db)
    BY <2>3, <2>4, AgreeNoOp
  <2>6. Saved'
    BY <2>1 DEF Saved
  <2> QED BY <2>1, <2>2, <2>5, <2>6, CGoes DEF Acts
<1> QED BY <1>3, <1>4, <1>5, <1>6 DEF ClearListed, Is

LEMMA DeniedCalm == ASSUME NEW o \in Ops, Acts(o), ReattachDenied(o) PROVE CalmInv'
BY DEF ReattachDenied, Acts

LEMMA StepCalm ==
  ASSUME NEW o \in Ops, Acts(o), Step(o) PROVE CalmInv'
BY UploadRegisteredCalm, UploadCalm, ReplaceCalm, OldCalm, ReloadCalm, ReloadVerifiedCalm, RegisteredCalm,
   DeniedCalm, ReattachCalm, ToggleCalm, RestoreCalm, SchemaReadCalm, DeleteCalm, ClearCalm DEF Step

-----------------------------------------------------------------------------
(* What the user starts, when nothing is under way. *)

\* Nothing is under way and the user starts o.
Opens(o) ==
  /\ TInv /\ TInv' /\ Regular /\ ~faulty' /\ ~wiped' /\ Alone(o) /\ op[o] = NoOp /\ intro = {}
  /\ Plain(list, handles, intro, db) /\ Saved /\ stored' = stored

LEMMA OpensAlone ==
  ASSUME TInv, TInv', Regular, CalmInv, ~crossed', ~faulty', NEW o \in Ops, Start(o)
  PROVE  Opens(o)
BY StartsAlone DEF Opens

LEMMA CBegins ==
  ASSUME NEW o \in Ops, Opens(o), NEW r, Goto(o, r), OperationOf(r, list, handles, {}, db'),
         UNCHANGED <<list, dirty, handles, intro>>, DatabasesOf(NoOp, list, {}, db')
  PROVE  CalmInv'
<1>1. Agree(r, list, handles, {}, db')
  BY PlainGives DEF Plain, Agree, Opens
<1>2. Saved'
  BY SavedStays DEF Opens
<1> QED BY <1>1, <1>2, CGoes DEF Opens

LEMMA BeginCalm ==
  ASSUME NEW o \in Ops, Opens(o), NEW r, Begin(o, r), OperationOf(r, list, handles, {}, db)
  PROVE  CalmInv'
BY CBegins DEF Begin, Opens, Plain

\* An operation of the user on the source s.
LEMMA StartedOperation ==
  ASSUME TInv, NEW s \in list, NEW k, NEW a, NEW r,
         k \in {"reattach", "restore", "toggle", "delete"}, a \in {"register", "ask", "detach"},
         r.kind = k, r.at = a, r.path = s.path, r.id = s.id, r.new = NoNew, NEW d,
         k = "delete" => UnheldIn(d, s.path)
  PROVE  OperationOf(r, list, handles, {}, d)
<1>1. \A t \in list : t.id = s.id => t.path = s.path
  BY DEF TInv, Listed
<1>2. IsListed(r, list)
  BY DEF IsListed
<1> QED BY <1>1, <1>2, NoOpFields DEF OperationOf

LEMMA UploadStartsCalm ==
  ASSUME NEW o \in Ops, Opens(o), NEW p \in Paths, NEW drag \in BOOLEAN, Upload(o, p, drag)
  PROVE  CalmInv'
<1> DEFINE new == [attached |-> FALSE, handle |-> ~drag, volatile |-> drag]
           r == Operation("upload", "register", p)
           q == [r EXCEPT !.new = new]
<1>0. nextId \in Nat \ {0} /\ 0 \in Ids(nextId)
  BY DEF Opens, TInv, Ids
<1>1. new \in New /\ (new.handle => ~new.volatile)
  BY DEF New
<1> HIDE DEF new
<1>2. r \in OpIn(nextId) /\ r.kind = "upload" /\ r.at = "register" /\ r.path = p /\ r.id = 0
  <2>1. r \in OpIn(nextId) /\ r.kind = "upload" /\ r.at = "register" /\ r.path = p
    BY <1>0, KindIn, AtIn, OperationIn
  <2>2. r.id = 0
    BY DEF Operation, NoOp
  <2> QED BY <2>1, <2>2
<1> HIDE DEF r
<1>3. q.kind = "upload" /\ q.at = "register" /\ q.path = p /\ q.new = new /\ q.id = 0
  BY <1>1, <1>2 DEF OpIn
<1>4. Begin(o, q)
  BY DEF Upload, new, r
<1> HIDE DEF q
<1>5. \A s \in list : s.id # 0
  BY DEF Opens, TInv, Listed, Sourced, Source
<1>6. OperationOf(q, list, handles, {}, db)
  BY <1>1, <1>3, <1>5 DEF OperationOf
<1> QED BY <1>4, <1>6, BeginCalm

LEMMA ReplaceStartsCalm ==
  ASSUME NEW o \in Ops, Opens(o), NEW p \in Paths, ReloadFile(o, p)
  PROVE  CalmInv'
<1> DEFINE r == Operation("replace", "register", p)
<1>1. r.kind = "replace" /\ r.at = "register" /\ r.path = p /\ r.id = 0 /\ r.new = NoNew
  BY DEF Operation, NoOp
<1>2. Begin(o, r)
  BY DEF ReloadFile
<1> HIDE DEF r
<1>3. UnheldIn(db, p) \/ \E s \in list : s.path = p /\ s.attached
  <2>1. p # None
    BY NoneAssumption DEF Paths
  <2>2. \A s : Attests(s, NoOp, {}) => s.attached
    BY NoOpFields DEF Attests
  <2>3. \A q : ~Claims(NoOp, q)
    BY NoOpFields DEF Claims
  <2>4. DatabasesOf(NoOp, list, {}, db)
    BY DEF Opens, Plain
  <2> QED BY <2>1, <2>2, <2>3, <2>4 DEF DatabasesOf, UnheldIn
<1>4. \A s \in list : s.id # 0
  BY DEF Opens, TInv, Listed, Sourced, Source
<1>5. OperationOf(r, list, handles, {}, db)
  BY <1>1, <1>3, <1>4, NoOpFields DEF OperationOf
<1> QED BY <1>2, <1>5, BeginCalm

LEMMA ReattachStartsCalm ==
  ASSUME NEW o \in Ops, Opens(o), NEW s \in list, Reattach(o, s)
  PROVE  CalmInv'
<1> DEFINE q == [Operation("reattach", "register", s.path) EXCEPT !.id = s.id]
<1>1. q.kind = "reattach" /\ q.at = "register" /\ q.path = s.path /\ q.id = s.id /\ q.new = NoNew
  BY DEF Operation, NoOp
<1>2. Begin(o, q)
  BY DEF Reattach
<1> HIDE DEF q
<1>3. OperationOf(q, list, handles, {}, db)
  BY <1>1, StartedOperation DEF Opens
<1> QED BY <1>2, <1>3, BeginCalm

LEMMA RestoreStartsCalm ==
  ASSUME NEW o \in Ops, Opens(o), NEW s \in list, RestoreAccess(o, s)
  PROVE  CalmInv'
<1> DEFINE ok == \E h \in handles : h.id = s.id
           q == [Operation("restore", "ask", s.path) EXCEPT !.id = s.id, !.ok = ok]
<1>2. Begin(o, q)
  BY DEF RestoreAccess
<1> HIDE DEF ok
<1>1. q.kind = "restore" /\ q.at = "ask" /\ q.path = s.path /\ q.id = s.id /\ q.new = NoNew
  BY DEF Operation, NoOp
<1> HIDE DEF q
<1>3. OperationOf(q, list, handles, {}, db)
  BY <1>1, StartedOperation DEF Opens
<1> QED BY <1>2, <1>3, BeginCalm

LEMMA ToggleStartsCalm ==
  ASSUME NEW o \in Ops, Opens(o), NEW s \in list, ToggleWriteMode(o, s)
  PROVE  CalmInv'
<1> DEFINE ok == db[AliasOf[s.path]] # None
           q == [Operation("toggle", "detach", s.path) EXCEPT !.id = s.id, !.ok = ok]
<1>2. /\ Goto(o, q) /\ db' = Detached({AliasOf[s.path]})
      /\ UNCHANGED <<list, pending, intro, nextId, handles, dirty, faulty>>
  BY DEF ToggleWriteMode
<1> HIDE DEF ok
<1>1. q.kind = "toggle" /\ q.at = "detach" /\ q.path = s.path /\ q.id = s.id /\ q.new = NoNew
  BY DEF Operation, NoOp
<1> HIDE DEF q
<1>3. OperationOf(q, list, handles, {}, db')
  BY <1>1, StartedOperation DEF Opens
<1>4. DatabasesOf(NoOp, list, {}, db')
  BY <1>2, DetachedHolds DEF Opens, TInv, Plain
<1> QED BY <1>2, <1>3, <1>4, CBegins

LEMMA RefreshStartsCalm ==
  ASSUME NEW o \in Ops, Opens(o), NEW s \in list, Refresh(o, s)
  PROVE  CalmInv'
<1> DEFINE r == [Operation("refresh", "introspect", s.path) EXCEPT !.id = s.id]
<1>1. /\ Proper(r, nextId) /\ r.kind = "refresh" /\ r.path = s.path /\ r.id = s.id /\ r.new = NoNew
  BY StartedProper DEF Opens
<1>2. IntrospectSchema(o, r, list) /\ UNCHANGED <<list, pending, intro, nextId, handles, dirty, faulty>>
  BY DEF Refresh
<1> HIDE DEF r
<1>3. IsListed(r, list) /\ Listed(list, nextId)
  BY <1>1 DEF IsListed, Opens, TInv
<1>4. Supported(list, intro, r.path, TRUE) /\ HandlesOf(NoOp, list, handles)
  BY NoOpFields DEF Opens, Plain, DatabasesOf, Supported, Claims
<1>5. PICK q : Goto(o, q) /\ Agree(q, list, handles, intro, db')
  BY <1>1, <1>2, <1>3, <1>4, NoOpFields, IntrospectAgrees DEF Opens
<1>6. Saved'
  BY <1>2, SavedStays DEF Opens
<1> QED BY <1>2, <1>5, <1>6, CGoes DEF Opens

LEMMA RemoveStartsCalm ==
  ASSUME NEW o \in Ops, Opens(o), NEW s \in list, Remove(o, Operation("remove", "none", s.path), s, pending)
  PROVE  CalmInv'
<1> DEFINE r == Operation("remove", "none", s.path)
<1>1. s.path \in Paths
  BY DEF Opens, TInv, Listed, Sourced, Source
<1>2. Proper(r, nextId) /\ Removable(r, s)
  BY <1>1, RemovableByItself DEF Opens
<1>3. Remove(o, r, s, pending)
  OBVIOUS
<1> HIDE DEF r
<1> QED BY <1>2, <1>3, CRemoves DEF Opens, Regular

LEMMA DeleteStartsCalm ==
  ASSUME NEW o \in Ops, Opens(o), NEW s \in list, DeleteFile(o, s) \/ DeleteDatabase(o, s)
  PROVE  CalmInv'
<1>1. CASE DeleteFile(o, s)
  BY <1>1, RemoveStartsCalm DEF DeleteFile
<1>2. CASE DeleteDatabase(o, s)
  <2> DEFINE S == {x \in list : x.named /\ AliasOf[x.path] = AliasOf[s.path]}
             t == IF s.named THEN First(S) ELSE s
  <2>1. t \in list
    <3>1. CASE s.named
      <4>1. s \in S /\ \A x \in S : x.id \in Nat
        BY <3>1 DEF Opens, TInv, Listed, Sourced, Source
      <4>2. First(S) \in S
        <5> HIDE DEF S
        <5> QED BY <4>1, FirstIsThere
      <4> QED BY <3>1, <4>2
    <3>2. CASE ~s.named
      BY <3>2
    <3> QED BY <3>1, <3>2
  <2>3. \/ /\ t.attached
           /\ db' = Detached({AliasOf[t.path]})
           /\ Goto(o, [Operation("delete", "detach", t.path) EXCEPT
                      !.id = t.id, !.ok = (db[AliasOf[t.path]] # None)])
           /\ UNCHANGED <<list, pending, intro, nextId, handles, dirty, faulty>>
        \/ Remove(o, Operation("remove", "none", t.path), t, pending)
    BY <1>2 DEF DeleteDatabase
  <2> HIDE DEF t
  <2>4. CASE Remove(o, Operation("remove", "none", t.path), t, pending)
    BY <2>1, <2>4, RemoveStartsCalm
  <2>5. CASE /\ t.attached
             /\ db' = Detached({AliasOf[t.path]})
             /\ Goto(o, [Operation("delete", "detach", t.path) EXCEPT
                        !.id = t.id, !.ok = (db[AliasOf[t.path]] # None)])
             /\ UNCHANGED <<list, pending, intro, nextId, handles, dirty, faulty>>
    <3> DEFINE ok == db[AliasOf[t.path]] # None
               q == [Operation("delete", "detach", t.path) EXCEPT !.id = t.id, !.ok = ok]
    <3>1. Goto(o, q)
      BY <2>5
    <3> HIDE DEF ok
    <3>2. q.kind = "delete" /\ q.at = "detach" /\ q.path = t.path /\ q.id = t.id /\ q.new = NoNew
      BY DEF Operation, NoOp
    <3> HIDE DEF q
    <3>3. t.path \in Databases /\ db \in Dbs /\ DatabasesOf(NoOp, list, {}, db)
      BY <2>1, <2>5 DEF Opens, TInv, Listed, Sourced, Plain
    <3>4. UnheldIn(db', t.path) /\ DatabasesOf(NoOp, list, {}, db')
      <4> DEFINE A == {AliasOf[t.path]}
      <4>1. db' = Detached(A) /\ AliasOf[t.path] \in A
        BY <2>5
      <4> HIDE DEF A
      <4> QED BY <3>3, <4>1, DetachedHolds
    <3>5. OperationOf(q, list, handles, {}, db')
      BY <2>1, <3>2, <3>4, StartedOperation DEF Opens
    <3> QED BY <2>5, <3>1, <3>4, <3>5, CBegins
  <2> QED BY <2>3, <2>4, <2>5
<1> QED BY <1>1, <1>2

LEMMA ClearStartsCalm ==
  ASSUME NEW o \in Ops, Opens(o), Clear(o)
  PROVE  CalmInv'
<1> DEFINE todo == {a \in Aliases : db[a] # None}
           q == [Operation("clear", "list", None) EXCEPT !.todo = todo]
<1>1. Begin(o, q) /\ todo \subseteq Aliases /\ \A a \in Aliases : db[a] # None => a \in todo
  BY DEF Clear
<1> HIDE DEF todo
<1>2. q.kind = "clear" /\ q.at = "list" /\ q.todo = todo /\ q.new = NoNew /\ q.id = 0
  BY DEF Operation, NoOp
<1> HIDE DEF q
<1>3. \A s \in list : s.id # 0
  BY DEF Opens, TInv, Listed, Sourced, Source
<1>4. OperationOf(q, list, handles, {}, db)
  BY <1>1, <1>2, <1>3, NoOpFields DEF OperationOf
<1> QED BY <1>1, <1>4, BeginCalm

LEMMA StartsFirst == ASSUME NEW o \in Ops, UserStarts(o) PROVE Start(o)
BY DEF UserStarts, Upload, ReloadFile, Reattach, RestoreAccess, ToggleWriteMode, Refresh, DeleteFile,
       DeleteDatabase, Clear, Begin

LEMMA UserCalm ==
  ASSUME NEW o \in Ops, Opens(o), UserStarts(o) PROVE CalmInv'
BY UploadStartsCalm, ReplaceStartsCalm, ReattachStartsCalm, RestoreStartsCalm, ToggleStartsCalm,
   RefreshStartsCalm, DeleteStartsCalm, ClearStartsCalm DEF UserStarts

-----------------------------------------------------------------------------
(* The rest. *)

\* The history only grows.
LEMMA AddingGrows ==
  ASSUME NEW o \in Ops, faulty
  PROVE  /\ \A r, l : AppendSource(o, r, l) => faulty'
         /\ \A r, i : Filtered(o, r, i) => faulty'
         /\ \A r, i : RemoveHandle(o, r, i) => faulty'
         /\ \A r, s, p : Remove(o, r, s, p) => faulty'
         /\ \A r : AddSource(o, r) => faulty'
<1>1. ASSUME NEW r, NEW l, AppendSource(o, r, l) PROVE faulty'
  BY <1>1 DEF AppendSource
<1>2. \A r, i : Filtered(o, r, i) => faulty'
  BY <1>1 DEF Filtered
<1>3. \A r, i : RemoveHandle(o, r, i) => faulty'
  BY DEF RemoveHandle
<1>4. ASSUME NEW r, NEW s, NEW p, Remove(o, r, s, p) PROVE faulty'
  <2>1. PICK q : (\E done \in BOOLEAN : faulty' = (faulty \/ ~done)) \/ RemoveHandle(o, q, s.id) \/ Filtered(o, r, s.id)
    BY <1>4 DEF Remove
  <2> QED BY <1>2, <1>3, <2>1
<1>5. \A r : AddSource(o, r) => faulty'
  BY <1>1, <1>4 DEF AddSource
<1> QED BY <1>1, <1>2, <1>3, <1>4, <1>5

LEMMA StepFaulty == ASSUME NEW o \in Ops, Step(o), faulty PROVE faulty'
<1>1. CASE UploadRegistered(o) \/ UploadDetached(o) \/ UploadAttached(o) \/ UploadStored(o) \/ UploadUnstored(o)
  BY <1>1, AddingGrows
  DEF UploadRegistered, UploadDetached, UploadAttached, UploadStored, UploadUnstored, Quietly, Detaches, Attaches
<1>2. CASE ReplaceRegistered(o) \/ ReplaceAttached(o)
  BY <1>2, AddingGrows DEF ReplaceRegistered, ReplaceAttached, Quietly, Attaches
<1>3. CASE OldDetached(o) \/ OldUnhandled(o)
  BY <1>3, AddingGrows DEF OldDetached, OldUnhandled
<1>4. CASE ReloadPermit(o) \/ ReloadForgotten(o) \/ ReloadVerified(o) \/ Registered(o) \/ ReattachDenied(o)
  BY <1>4, AddingGrows DEF ReloadPermit, ReloadForgotten, ReloadVerified, Registered, ReattachDenied, Quietly
<1>5. Reattached(o, op[o]) => faulty'
  BY AddingGrows DEF Reattached, UpdateAndIntrospect
<1>6. CASE Checked(o) \/ MadeRoom(o) \/ AttachAnswered(o)
  BY <1>5, <1>6 DEF Checked, MadeRoom, AttachAnswered, Detaches, Attaches
<1>7. CASE ToggleDetached(o) \/ ToggleAttached(o) \/ RestoreAsked(o) \/ RestoreRegistered(o)
  BY <1>7 DEF ToggleDetached, ToggleAttached, RestoreAsked, RestoreRegistered, Quietly, Attaches, UpdateAndIntrospect
<1>8. CASE SchemaRead(o)
  BY <1>8 DEF SchemaRead
<1>9. CASE DeleteDetached(o)
  BY <1>9, AddingGrows DEF DeleteDetached, Quietly
<1>10. CASE ClearListed(o) \/ Cleared(o)
  BY <1>10 DEF ClearListed, Cleared, Detaches
<1> QED BY <1>1, <1>2, <1>3, <1>4, <1>6, <1>7, <1>8, <1>9, <1>10 DEF Step

LEMMA StartFaulty == ASSUME NEW o \in Ops, UserStarts(o), faulty PROVE faulty'
BY AddingGrows DEF UserStarts, Upload, ReloadFile, Reattach, RestoreAccess, ToggleWriteMode, Refresh,
                   DeleteFile, DeleteDatabase, Clear, Begin

LEMMA NextFaulty == ASSUME [Next]_vars, faulty PROVE faulty'
<1>1. ASSUME NEW o \in Ops, RestoreCancelled(o) \/ RestorePicked(o) PROVE faulty'
  BY <1>1 DEF RestoreCancelled, RestorePicked, Quietly
<1>2. ASSUME NEW flush, Restart(flush) PROVE faulty'
  BY <1>2 DEF Restart
<1>3. ASSUME Introspects \/ Save \/ UNCHANGED vars PROVE faulty'
  BY <1>3 DEF Introspects, Introspected, Save, vars
<1> QED BY <1>1, <1>2, <1>3, StepFaulty, StartFaulty DEF Next

LEMMA StepCrossed == ASSUME NEW o \in Ops, Step(o), crossed PROVE crossed'
<1>1. UNCHANGED rest => crossed'
  BY DEF rest
<1>2. Fails(o) => UNCHANGED rest
  BY DEF Fails, ReloadFails, Forget
<1>3. Reattached(o, op[o]) => UNCHANGED rest
  BY DEF Reattached, UpdateAndIntrospect
<1>4. CASE UploadRegistered(o) \/ UploadDetached(o) \/ UploadAttached(o) \/ UploadStored(o) \/ UploadUnstored(o)
  BY <1>1, <1>4
  DEF UploadRegistered, UploadDetached, UploadAttached, UploadStored, UploadUnstored, Quietly, Detaches, Attaches
<1>5. CASE ReplaceRegistered(o) \/ ReplaceAttached(o)
  BY <1>1, <1>5 DEF ReplaceRegistered, ReplaceAttached, Quietly, Attaches
<1>6. CASE (OldDetached(o) \/ OldUnhandled(o)) /\ UNCHANGED rest
  BY <1>1, <1>6
<1>7. CASE ReloadPermit(o) \/ ReloadForgotten(o) \/ ReloadVerified(o) \/ Registered(o) \/ ReattachDenied(o)
  BY <1>1, <1>2, <1>7
  DEF ReloadPermit, ReloadForgotten, ReloadVerified, Registered, ReattachDenied, Quietly, ReloadFails
<1>8. CASE Checked(o) \/ MadeRoom(o) \/ AttachAnswered(o)
  BY <1>1, <1>2, <1>3, <1>8 DEF Checked, MadeRoom, AttachAnswered, Detaches, Attaches
<1>9. CASE ToggleDetached(o) \/ ToggleAttached(o) \/ RestoreAsked(o) \/ RestoreRegistered(o)
  BY <1>1, <1>9 DEF ToggleDetached, ToggleAttached, RestoreAsked, RestoreRegistered, Quietly, Attaches, UpdateAndIntrospect
<1>10. CASE SchemaRead(o)
  BY <1>1, <1>2, <1>10 DEF SchemaRead
<1>11. CASE DeleteDetached(o)
  BY <1>1, <1>11 DEF DeleteDetached, Quietly
<1>12. CASE ClearListed(o) \/ Cleared(o)
  BY <1>1, <1>12 DEF ClearListed, Cleared, Detaches
<1> QED BY <1>4, <1>5, <1>6, <1>7, <1>8, <1>9, <1>10, <1>11, <1>12 DEF Step

LEMMA NextCrossed == ASSUME [Next]_vars, crossed PROVE crossed'
<1>1. ASSUME NEW o \in Ops, RestoreCancelled(o) \/ RestorePicked(o) PROVE crossed'
  BY <1>1 DEF RestoreCancelled, RestorePicked, Quietly, rest
<1>2. ASSUME NEW flush, Restart(flush) PROVE crossed'
  BY <1>2 DEF Restart
<1>3. ASSUME Introspects \/ Save \/ UNCHANGED vars PROVE crossed'
  BY <1>3 DEF Introspects, Introspected, Save, vars, rest
<1>4. ASSUME NEW o \in Ops, UserStarts(o) PROVE crossed'
  BY <1>4, StartsFirst DEF Start
<1> QED BY <1>1, <1>2, <1>3, <1>4, StepCrossed DEF Next

\* The introspection of a source that addDataSource started is over.
LEMMA IntrospectedCalm ==
  ASSUME TInv, CalmInv, NEW i \in intro, Introspected(i), ~faulty'
  PROVE  CalmInv'
<1>1. PICK r : Active(r) /\ Agree(r, list, handles, intro, db)
  BY DEF CalmInv
<1>2. UNCHANGED <<pending, op, nextId, db, handles, rest>> /\ intro' = intro \ {i}
  BY DEF Introspected
<1>3. Listed(list, nextId) /\ db \in Dbs
  BY DEF TInv
<1>4. PICK l : /\ list' = l /\ dirty' = TRUE /\ Kept(list, l, nextId) /\ Upholds(list, l, {})
               /\ i.ok => \A s \in list : s.id = i.id /\ s.path \in Databases =>
                            \E t \in l : t.path = s.path /\ t.attached
  <2>1. CASE i.ok /\ SetList(Updated(i.id, {[MarkIntrospected(s) EXCEPT !.busy = FALSE] : s \in Of(i.id)}))
    <3> DEFINE l == Updated(i.id, {Idle(MarkIntrospected(s)) : s \in Of(i.id)})
    <3>1. list' = l /\ dirty' = TRUE
      BY <2>1 DEF SetList, Idle
    <3>2. Kept(list, l, nextId) /\ Upholds(list, l, {})
      BY <1>3, MarkedKept, MarkedUpholds
    <3>3. ASSUME NEW s \in list, s.id = i.id, s.path \in Databases
          PROVE  \E t \in l : t.path = s.path /\ t.attached
      <4> DEFINE m == MarkIntrospected(s)
      <4>1. Sourced(s, nextId) /\ s \in Of(i.id)
        BY <1>3, <3>3 DEF Listed, Of
      <4>2. Idle(m) \in l
        BY <4>1 DEF Updated
      <4>3. Sourced(m, nextId) /\ m.path = s.path
        BY <4>1, MarkIntrospectedSourced
      <4>4. m.attached
        BY <3>3, <4>1, MarkKeeps
      <4> HIDE DEF m, l
      <4>5. Idle(m).path = m.path
        BY <4>3, MoreMarksSourced
      <4>6. Idle(m).attached = m.attached
        BY <4>3, MarkKeeps
      <4> QED BY <4>2, <4>3, <4>4, <4>5, <4>6
    <3> HIDE DEF l
    <3> QED BY <3>1, <3>2, <3>3
  <2>2. CASE ~i.ok /\ SetList(Updated(i.id, {[s EXCEPT !.failed = TRUE, !.busy = FALSE] : s \in Of(i.id)}))
    <3> DEFINE l == Updated(i.id, {Stopped(s) : s \in Of(i.id)})
    <3>1. list' = l /\ dirty' = TRUE
      BY <2>2 DEF SetList, Stopped
    <3>2. Kept(list, l, nextId) /\ Upholds(list, l, {})
      BY <1>3, MarkedKept, MarkedUpholds
    <3> HIDE DEF l
    <3> QED BY <2>2, <3>1, <3>2
  <2> QED BY <2>1, <2>2 DEF Introspected
<1>5. HandlesOf(r, l, handles) /\ Listed(l, nextId)
  BY <1>1, <1>4, UpholdsKeeps, KeptListed DEF Agree
<1>6. DatabasesOf(r, l, intro', db)
  <2> SUFFICES ASSUME NEW a \in Aliases, db[a] # None
               PROVE  /\ AliasOf[db[a]] = a
                      /\ (\E t \in l : t.path = db[a] /\ Attests(t, r, intro')) \/ Claims(r, db[a])
    BY DEF DatabasesOf
  <2>1. db[a] \in Databases
    BY <1>3 DEF Dbs
  <2>2. /\ AliasOf[db[a]] = a
        /\ (\E s \in list : s.path = db[a] /\ Attests(s, r, intro)) \/ Claims(r, db[a])
    BY <1>1 DEF Agree, DatabasesOf
  <2>3. ASSUME NEW s \in list, s.path = db[a], Attests(s, r, intro)
        PROVE  \E t \in l : t.path = db[a] /\ Attests(t, r, intro')
    <3>1. PICK t \in l : t.id = s.id /\ t.path = s.path /\ (s.attached => t.attached)
      BY <1>4 DEF Upholds
    <3>2. CASE i.ok /\ s.id = i.id
      BY <1>4, <2>1, <2>3, <3>2 DEF Attests
    <3>3. CASE ~(i.ok /\ s.id = i.id)
      BY <1>2, <2>3, <3>1, <3>3 DEF Attests
    <3> QED BY <3>2, <3>3
  <2> QED BY <2>2, <2>3
<1>7. OperationOf(r, l, handles, intro', db)
  <2>1. OperationOf(r, list, handles, intro, db)
    BY <1>1 DEF Agree
  <2>2. r.kind \notin {"none", "reload"} => r.kind = "upload" /\ r.at = "store"
    BY <2>1 DEF OperationOf
  <2>3. ReloadOf(r, list, db) => ReloadOf(r, l, db)
    BY <1>4, UpholdsKeeps
  <2>4. RemovalOf(r, list, handles, db) => RemovalOf(r, l, handles, db)
    BY <1>4 DEF RemovalOf, Kept
  <2>5. (\A s \in list : s.id = r.id => s.path = r.path) => \A s \in l : s.id = r.id => s.path = r.path
    BY <1>4 DEF Kept
  <2> QED BY <2>1, <2>2, <2>3, <2>4, <2>5 DEF OperationOf
<1>8. Agree(r, list', handles', intro', db')
  BY <1>2, <1>4, <1>5, <1>6, <1>7 DEF Agree
<1>9. Active(r)'
  BY <1>1, <1>2 DEF Active
<1>10. Saved' /\ ~wiped'
  BY <1>2, <1>4 DEF Saved, CalmInv, rest
<1> QED BY <1>8, <1>9, <1>10 DEF CalmInv

LEMMA SaveCalm == ASSUME CalmInv, Save PROVE CalmInv'
<1>1. PICK r : Active(r) /\ Agree(r, list, handles, intro, db)
  BY DEF CalmInv
<1>2. Active(r)' /\ Agree(r, list', handles', intro', db') /\ ~wiped' /\ Saved'
  BY <1>1 DEF Save, Active, CalmInv, Saved
<1> QED BY <1>2 DEF CalmInv

\* What is saved holds the source of every stored handle.
LEMMA LoadedHandles ==
  ASSUME NEW n, NEW l, Listed(l, n), \A s, t \in l : s.path = t.path => s = t,
         NEW H, HandlesOf(NoOp, l, H)
  PROVE  HandlesOf(NoOp, Loaded(l), H)
<1> SUFFICES ASSUME NEW h \in H
             PROVE  \E t \in Loaded(l) : t.id = h.id /\ t.path = h.path /\ ~t.volatile /\ t.handle
  BY DEF HandlesOf
<1>1. PICK s \in l : s.id = h.id /\ s.path = h.path /\ ~s.volatile /\ s.handle
  BY NoOpFields DEF HandlesOf
<1> DEFINE b == s.path \in Files /\ ~s.handle
           t == [s EXCEPT !.attached = FALSE, !.failed = b]
<1>2. t \in Loaded(l)
  <2>1. s.id \in Nat
    BY DEF Listed, Sourced, Source
  <2>2. \A y \in l : y.path = s.path => y.id <= s.id
    BY <2>1
  <2> QED BY <1>1, <2>2 DEF Loaded
<1> HIDE DEF b
<1>3. t.id = s.id /\ t.path = s.path /\ t.volatile = s.volatile /\ t.handle = s.handle
  <2>1. s \in Source
    BY DEF Listed, Sourced
  <2> QED BY <2>1 DEF Source
<1> HIDE DEF t
<1> QED BY <1>1, <1>2, <1>3

LEMMA FreshAgrees ==
  ASSUME NEW n \in Nat \ {0}, NEW l, Listed(l, n), NEW H, H \subseteq HandlesTo(n), NEW d,
         \A a \in Aliases : d[a] = None, HandlesOf(NoOp, l, H)
  PROVE  /\ Agree(NoOp, l, H, {}, d)
         /\ Agree(NextHandle([NoOp EXCEPT !.kind = "reload", !.todo = H]), l, H, {}, d)
<1> DEFINE q == [NoOp EXCEPT !.kind = "reload", !.todo = H]
<1>1. "reload" \in Kinds /\ H \in Todos
  BY DEF Kinds, Todos, HandlesTo
<1>2. q \in OpIn(n)
  BY <1>1, NoOpIn DEF OpIn
<1>3. q.kind = "reload" /\ q.todo = H /\ q.at = "none" /\ q.path = None /\ q.id = 0 /\ q.new = NoNew
  BY DEF NoOp
<1> HIDE DEF q
<1>4. \A h \in H : UnheldIn(d, h.path)
  <2>1. \A h \in H : h.path # None
    BY NoneAssumption DEF HandlesTo, Handle, Paths
  <2> QED BY <2>1 DEF UnheldIn
<1>5. Plain(l, H, {}, d)
  BY DEF Plain, DatabasesOf
<1>6. Agree(NoOp, l, H, {}, d)
  BY <1>5, AgreeNoOp
<1>7. Agree(NextHandle(q), l, H, {}, d)
  BY <1>2, <1>3, <1>4, <1>5, AgreeNextOf
<1> QED BY <1>6, <1>7 DEF q

LEMMA RestartCalm ==
  ASSUME TInv, Regular, CalmInv, NEW flush \in BOOLEAN, Restart(flush), ~faulty'
  PROVE  CalmInv'
<1> DEFINE saved == IF flush THEN list ELSE stored
           fresh == NextHandle([NoOp EXCEPT !.kind = "reload", !.todo = handles])
<1>1. /\ stored' = saved /\ list' = Loaded(saved) /\ intro' = {} /\ db' = [a \in Aliases |-> None]
      /\ op' = [x \in Ops |-> IF x = FirstOp THEN fresh ELSE NoOp]
      /\ UNCHANGED <<nextId, handles, crossed, wiped>>
  BY DEF Restart
<1>2. ~(dirty /\ ~flush) /\ \A o \in Ops : ~Is(o, "restore", "register")
  BY DEF Restart
<1>3. PICK r : Active(r) /\ Agree(r, list, handles, intro, db)
  BY DEF CalmInv
<1>4. HandlesOf(NoOp, list, handles)
  <2>1. ~(r.kind = "restore" /\ r.at = "register")
    BY <1>2, <1>3, NoOpFields DEF Active, Is
  <2> QED BY <1>3, <2>1, HandlesPlain DEF Agree
<1>5. Listed(list, nextId) /\ Listed(stored, nextId) /\ handles \subseteq HandlesTo(nextId) /\ nextId \in Nat \ {0}
  BY DEF TInv
<1>6. saved = list \/ Loaded(saved) = list
  BY <1>2 DEF CalmInv, Saved
<1>7. Listed(saved, nextId)
  BY <1>5
<1> HIDE DEF saved
<1>8. HandlesOf(NoOp, list', handles) /\ Listed(list', nextId)
  <2>1. Listed(Loaded(saved), nextId)
    BY <1>7, LoadedListed
  <2>2. CASE saved = list
    BY <1>1, <1>4, <1>5, <2>1, <2>2, LoadedHandles DEF Regular, OncePerPath
  <2>3. CASE Loaded(saved) = list
    BY <1>1, <1>4, <2>1, <2>3
  <2> QED BY <1>6, <2>2, <2>3
<1>9. Agree(NoOp, list', handles, {}, db') /\ Agree(fresh, list', handles, {}, db')
  <2>1. \A a \in Aliases : db'[a] = None
    BY <1>1
  <2> QED BY <1>5, <1>8, <2>1, FreshAgrees
<1> HIDE DEF fresh
<1>10. Saved' /\ ~wiped'
  BY <1>1 DEF Saved, CalmInv
<1>11. \/ \A x \in Ops : op'[x] = NoOp
       \/ FirstOp \in Ops /\ op'[FirstOp] = fresh /\ fresh # NoOp /\ \A x \in Ops \ {FirstOp} : op'[x] = NoOp
  <2> HIDE DEF FirstOp
  <2> QED BY <1>1
<1>12. PICK q : q = fresh
  OBVIOUS
<1>13. Active(NoOp)' \/ Active(q)'
  <2> HIDE DEF FirstOp
  <2> QED BY <1>11, <1>12 DEF Active
<1>14. /\ Agree(NoOp, list', handles', intro', db')
       /\ Agree(q, list', handles', intro', db')
  BY <1>1, <1>9, <1>12
<1> QED BY <1>10, <1>13, <1>14 DEF CalmInv

LEMMA InitCalm == Init => CalmInv
<1> SUFFICES ASSUME Init PROVE CalmInv
  OBVIOUS
<1>1. PICK S \in Earlier, over \in BOOLEAN :
        /\ list = Left(S, over)
        /\ stored = list
        /\ handles = {[id |-> i, path |-> S[i]] : i \in DOMAIN S}
        /\ op = [x \in Ops |-> IF x = FirstOp /\ ~over
                          THEN NextHandle([NoOp EXCEPT !.kind = "reload", !.todo = handles])
                          ELSE NoOp]
        /\ db = [a \in Aliases |->
              IF \E s \in list : s.attached /\ AliasOf[s.path] = a
              THEN (CHOOSE s \in list : s.attached /\ AliasOf[s.path] = a).path ELSE None]
        /\ intro = {}
        /\ wiped = FALSE
  BY DEF Init
<1>2. nextId \in Nat \ {0} /\ Listed(list, nextId) /\ handles \subseteq HandlesTo(nextId)
  BY InitTyped DEF TInv
<1> DEFINE F(i) == [id |-> i, path |-> S[i], attached |-> over /\ S[i] \in Databases,
                    named |-> S[i] \in Databases, handle |-> TRUE, volatile |-> FALSE,
                    failed |-> FALSE, busy |-> FALSE]
<1>3. list = {F(i) : i \in DOMAIN S}
  BY <1>1 DEF Left
<1>4. \A i : /\ F(i).id = i /\ F(i).path = S[i] /\ F(i).handle = TRUE /\ F(i).volatile = FALSE
             /\ F(i).attached => over
  OBVIOUS
<1> HIDE DEF F
<1>5. HandlesOf(NoOp, list, handles)
  <2> SUFFICES ASSUME NEW h \in handles
               PROVE  \E s \in list : s.id = h.id /\ s.path = h.path /\ ~s.volatile /\ s.handle
    BY DEF HandlesOf
  <2>1. PICK i \in DOMAIN S : h = [id |-> i, path |-> S[i]]
    BY <1>1
  <2>2. h.id = i /\ h.path = S[i]
    BY <2>1
  <2> QED BY <1>3, <1>4, <2>2
<1>6. \A a \in Aliases : db[a] # None =>
        over /\ \E s \in list : s.attached /\ AliasOf[s.path] = a /\ s.path = db[a]
  <2> SUFFICES ASSUME NEW a \in Aliases, db[a] # None
               PROVE  over /\ \E s \in list : s.attached /\ AliasOf[s.path] = a /\ s.path = db[a]
    OBVIOUS
  <2>1. (\E s \in list : s.attached /\ AliasOf[s.path] = a)
        /\ db[a] = (CHOOSE s \in list : s.attached /\ AliasOf[s.path] = a).path
    BY <1>1
  <2> DEFINE t == CHOOSE s \in list : s.attached /\ AliasOf[s.path] = a
  <2>2. t \in list /\ t.attached /\ AliasOf[t.path] = a
    BY <2>1
  <2>3. db[a] = t.path
    BY <2>1
  <2> HIDE DEF t
  <2>4. over
    BY <1>3, <1>4, <2>2
  <2> QED BY <2>2, <2>3, <2>4
<1>7. Plain(list, handles, intro, db)
  <2>1. DatabasesOf(NoOp, list, intro, db)
    BY <1>6 DEF DatabasesOf, Attests
  <2> QED BY <1>5, <2>1 DEF Plain
<1>8. Agree(NoOp, list, handles, intro, db)
  BY <1>2, <1>7, AgreeNoOp
<1> DEFINE fresh == NextHandle([NoOp EXCEPT !.kind = "reload", !.todo = handles])
<1>9. over \/ Agree(fresh, list, handles, intro, db)
  <2>1. over \/ \A a \in Aliases : db[a] = None
    BY <1>6
  <2> QED BY <1>1, <1>2, <1>5, <2>1, FreshAgrees
<1>10. op = [x \in Ops |-> IF x = FirstOp /\ ~over THEN fresh ELSE NoOp]
  BY <1>1
<1> HIDE DEF fresh, FirstOp
<1>11. Active(NoOp) \/ (~over /\ Active(fresh))
  <2>1. CASE over \/ fresh = NoOp \/ FirstOp \notin Ops
    BY <1>10, <2>1 DEF Active
  <2>2. CASE ~over /\ fresh # NoOp /\ FirstOp \in Ops
    <3>1. op[FirstOp] = fresh /\ \A x \in Ops \ {FirstOp} : op[x] = NoOp
      BY <1>10, <2>2
    <3> QED BY <2>2, <3>1 DEF Active
  <2> QED BY <2>1, <2>2
<1>12. Saved /\ ~wiped
  BY <1>1 DEF Saved
<1> QED BY <1>8, <1>9, <1>11, <1>12 DEF CalmInv

\* While nothing has crossed and nothing has failed.
CalmSo == crossed \/ faulty \/ CalmInv

LEMMA StandsCalm == ASSUME CalmInv, UNCHANGED vars PROVE CalmInv'
<1>1. PICK r : Active(r) /\ Agree(r, list, handles, intro, db)
  BY DEF CalmInv
<1>2. Active(r)' /\ Agree(r, list', handles', intro', db') /\ ~wiped' /\ Saved'
  BY <1>1 DEF vars, Active, CalmInv, Saved, Loaded
<1> QED BY <1>2 DEF CalmInv

LEMMA NextCalm ==
  ASSUME TInv, TInv', IInv, CalmSo, [Next]_vars
  PROVE  CalmSo'
<1> SUFFICES ASSUME ~crossed', ~faulty' PROVE CalmInv'
  BY DEF CalmSo
<1>1. CalmInv
  BY NextCrossed, NextFaulty DEF CalmSo
<1>2. Regular
  BY <1>1 DEF IInv, CalmInv
<1>3. ASSUME NEW o \in Ops, UserStarts(o) PROVE CalmInv'
  BY <1>1, <1>2, <1>3, StartsFirst, OpensAlone, UserCalm
<1>4. ASSUME NEW o \in Ops, op[o] # NoOp PROVE Acts(o)
  BY <1>1, <1>2, <1>4, OneActs DEF Acts
<1>5. ASSUME NEW o \in Ops, Step(o) \/ RestoreCancelled(o) \/ RestorePicked(o) PROVE op[o] # NoOp
  BY <1>5, NoOpFields
  DEF Step, RestoreCancelled, RestorePicked, Is, UploadRegistered, UploadDetached, UploadAttached, UploadStored,
      UploadUnstored, ReplaceRegistered, ReplaceAttached, OldDetached, OldUnhandled, ReloadPermit,
      ReloadForgotten, ReloadVerified, Registered, ReattachDenied, Checked, MadeRoom, AttachAnswered,
      Reattaches, ToggleDetached, ToggleAttached, RestoreAsked, RestoreRegistered, SchemaRead,
      DeleteDetached, ClearListed, Cleared
<1>6. ASSUME NEW o \in Ops, Step(o) \/ RestoreCancelled(o) \/ RestorePicked(o) PROVE CalmInv'
  BY <1>4, <1>5, <1>6, StepCalm, RestoreCalm
<1>7. ASSUME Introspects PROVE CalmInv'
  BY <1>1, <1>7, IntrospectedCalm DEF Introspects
<1>8. ASSUME NEW flush \in BOOLEAN, Restart(flush) PROVE CalmInv'
  BY <1>1, <1>2, <1>8, RestartCalm
<1> QED BY <1>1, <1>3, <1>6, <1>7, <1>8, SaveCalm, StandsCalm DEF Next

LEMMA CalmGives ==
  ASSUME TInv, CalmSo PROVE CalmHandles /\ CalmDatabases
<1>1. CASE ~Calm
  BY <1>1 DEF CalmHandles, CalmDatabases
<1>2. CASE Calm
  <2>1. PICK r : Active(r) /\ Agree(r, list, handles, intro, db)
    BY <1>2 DEF Calm, CalmSo, CalmInv
  <2>2. CalmHandles
    BY <2>1 DEF CalmHandles, Agree, HandlesOf
  <2>3. CalmDatabases
    <3> SUFFICES ASSUME intro = {}, \A o \in Ops : op[o] = NoOp, NEW a \in Aliases, db[a] # None
                 PROVE  \E s \in list : s.path = db[a]
      BY DEF CalmDatabases, At
    <3>1. r = NoOp
      BY <2>1 DEF Active
    <3> QED BY <2>1, <3>1, NoOpFields DEF Agree, DatabasesOf, Claims
  <2> QED BY <2>2, <2>3
<1> QED BY <1>1, <1>2

\* While operations are left alone and nothing fails halfway, every stored handle
\* is that of a source in the list, so that a removed file does not come back when
\* the page is reloaded, and a database that is attached when all is quiet is one
\* of a source in the list: for any number of files, aliases and operations.
THEOREM SourcesAgree == Spec => []CalmSources
<1>1. Spec => []TInv
  BY InitTyped, NextTyped, PTL DEF Spec
<1>2. Init => CalmSo
  BY InitCalm DEF CalmSo
<1>3. TInv /\ TInv' /\ IInv /\ CalmSo /\ [Next]_vars => CalmSo'
  BY NextCalm
<1>4. TInv /\ CalmSo => CalmSources
  BY TInvIsTyped, CalmGives DEF CalmSources
<1> QED BY <1>1, <1>2, <1>3, <1>4, Invariance, PTL DEF Spec

-----------------------------------------------------------------------------
(* What an upload has done when it says so. *)

\* The upload r of a database, with the list l, the handles H and the databases d.
Uploaded(r, l, H, d) ==
  r.kind = "upload" /\ r.path \in Databases =>
    /\ r.at = "attach" /\ r.ok => d[AliasOf[r.path]] = r.path
    /\ r.at \in {"detached", "unhandled"} => r.old # NoOld
    /\ r.at = "store" /\ r.old = NoOld =>
         /\ d[AliasOf[r.path]] = r.path
         /\ \E s \in l : s.id = r.id /\ s.attached /\ s.handle
         /\ \E h \in H : h.id = r.id /\ h.path = r.path

\* The operation o, which was alone, goes on as r does, or ends.
Follows(o, r) ==
  /\ \A x \in Ops \ {o} : op'[x] = NoOp
  /\ op'[o].kind \in {r.kind, "none"}
  /\ op'[o].kind = "upload" => op'[o].path = r.path

LEMMA FollowsTo ==
  ASSUME TInv, NEW o \in Ops, Alone(o), NEW r, NEW q, Goto(o, q),
         q = NoOp \/ (q.kind = r.kind /\ (q.kind = "upload" => q.path = r.path))
  PROVE  Follows(o, r) /\ op'[o] = q
<1>1. op' = [op EXCEPT ![o] = q] /\ DOMAIN op = Ops
  BY DEF Goto, TInv
<1>2. op'[o] = q /\ \A x \in Ops \ {o} : op'[x] = NoOp
  BY <1>1 DEF Alone
<1>3. q = NoOp => q.kind = "none"
  BY NoOpFields
<1> QED BY <1>2, <1>3 DEF Follows

LEMMA NextHandleKind ==
  ASSUME NEW n, NEW r, Proper(r, n)
  PROVE  NextHandle(r) = NoOp \/ NextHandle(r).kind = r.kind
<1>1. r.todo # {} =>
        NextHandle(r) = [r EXCEPT !.at = "permit", !.path = First(r.todo).path, !.hid = First(r.todo).id, !.id = 0,
                         !.ok = FALSE, !.new = NoNew, !.old = NoOld,
                         !.todo = {x \in @ : x.path # First(r.todo).path}]
  BY DEF NextHandle
<1>2. r.todo = {} => NextHandle(r) = NoOp
  BY DEF NextHandle
<1> QED BY <1>1, <1>2 DEF Proper, OpIn

LEMMA EndedKind ==
  ASSUME NEW n, NEW r, Proper(r, n), r.kind # "upload"
  PROVE  Ended(r) = NoOp \/ (Ended(r).kind = r.kind /\ Ended(r).kind # "upload")
BY NextHandleKind DEF Ended

LEMMA AppendResumes ==
  ASSUME TInv, NEW o \in Ops, Alone(o), NEW r, NEW l, AppendSource(o, r, l)
  PROVE  \E a \in Introspecting(NewSource(r)), done \in BOOLEAN :
           /\ op'[o] = Resumed(r, NewSource(r), a.ok, done)
           /\ \A x \in Ops \ {o} : op'[x] = NoOp
           /\ list' = l \cup {NewSource(r)} /\ db' = a.db /\ faulty' = (faulty \/ ~done)
           /\ handles' = IF done THEN handles \cup NewHandles(o, r, NewSource(r)) ELSE handles
<1> DEFINE s == NewSource(r)
<1>1. PICK a \in Introspecting(s), done \in BOOLEAN : AppendedWith(o, r, l, s, a, done)
  BY AppendsWith
<1>2. Callers(o) = {o} /\ Now(o, r)[o] = r
  BY NoOpFields DEF Callers, Alone, Now, TInv
<1> HIDE DEF s
<1>3. /\ list' = l \cup {s} /\ db' = a.db /\ faulty' = (faulty \/ ~done)
      /\ handles' = IF done THEN handles \cup NewHandles(o, r, s) ELSE handles
      /\ op' = [x \in Ops |-> IF x \in Callers(o) THEN Resumed(Now(o, r)[x], s, a.ok, done) ELSE op[x]]
  BY <1>1 DEF AppendedWith, SetList
<1>4. op'[o] = Resumed(r, s, a.ok, done) /\ \A x \in Ops \ {o} : op'[x] = NoOp
  BY <1>2, <1>3 DEF Alone
<1> QED BY <1>3, <1>4 DEF s

LEMMA ResumedKind ==
  ASSUME NEW n, NEW r, Proper(r, n), NEW s, s.path = r.path, NEW ok, NEW done
  PROVE  LET q == Resumed(r, s, ok, done) IN
         q = NoOp \/ (q.kind = r.kind /\ (q.kind = "upload" => q.path = r.path))
<1>1. CASE Stores(r)
  <2> DEFINE b(at) == [r EXCEPT !.id = s.id, !.peer = None, !.at = at]
  <2>1. \A at : b(at).kind = r.kind /\ b(at).path = r.path
    BY DEF Proper, OpIn
  <2>2. \E at : Resumed(r, s, ok, done) = b(at)
    BY <1>1 DEF Resumed
  <2> QED BY <2>1, <2>2
<1>2. CASE ~Stores(r) /\ r.kind = "reload" /\ r.path \in Databases
  <2> DEFINE b == [r EXCEPT !.id = s.id, !.peer = None, !.at = "introspect", !.ok = ok]
  <2>1. b.kind = r.kind
    BY DEF Proper, OpIn
  <2>2. Resumed(r, s, ok, done) = b
    BY <1>2 DEF Resumed
  <2> QED BY <1>2, <2>1, <2>2
<1>3. CASE ~Stores(r) /\ ~(r.kind = "reload" /\ r.path \in Databases)
  <2>1. Resumed(r, s, ok, done) = Ended(r)
    BY <1>3 DEF Resumed
  <2>2. r.kind = "upload" => Ended(r) = NoOp
    BY DEF Ended
  <2> QED BY <2>1, <2>2, EndedKind
<1> QED BY <1>1, <1>2, <1>3

LEMMA AppendFollows ==
  ASSUME TInv, NEW o \in Ops, Alone(o), NEW r, Proper(r, nextId), r.kind \notin {"none", "clear"},
         NEW l, AppendSource(o, r, l)
  PROVE  Follows(o, r)
<1>1. PICK a \in Introspecting(NewSource(r)), done \in BOOLEAN :
           /\ op'[o] = Resumed(r, NewSource(r), a.ok, done)
           /\ \A x \in Ops \ {o} : op'[x] = NoOp
  BY AppendResumes
<1>2. NewSource(r).path = r.path
  BY NewSourced
<1>3. op'[o] = NoOp \/ (op'[o].kind = r.kind /\ (op'[o].kind = "upload" => op'[o].path = r.path))
  BY <1>1, <1>2, ResumedKind
<1> QED BY <1>1, <1>3, NoOpFields DEF Follows

LEMMA FilterFollows ==
  ASSUME TInv, NEW o \in Ops, Alone(o), NEW r, Proper(r, nextId), r.kind \notin {"none", "clear"},
         NEW i, Filtered(o, r, i)
  PROVE  Follows(o, r)
<1>1. CASE r.kind = "remove"
  BY <1>1, FollowsTo DEF Filtered
<1>2. CASE r.kind # "remove"
  BY <1>2, AppendFollows DEF Filtered
<1> QED BY <1>1, <1>2

LEMMA UnhandledFollows ==
  ASSUME TInv, NEW o \in Ops, Alone(o), NEW r, Proper(r, nextId), NEW i, RemoveHandle(o, r, i)
  PROVE  Follows(o, r) /\ op'[o].at = "unhandled" /\ op'[o].old = r.old
<1> DEFINE q == [r EXCEPT !.at = "unhandled"]
<1>1. q.kind = r.kind /\ q.path = r.path /\ q.at = "unhandled" /\ q.old = r.old
  BY MovedFields
<1>2. Goto(o, q)
  BY DEF RemoveHandle
<1> HIDE DEF q
<1> QED BY <1>1, <1>2, FollowsTo

\* A source of the list is removed: r goes on, and remembers it, or is done with it.
LEMMA RemoveFollows ==
  ASSUME TInv, NEW o \in Ops, Alone(o), NEW r, Proper(r, nextId), r.kind \notin {"none", "clear"},
         NEW s \in list, NEW p, Remove(o, r, s, p)
  PROVE  /\ Follows(o, r)
         /\ \/ op'[o].at \in {"detached", "unhandled"} /\ op'[o].old # NoOld
            \/ Filtered(o, r, s.id)
<1> DEFINE old == [id |-> s.id, handle |-> s.handle]
           q == [r EXCEPT !.old = old]
           m == [q EXCEPT !.at = "detached"]
<1>1. s.id # 0 /\ Sourced(s, nextId) /\ nextId \in Nat \ {0}
  BY DEF TInv, Listed, Sourced, Source
<1>2. Proper(q, nextId) /\ q.kind = r.kind /\ q.path = r.path
  BY <1>1, OldProper
<1>3. q.old = old /\ old # NoOld
  BY <1>1 DEF Proper, OpIn, NoOld
<1>4. m.kind = r.kind /\ m.path = r.path /\ m.at = "detached" /\ m.old = old
  <2> HIDE DEF q, old
  <2> QED BY <1>2, <1>3, MovedFields
<1>5. Goto(o, m) \/ RemoveHandle(o, q, s.id) \/ Filtered(o, r, s.id)
  BY DEF Remove
<1> HIDE DEF q, m, old
<1>6. CASE Goto(o, m)
  BY <1>3, <1>4, <1>6, FollowsTo
<1>7. CASE RemoveHandle(o, q, s.id)
  BY <1>2, <1>3, <1>7, UnhandledFollows DEF Follows
<1>8. CASE Filtered(o, r, s.id)
  BY <1>8, FilterFollows
<1> QED BY <1>5, <1>6, <1>7, <1>8

LEMMA AddFollows ==
  ASSUME TInv, NEW o \in Ops, Alone(o), NEW r, Proper(r, nextId), r.kind \notin {"none", "clear"},
         AddSource(o, r)
  PROVE  /\ Follows(o, r)
         /\ \/ op'[o].at = "joined"
            \/ op'[o].at \in {"detached", "unhandled"} /\ op'[o].old # NoOld
            \/ \E l \in SUBSET list : AppendSource(o, r, l)
            \/ r.kind = "remove"
<1> DEFINE q == [r EXCEPT !.at = "joined", !.peer = pending[r.path]]
<1>1. CASE Goto(o, q)
  <2>1. q.kind = r.kind /\ q.path = r.path /\ q.at = "joined"
    BY DEF Proper, OpIn
  <2> HIDE DEF q
  <2> QED BY <1>1, <2>1, FollowsTo
<1>2. CASE AppendSource(o, r, list)
  BY <1>2, AppendFollows
<1>3. CASE At(r.path) # {} /\ Remove(o, r, First(At(r.path)), [pending EXCEPT ![r.path] = o])
  <2>1. First(At(r.path)) \in list
    BY <1>3, FirstOfPath DEF TInv
  <2>2. \A i : Filtered(o, r, i) => r.kind = "remove" \/ AppendSource(o, r, Without(i))
    BY DEF Filtered
  <2>3. \A i : Without(i) \in SUBSET list
    BY DEF Without
  <2> QED BY <1>3, <2>1, <2>2, <2>3, RemoveFollows
<1> QED BY <1>1, <1>2, <1>3 DEF AddSource

\* A database is added by its upload: if it stores a handle it is attached.
LEMMA UploadAppends ==
  ASSUME TInv, NEW o \in Ops, Alone(o), NEW r, Proper(r, nextId), r.kind = "upload", r.path \in Databases,
         r.old = NoOld /\ r.new.handle => r.new.attached /\ db[AliasOf[r.path]] = r.path,
         NEW l, AppendSource(o, r, l), ~faulty'
  PROVE  Uploaded(op'[o], list', handles', db')
<1> DEFINE s == NewSource(r)
<1>1. PICK a \in Introspecting(s), done \in BOOLEAN :
           /\ op'[o] = Resumed(r, s, a.ok, done)
           /\ list' = l \cup {s} /\ db' = a.db /\ faulty' = (faulty \/ ~done)
           /\ handles' = IF done THEN handles \cup NewHandles(o, r, s) ELSE handles
  BY AppendResumes
<1>2. done = TRUE
  BY <1>1
<1>3. s.id = nextId /\ s.path = r.path /\ s.attached = r.new.attached /\ s.handle = r.new.handle
  BY DEF NewSource
<1> HIDE DEF s
<1>4. CASE Stores(r)
  <2> DEFINE b == [r EXCEPT !.id = s.id, !.peer = None, !.at = "store"]
  <2>1. op'[o] = b
    BY <1>1, <1>2, <1>4 DEF Resumed
  <2>2. b.at = "store" /\ b.id = s.id /\ b.path = r.path /\ b.old = r.old /\ b.kind = "upload"
    BY DEF Proper, OpIn
  <2> HIDE DEF b
  <2>3. SUFFICES ASSUME r.old = NoOld
                 PROVE  /\ db'[AliasOf[r.path]] = r.path
                        /\ \E t \in list' : t.id = s.id /\ t.attached /\ t.handle
                        /\ \E h \in handles' : h.id = s.id /\ h.path = r.path
    BY <2>1, <2>2 DEF Uploaded
  <2>4. r.new.handle /\ r.new.attached /\ db[AliasOf[r.path]] = r.path
    BY <1>4, <2>3 DEF Stores
  <2>5. db' = db
    BY <1>1, <1>3, <2>4, IntrospectingGrows DEF TInv
  <2>6. [id |-> s.id, path |-> s.path] \in handles'
    <3>1. o \in {y \in Callers(o) : Stores(Now(o, r)[y])}
      BY <1>4, NoOpFields DEF Callers, Now, TInv
    <3> QED BY <1>1, <1>2, <3>1 DEF NewHandles
  <2> QED BY <1>1, <1>3, <2>4, <2>5, <2>6
<1>5. CASE ~Stores(r)
  <2>1. op'[o] = NoOp
    BY <1>1, <1>5 DEF Resumed, Ended
  <2> QED BY <2>1, NoOpFields DEF Uploaded
<1> QED BY <1>4, <1>5

LEMMA UploadFollows ==
  ASSUME NEW o, NEW r, Follows(o, r), NEW l, NEW H, NEW d, r.kind # "upload" \/ r.path \notin Databases
  PROVE  Uploaded(op'[o], l, H, d)
BY DEF Follows, Uploaded

\* An upload of a database asks addDataSource, and goes on after a removal.
LEMMA UploadAdds ==
  ASSUME TInv, NEW o \in Ops, Alone(o), NEW r, Proper(r, nextId), r.kind = "upload",
         r.path \in Databases => (r.old = NoOld /\ r.new.handle => r.new.attached /\ db[AliasOf[r.path]] = r.path),
         AddSource(o, r), ~faulty'
  PROVE  Follows(o, r) /\ Uploaded(op'[o], list', handles', db')
<1>1. Follows(o, r)
  BY AddFollows
<1>2. ASSUME r.path \in Databases PROVE Uploaded(op'[o], list', handles', db')
  <2>1. CASE op'[o].at = "joined"
    BY <2>1 DEF Uploaded
  <2>2. CASE op'[o].at \in {"detached", "unhandled"} /\ op'[o].old # NoOld
    BY <2>2 DEF Uploaded
  <2>3. CASE \E l \in SUBSET list : AppendSource(o, r, l)
    BY <1>2, <2>3, UploadAppends
  <2> QED BY <2>1, <2>2, <2>3, AddFollows
<1> QED BY <1>1, <1>2, UploadFollows

LEMMA UploadFilters ==
  ASSUME TInv, NEW o \in Ops, Alone(o), NEW r, Proper(r, nextId), r.kind \notin {"none", "clear"},
         r.kind = "upload" /\ r.path \in Databases => r.old # NoOld, NEW i, Filtered(o, r, i), ~faulty'
  PROVE  Follows(o, r) /\ Uploaded(op'[o], list', handles', db')
<1>1. Follows(o, r)
  BY FilterFollows
<1>2. ASSUME r.kind = "upload", r.path \in Databases PROVE Uploaded(op'[o], list', handles', db')
  BY <1>2, UploadAppends DEF Filtered
<1> QED BY <1>1, <1>2, UploadFollows

\* What is true of the uploads after o has acted.
UploadsOf(o) ==
  /\ \A x \in Ops \ {o} : op'[x] = NoOp
  /\ Uploaded(op'[o], list', handles', db')

LEMMA UploadStep ==
  ASSUME NEW o \in Ops, Acts(o), Uploaded(op[o], list, handles, db),
         \/ UploadRegistered(o) \/ UploadDetached(o) \/ UploadAttached(o) \/ UploadStored(o) \/ UploadUnstored(o)
  PROVE  UploadsOf(o)
<1> DEFINE r == op[o]
<1>1. TInv /\ Alone(o) /\ Proper(r, nextId) /\ r.kind = "upload" /\ ~faulty'
  BY OpProper DEF Acts, UploadRegistered, UploadDetached, UploadAttached, UploadStored, UploadUnstored, Is
<1> HIDE DEF r
<1>2. CASE Quietly(o, NoOp)
  <2>1. op'[o] = NoOp /\ Follows(o, r)
    BY <1>1, <1>2, FollowsTo DEF Quietly
  <2> QED BY <2>1, NoOpFields DEF Follows, Uploaded, UploadsOf
<1>3. CASE r.path \in Databases /\ Detaches(o, [r EXCEPT !.at = "detach"], {AliasOf[r.path]})
  <2> DEFINE q == [r EXCEPT !.at = "detach"]
  <2>1. q.kind = r.kind /\ q.path = r.path /\ q.at = "detach"
    BY <1>1, MovedFields
  <2>2. Goto(o, q)
    BY <1>3 DEF Detaches
  <2> HIDE DEF q
  <2> QED BY <1>1, <2>1, <2>2, FollowsTo DEF Follows, Uploaded, UploadsOf
<1>4. CASE r.path \in Files /\ AddSource(o, r)
  <2>1. r.path \notin Databases
    BY <1>4, DisjointAssumption
  <2> QED BY <1>1, <1>4, <2>1, UploadAdds DEF Follows, UploadsOf
<1>5. CASE UploadDetached(o)
  <2>1. PICK a \in Attaching(r.path) : db' = a.db /\ Goto(o, [r EXCEPT !.at = "attach", !.ok = a.ok])
    BY <1>5 DEF UploadDetached, Attaches, r
  <2> DEFINE q == [r EXCEPT !.at = "attach", !.ok = a.ok]
  <2>2. q.kind = r.kind /\ q.path = r.path /\ q.at = "attach" /\ q.ok = a.ok
    BY <1>1 DEF Proper, OpIn
  <2>3. r.path \in Databases => (a.ok => db'[AliasOf[r.path]] = r.path)
    BY <1>1, <2>1, AliasAssumption DEF Attaching, TInv, Dbs
  <2> HIDE DEF q
  <2>4. Follows(o, r) /\ op'[o] = q
    BY <1>1, <2>1, <2>2, FollowsTo DEF q
  <2> QED BY <2>2, <2>3, <2>4 DEF Follows, Uploaded, UploadsOf
<1>6. CASE UploadAttached(o)
  <2> DEFINE h == r.new.handle /\ r.ok
             new == [r.new EXCEPT !.attached = r.ok, !.handle = h]
             q == [r EXCEPT !.new = new]
  <2>1. r.path \in Databases /\ r.at = "attach" /\ (r.ok => db[AliasOf[r.path]] = r.path)
    BY <1>1, <1>6, OpProper DEF UploadAttached, Is, Acts, Uploaded, r
  <2>2. r \in OpIn(nextId) /\ r.new \in New /\ r.ok \in BOOLEAN /\ nextId \in Nat \ {0}
    BY <1>1, FieldsOfOp DEF Proper, TInv
  <2>3. [r EXCEPT !.new.attached = r.ok, !.new.handle = @ /\ r.ok] = q
    BY <2>2 DEF OpIn, New
  <2>4. AddSource(o, q)
    BY <1>6, <2>3 DEF UploadAttached, r
  <2>5. h => r.ok
    OBVIOUS
  <2>6. h \in BOOLEAN
    OBVIOUS
  <2> HIDE DEF h
  <2>7. new \in New /\ new.attached = r.ok /\ new.handle = h
    BY <2>2, <2>6 DEF New
  <2> HIDE DEF new
  <2>8. Proper(q, nextId) /\ q.kind = r.kind /\ q.path = r.path /\ q.new = new
    BY <1>1, <2>1, <2>2, <2>7, NewProper, NewFields
  <2> HIDE DEF q
  <2>9. q.new.handle => q.new.attached /\ db[AliasOf[q.path]] = q.path
    BY <2>1, <2>5, <2>7, <2>8
  <2> QED BY <1>1, <2>4, <2>8, <2>9, UploadAdds DEF Follows, UploadsOf
<1>7. ~UploadUnstored(o)
  BY DEF UploadUnstored, Is, Acts, Agree, OperationOf
<1> QED BY <1>2, <1>3, <1>4, <1>5, <1>6, <1>7 DEF UploadRegistered, UploadStored, r

LEMMA OldStep ==
  ASSUME NEW o \in Ops, Acts(o), Uploaded(op[o], list, handles, db), OldDetached(o) \/ OldUnhandled(o)
  PROVE  UploadsOf(o)
<1> DEFINE r == op[o]
<1>1. TInv /\ Alone(o) /\ Proper(r, nextId) /\ r.kind \notin {"none", "clear"} /\ ~faulty' /\ r.at \in {"detached", "unhandled"}
  BY OpProper DEF Acts, OldDetached, OldUnhandled
<1>2. r.kind = "upload" /\ r.path \in Databases => r.old # NoOld
  BY <1>1 DEF Uploaded
<1>3. RemoveHandle(o, r, r.old.id) \/ Filtered(o, r, r.old.id)
  BY DEF OldDetached, OldUnhandled
<1> HIDE DEF r
<1>4. CASE RemoveHandle(o, r, r.old.id)
  <2>1. Follows(o, r) /\ op'[o].at = "unhandled" /\ op'[o].old = r.old
    BY <1>1, <1>4, UnhandledFollows
  <2> QED BY <1>2, <2>1 DEF Follows, Uploaded, UploadsOf
<1>5. CASE Filtered(o, r, r.old.id)
  BY <1>1, <1>2, <1>5, UploadFilters DEF Follows, UploadsOf
<1> QED BY <1>3, <1>4, <1>5

\* No upload is under way any more, or none yet.
NoUpload == \A x \in Ops : op'[x].kind # "upload"

LEMMA Elsewhere ==
  ASSUME TInv, NEW o \in Ops, Alone(o), NEW q, Goto(o, q), q.kind # "upload"
  PROVE  NoUpload
<1>1. op' = [op EXCEPT ![o] = q]
  BY DEF Goto
<1>2. \A x \in Ops : op'[x] = IF x = o THEN q ELSE op[x]
  BY <1>1 DEF TInv
<1> QED BY <1>2, NoOpFields DEF NoUpload, Alone

LEMMA FollowsElsewhere ==
  ASSUME NEW o \in Ops, NEW r, Follows(o, r), r.kind # "upload" PROVE NoUpload
BY NoOpFields DEF Follows, NoUpload

LEMMA EndsElsewhere ==
  ASSUME TInv, NEW o \in Ops, Alone(o), NEW r, Proper(r, nextId), r.kind # "upload",
         Goto(o, NoOp) \/ Goto(o, Ended(r)) \/ Goto(o, NextHandle(r))
  PROVE  NoUpload
<1>1. NextHandle(r).kind # "upload"
  BY NextHandleKind, NoOpFields
<1>2. Ended(r).kind # "upload"
  BY EndedKind, NoOpFields
<1> QED BY <1>1, <1>2, Elsewhere, NoOpFields

\* Fields of an operation change, but not its kind.
LEMMA GoesElsewhere ==
  ASSUME TInv, NEW o \in Ops, Alone(o), NEW r, Proper(r, nextId), r.kind # "upload", NEW q, Goto(o, q),
         q.kind = r.kind
  PROVE  NoUpload
BY Elsewhere

LEMMA AddsElsewhere ==
  ASSUME TInv, NEW o \in Ops, Alone(o), NEW r, Proper(r, nextId), r.kind \notin {"none", "clear", "upload"},
         AddSource(o, r)
  PROVE  NoUpload
BY AddFollows, FollowsElsewhere

LEMMA SchemaElsewhere ==
  ASSUME TInv, NEW o \in Ops, Alone(o), NEW r, Proper(r, nextId), r.kind # "upload", NEW l,
         IntrospectSchema(o, r, l)
  PROVE  NoUpload
<1>1. CASE Goto(o, Ended(r))
  BY <1>1, EndsElsewhere
<1>2. CASE \E a \in Introspecting(CHOOSE s \in l : s.id = r.id) :
             db' = a.db /\ Goto(o, [r EXCEPT !.at = "introspect", !.ok = a.ok])
  <2>1. PICK a \in Introspecting(CHOOSE s \in l : s.id = r.id) : Goto(o, [r EXCEPT !.at = "introspect", !.ok = a.ok])
    BY <1>2
  <2>2. [r EXCEPT !.at = "introspect", !.ok = a.ok].kind = r.kind
    BY DEF Proper, OpIn
  <2> QED BY <2>1, <2>2, Elsewhere
<1> QED BY <1>1, <1>2 DEF IntrospectSchema

LEMMA AttachesElsewhere ==
  ASSUME TInv, NEW o \in Ops, Alone(o), op[o].kind # "upload", Attaches(o)
  PROVE  NoUpload
<1>1. PICK a \in Attaching(op[o].path) : Goto(o, [op[o] EXCEPT !.at = "attach", !.ok = a.ok])
  BY DEF Attaches
<1>2. [op[o] EXCEPT !.at = "attach", !.ok = a.ok].kind = op[o].kind
  BY OpProper DEF Proper, OpIn
<1> QED BY <1>1, <1>2, Elsewhere

LEMMA FailsElsewhere ==
  ASSUME TInv, NEW o \in Ops, Alone(o), op[o].kind # "upload",
         Fails(o) \/ ReloadFails(o, op[o]) \/ Forget(o, op[o])
  PROVE  NoUpload
<1>1. Proper(op[o], nextId)
  BY OpProper
<1>2. [op[o] EXCEPT !.at = "forget"].kind = op[o].kind
  BY <1>1, MovedFields
<1>3. CASE Goto(o, NextHandle(op[o])) \/ Goto(o, NoOp)
  BY <1>1, <1>3, EndsElsewhere
<1>4. CASE Goto(o, [op[o] EXCEPT !.at = "forget"])
  BY <1>2, <1>4, Elsewhere
<1> QED BY <1>3, <1>4 DEF Fails, ReloadFails, Forget

LEMMA MovesElsewhere ==
  ASSUME TInv, NEW o \in Ops, Alone(o), op[o].kind # "upload", NEW at, Goto(o, [op[o] EXCEPT !.at = at])
  PROVE  NoUpload
BY OpProper, MovedFields, Elsewhere

LEMMA ReattachedElsewhere ==
  ASSUME TInv, NEW o \in Ops, Alone(o), op[o].kind \in {"reload", "reattach"},
         op[o].at \in {"check", "attach"}, Reattached(o, op[o])
  PROVE  NoUpload
<1> DEFINE r == op[o]
           new == [attached |-> TRUE, handle |-> TRUE, volatile |-> FALSE]
           q == [r EXCEPT !.new = new]
<1>1. Proper(r, nextId) /\ r.path \in Databases /\ nextId \in Nat \ {0}
  BY OpProper
<1>2. CASE r.id # 0
  <2>1. IntrospectSchema(o, r, Updated(r.id, {MarkAttached(s) : s \in Of(r.id)}))
    BY <1>2 DEF Reattached, UpdateAndIntrospect
  <2> QED BY <1>1, <2>1, SchemaElsewhere
<1>3. CASE r.id = 0
  <2>1. new \in New
    BY DEF New
  <2>2. AddSource(o, q)
    BY <1>3 DEF Reattached
  <2> HIDE DEF new
  <2>3. Proper(q, nextId) /\ q.kind = r.kind
    BY <1>1, <2>1, NewProper
  <2> HIDE DEF q
  <2> QED BY <2>2, <2>3, AddsElsewhere
<1> QED BY <1>2, <1>3

LEMMA ReplaceElsewhere ==
  ASSUME TInv, NEW o \in Ops, Alone(o), ReplaceRegistered(o) \/ ReplaceAttached(o)
  PROVE  NoUpload
<1>0. op[o].kind = "replace" /\ Proper(op[o], nextId)
  BY OpProper DEF ReplaceRegistered, ReplaceAttached, Is
<1>1. CASE Quietly(o, NoOp)
  BY <1>0, <1>1, EndsElsewhere DEF Quietly
<1>2. CASE Attaches(o)
  BY <1>0, <1>2, AttachesElsewhere
<1>3. CASE AddSource(o, op[o])
  BY <1>0, <1>3, AddsElsewhere
<1>4. CASE ReplaceAttached(o)
  <2> DEFINE q == [op[o] EXCEPT !.new.attached = op[o].ok]
  <2>1. Proper(q, nextId) /\ q.kind = op[o].kind
    BY <1>0, <1>4, OpProper, AddedProper DEF ReplaceAttached, Is
  <2>2. AddSource(o, q)
    BY <1>4 DEF ReplaceAttached
  <2> HIDE DEF q
  <2> QED BY <1>0, <2>1, <2>2, AddsElsewhere
<1> QED BY <1>1, <1>2, <1>3, <1>4 DEF ReplaceRegistered

LEMMA RestoredElsewhere ==
  ASSUME TInv, NEW o \in Ops, Alone(o),
         \/ ReloadPermit(o) \/ ReloadForgotten(o) \/ ReloadVerified(o)
         \/ Registered(o) \/ ReattachDenied(o) \/ Checked(o) \/ MadeRoom(o) \/ AttachAnswered(o)
  PROVE  NoUpload
<1> DEFINE r == op[o]
<1>0. r.kind \in {"reload", "reattach"} /\ Proper(r, nextId) /\ nextId \in Nat \ {0}
  BY OpProper DEF ReloadPermit, ReloadForgotten, ReloadVerified, Registered, ReattachDenied, Checked, MadeRoom,
                  AttachAnswered, Reattaches, Is
<1>1. CASE Fails(o) \/ ReloadFails(o, r)
  BY <1>0, <1>1, FailsElsewhere
<1>2. CASE \E at \in {"register", "verify"} : Quietly(o, [r EXCEPT !.at = at])
  BY <1>0, <1>2, MovesElsewhere DEF Quietly
<1>3. CASE Goto(o, NextHandle(r)) \/ Goto(o, NoOp)
  BY <1>0, <1>3, EndsElsewhere
<1>4. CASE AddSource(o, [r EXCEPT !.new = [attached |-> FALSE, handle |-> TRUE, volatile |-> FALSE]])
  <2> DEFINE new == [attached |-> FALSE, handle |-> TRUE, volatile |-> FALSE]
             q == [r EXCEPT !.new = new]
  <2>1. new \in New /\ ~new.attached
    BY DEF New
  <2>2. AddSource(o, q)
    BY <1>4
  <2> HIDE DEF new
  <2>3. Proper(q, nextId) /\ q.kind = r.kind
    BY <1>0, <2>1, NewProper
  <2> HIDE DEF q
  <2> QED BY <1>0, <2>2, <2>3, AddsElsewhere
<1>5. ASSUME NEW id, NEW ok, Quietly(o, [r EXCEPT !.at = "check", !.id = id, !.ok = ok]) PROVE NoUpload
  <2>1. [r EXCEPT !.at = "check", !.id = id, !.ok = ok].kind = r.kind
    BY <1>0 DEF Proper, OpIn
  <2> QED BY <1>0, <1>5, <2>1, Elsewhere DEF Quietly
<1>6. CASE Reattached(o, r) /\ r.at \in {"check", "attach"}
  BY <1>0, <1>6, ReattachedElsewhere
<1>7. ASSUME NEW A, Detaches(o, [r EXCEPT !.at = "detach"], A) PROVE NoUpload
  BY <1>0, <1>7, MovesElsewhere DEF Detaches
<1>8. CASE Attaches(o)
  BY <1>0, <1>8, AttachesElsewhere
<1>9. CASE ReloadVerified(o)
  BY <1>1, <1>3, <1>4, <1>9 DEF ReloadVerified
<1>10. CASE Registered(o)
  BY <1>1, <1>2, <1>5, <1>10 DEF Registered
<1>11. CASE Checked(o) \/ AttachAnswered(o)
  BY <1>1, <1>6, <1>7, <1>11 DEF Checked, AttachAnswered
<1> QED BY <1>1, <1>2, <1>3, <1>8, <1>9, <1>10, <1>11 DEF ReloadPermit, ReloadForgotten, ReattachDenied, MadeRoom

LEMMA RestElsewhere ==
  ASSUME TInv, NEW o \in Ops, Alone(o), op[o].kind # "upload",
         \/ ToggleDetached(o) \/ ToggleAttached(o)
         \/ RestoreAsked(o) \/ RestoreCancelled(o) \/ RestorePicked(o) \/ RestoreRegistered(o)
         \/ SchemaRead(o) \/ DeleteDetached(o) \/ ClearListed(o) \/ Cleared(o)
  PROVE  NoUpload
<1> DEFINE r == op[o]
<1>0. Proper(r, nextId) /\ nextId \in Nat \ {0}
  BY OpProper DEF TInv
<1>1. CASE Fails(o)
  BY <1>1, FailsElsewhere
<1>2. CASE Quietly(o, NoOp) \/ Goto(o, NoOp) \/ Goto(o, Ended(r))
  BY <1>0, <1>2, EndsElsewhere DEF Quietly
<1>3. CASE Attaches(o)
  BY <1>3, AttachesElsewhere
<1>4. ASSUME NEW l, UpdateAndIntrospect(o, r, l) PROVE NoUpload
  BY <1>0, <1>4, SchemaElsewhere DEF UpdateAndIntrospect
<1>5. ASSUME NEW at, Quietly(o, [r EXCEPT !.at = at]) \/ Goto(o, [r EXCEPT !.at = at]) PROVE NoUpload
  BY <1>5, MovesElsewhere DEF Quietly
<1>6. CASE DeleteDetached(o) /\ ~Quietly(o, NoOp)
  <2> DEFINE S == {s \in list : s.id = r.id}
             q == Operation("remove", "none", r.path)
  <2>1. S # {} /\ Remove(o, q, First(S), pending)
    BY <1>6 DEF DeleteDetached
  <2>2. \A s \in S : s.id \in Nat
    BY DEF TInv, Listed, Sourced, Source
  <2>3. First(S) \in list
    <3>1. S \subseteq list
      OBVIOUS
    <3> HIDE DEF S
    <3> QED BY <2>1, <2>2, <3>1, FirstIsThere
  <2>4. Proper(q, nextId) /\ q.kind = "remove"
    BY <1>0, <1>6, OpProper, RemoveOperation DEF DeleteDetached, Is
  <2> HIDE DEF q, S
  <2> QED BY <2>1, <2>3, <2>4, RemoveFollows, FollowsElsewhere
<1>7. CASE ClearListed(o)
  <2>1. ASSUME NEW a \in r.todo, Detaches(o, [r EXCEPT !.todo = @ \ {a}], {a}) PROVE NoUpload
    <3> DEFINE todo == r.todo \ {a}
    <3>1. [r EXCEPT !.todo = todo].kind = r.kind
      BY <1>0 DEF Proper, OpIn
    <3>2. Goto(o, [r EXCEPT !.todo = todo])
      BY <1>0, <2>1, FieldsOfOp DEF Detaches, Proper, OpFields
    <3> HIDE DEF todo
    <3> QED BY <3>1, <3>2, Elsewhere
  <2> QED BY <1>2, <1>5, <1>7, <2>1 DEF ClearListed
<1> QED BY <1>1, <1>2, <1>3, <1>4, <1>5, <1>6, <1>7
  DEF ToggleDetached, ToggleAttached, RestoreAsked, RestoreCancelled, RestorePicked, RestoreRegistered, SchemaRead, Cleared

\* What the user starts.
LEMMA UserUploads ==
  ASSUME NEW o \in Ops, Opens(o), UserStarts(o)
  PROVE  \A x \in Ops : op'[x].kind = "upload" => op'[x].at = "register"
<1>0. TInv /\ Alone(o) /\ nextId \in Nat \ {0} /\ 0 \in Ids(nextId)
  BY DEF Opens, TInv, Ids
<1> SUFFICES ASSUME ~NoUpload PROVE \A x \in Ops : op'[x].kind = "upload" => op'[x].at = "register"
  BY DEF NoUpload
<1>1. ASSUME NEW q, Goto(o, q), q.kind # "upload" PROVE FALSE
  BY <1>0, <1>1, Elsewhere
<1>3. ASSUME NEW p \in Paths, NEW drag \in BOOLEAN, Upload(o, p, drag)
      PROVE  \A x \in Ops : op'[x].kind = "upload" => op'[x].at = "register"
  <2> DEFINE q == [Operation("upload", "register", p) EXCEPT
                     !.new = [attached |-> FALSE, handle |-> ~drag, volatile |-> drag]]
  <2>1. q.at = "register"
    BY DEF Operation, NoOp
  <2>2. Goto(o, q)
    BY <1>3 DEF Upload, Begin
  <2> HIDE DEF q
  <2>3. op' = [op EXCEPT ![o] = q]
    BY <2>2 DEF Goto
  <2>4. \A x \in Ops : op'[x] = IF x = o THEN q ELSE op[x]
    BY <1>0, <2>3 DEF TInv
  <2> QED BY <1>0, <2>1, <2>4, NoOpFields DEF Alone
<1>4. ASSUME NEW p \in Paths, ReloadFile(o, p) PROVE FALSE
  <2>1. Operation("replace", "register", p).kind = "replace"
    BY DEF Operation, NoOp
  <2> QED BY <1>1, <1>4, <2>1 DEF ReloadFile, Begin
<1>5. ASSUME NEW s \in list, Reattach(o, s) PROVE FALSE
  <2>1. [Operation("reattach", "register", s.path) EXCEPT !.id = s.id].kind = "reattach"
    BY DEF Operation, NoOp
  <2> QED BY <1>1, <1>5, <2>1 DEF Reattach, Begin
<1>6. ASSUME NEW s \in list, RestoreAccess(o, s) PROVE FALSE
  <2> DEFINE q == [Operation("restore", "ask", s.path) EXCEPT !.id = s.id, !.ok = (\E h \in handles : h.id = s.id)]
  <2>1. Goto(o, q)
    BY <1>6 DEF RestoreAccess, Begin
  <2>2. q.kind = "restore"
    BY DEF Operation, NoOp
  <2> HIDE DEF q
  <2> QED BY <1>1, <2>1, <2>2
<1>7. ASSUME NEW s \in list, ToggleWriteMode(o, s) PROVE FALSE
  <2> DEFINE q == [Operation("toggle", "detach", s.path) EXCEPT !.id = s.id, !.ok = (db[AliasOf[s.path]] # None)]
  <2>1. Goto(o, q)
    BY <1>7 DEF ToggleWriteMode
  <2>2. q.kind = "toggle"
    BY DEF Operation, NoOp
  <2> HIDE DEF q
  <2> QED BY <1>1, <2>1, <2>2
<1>8. ASSUME NEW s \in list, Refresh(o, s) PROVE FALSE
  <2> DEFINE r == [Operation("refresh", "introspect", s.path) EXCEPT !.id = s.id]
  <2>1. IntrospectSchema(o, r, list)
    BY <1>8 DEF Refresh
  <2>2. Proper(r, nextId) /\ r.kind = "refresh"
    BY <1>0, StartedProper
  <2> HIDE DEF r
  <2> QED BY <1>0, <2>1, <2>2, SchemaElsewhere
<1>9. ASSUME NEW s \in list, Remove(o, Operation("remove", "none", s.path), s, pending) PROVE FALSE
  <2> DEFINE r == Operation("remove", "none", s.path)
  <2>1. Proper(r, nextId) /\ r.kind = "remove"
    BY <1>0, RemoveOperation DEF TInv, Listed, Sourced, Source
  <2>2. Remove(o, r, s, pending)
    BY <1>9
  <2> HIDE DEF r
  <2> QED BY <1>0, <2>1, <2>2, RemoveFollows, FollowsElsewhere
<1>10. ASSUME NEW s \in list, DeleteDatabase(o, s) PROVE FALSE
  <2> DEFINE S == {x \in list : x.named /\ AliasOf[x.path] = AliasOf[s.path]}
             t == IF s.named THEN First(S) ELSE s
  <2>1. t \in list
    <3>1. CASE s.named
      <4>1. s \in S /\ S \subseteq list /\ \A x \in S : x.id \in Nat
        BY <1>0, <3>1 DEF TInv, Listed, Sourced, Source
      <4>2. First(S) \in S
        <5> HIDE DEF S
        <5> QED BY <4>1, FirstIsThere
      <4> QED BY <3>1, <4>2
    <3>2. CASE ~s.named
      BY <3>2
    <3> QED BY <3>1, <3>2
  <2> DEFINE q == [Operation("delete", "detach", t.path) EXCEPT !.id = t.id, !.ok = (db[AliasOf[t.path]] # None)]
  <2>2. Goto(o, q) \/ Remove(o, Operation("remove", "none", t.path), t, pending)
    BY <1>10 DEF DeleteDatabase
  <2>3. q.kind = "delete"
    BY DEF Operation, NoOp
  <2> HIDE DEF t, q
  <2> QED BY <1>1, <1>9, <2>1, <2>2, <2>3
<1>11. ASSUME Clear(o) PROVE FALSE
  <2> DEFINE todo == {a \in Aliases : db[a] # None}
  <2>1. [Operation("clear", "list", None) EXCEPT !.todo = todo].kind = "clear"
    BY DEF Operation, NoOp
  <2>2. Goto(o, [Operation("clear", "list", None) EXCEPT !.todo = todo])
    BY <1>11 DEF Clear, Begin
  <2> HIDE DEF todo
  <2> QED BY <1>1, <2>1, <2>2
<1> QED BY <1>3, <1>4, <1>5, <1>6, <1>7, <1>8, <1>9, <1>10, <1>11 DEF UserStarts, DeleteFile

\* The introspection of a source leaves it attached and with its handle.
LEMMA MarkedUploads ==
  ASSUME TInv, NEW i \in intro, Introspected(i), NEW x \in Ops, Uploaded(op[x], list, handles, db)
  PROVE  Uploaded(op'[x], list', handles', db')
<1>1. UNCHANGED <<op, handles, db>>
  BY DEF Introspected
<1>2. ASSUME NEW s \in list, s.attached, s.handle
      PROVE  \E t \in list' : t.id = s.id /\ t.attached /\ t.handle
  <2>1. Sourced(s, nextId) /\ s.path \in Databases
    BY <1>2 DEF TInv, Listed, Sourced
  <2>2. CASE s.id # i.id
    <3>1. s \in Without(i.id)
      BY <2>2 DEF Without
    <3> QED BY <1>2, <3>1 DEF Introspected, SetList, Updated
  <2>3. CASE s.id = i.id
    <3>1. s \in Of(i.id)
      BY <2>3 DEF Of
    <3> DEFINE m == MarkIntrospected(s)
    <3>2. m.attached /\ m.handle /\ m.id = s.id /\ Sourced(m, nextId)
      BY <1>2, <2>1, MarkKeeps, MarkIntrospectedSourced
    <3>3. Idle(m).attached /\ Idle(m).handle /\ Idle(m).id = s.id
      <4> HIDE DEF m
      <4> QED BY <3>2, MarkKeeps, MoreMarksSourced
    <3>4. Stopped(s).attached /\ Stopped(s).handle /\ Stopped(s).id = s.id
      BY <1>2, <2>1, MarkKeeps, MoreMarksSourced
    <3>5. Idle(m) \in list' \/ Stopped(s) \in list'
      BY <3>1 DEF Introspected, SetList, Updated, Idle, Stopped
    <3> QED BY <3>3, <3>4, <3>5
  <2> QED BY <2>2, <2>3
<1> QED BY <1>1, <1>2 DEF Uploaded

LEMMA FreshUploads ==
  ASSUME NEW n \in Nat \ {0}, NEW H, H \subseteq HandlesTo(n)
  PROVE  NextHandle([NoOp EXCEPT !.kind = "reload", !.todo = H]).kind # "upload" /\ NoOp.kind # "upload"
<1> DEFINE q == [NoOp EXCEPT !.kind = "reload", !.todo = H]
<1>1. q.kind = "reload" /\ NoOp.kind # "upload"
  BY DEF NoOp
<1> HIDE DEF q
<1>2. q.todo = {} => NextHandle(q) = NoOp
  BY DEF NextHandle
<1>3. q.todo # {} => NextHandle(q).kind = q.kind
  <2>1. DOMAIN q = OpFields
    BY DEF q, NoOp, OpFields
  <2> QED BY <2>1 DEF NextHandle, OpFields
<1> QED BY <1>1, <1>2, <1>3 DEF q

\* While nothing has crossed and nothing has failed, every upload has done what
\* it says.
UploadSo == crossed \/ faulty \/ \A o \in Ops : Uploaded(op[o], list, handles, db)

LEMMA InitUploads == ASSUME Init PROVE UploadSo
<1>1. TInv
  BY InitTyped
<1>2. \A o \in Ops : op[o].kind # "upload"
  <2>1. \E over \in BOOLEAN :
          op = [x \in Ops |-> IF x = FirstOp /\ ~over
                              THEN NextHandle([NoOp EXCEPT !.kind = "reload", !.todo = handles]) ELSE NoOp]
    BY DEF Init
  <2>2. nextId \in Nat \ {0} /\ handles \subseteq HandlesTo(nextId)
    BY <1>1 DEF TInv
  <2> QED BY <2>1, <2>2, FreshUploads
<1> QED BY <1>2 DEF UploadSo, Uploaded

LEMMA NextUploads ==
  ASSUME TInv, TInv', IInv, CalmSo, UploadSo, [Next]_vars
  PROVE  UploadSo'
<1> SUFFICES ASSUME ~crossed', ~faulty' PROVE \A o \in Ops : Uploaded(op'[o], list', handles', db')
  BY DEF UploadSo
<1>1. CalmInv /\ \A o \in Ops : Uploaded(op[o], list, handles, db)
  BY NextCrossed, NextFaulty DEF CalmSo, UploadSo
<1>2. Regular
  BY <1>1 DEF IInv, CalmInv
<1>3. ASSUME NEW o \in Ops, UserStarts(o) PROVE \A x \in Ops : Uploaded(op'[x], list', handles', db')
  <2>1. Opens(o)
    BY <1>1, <1>2, <1>3, StartsFirst, OpensAlone
  <2> QED BY <1>3, <2>1, UserUploads DEF Uploaded
<1>4. ASSUME NEW o \in Ops, op[o] # NoOp PROVE Acts(o)
  BY <1>1, <1>2, <1>4, OneActs DEF Acts
<1>5. ASSUME NEW o \in Ops, Step(o) \/ RestoreCancelled(o) \/ RestorePicked(o) PROVE op[o] # NoOp
  BY <1>5, NoOpFields
  DEF Step, RestoreCancelled, RestorePicked, Is, UploadRegistered, UploadDetached, UploadAttached, UploadStored,
      UploadUnstored, ReplaceRegistered, ReplaceAttached, OldDetached, OldUnhandled, ReloadPermit,
      ReloadForgotten, ReloadVerified, Registered, ReattachDenied, Checked, MadeRoom, AttachAnswered,
      Reattaches, ToggleDetached, ToggleAttached, RestoreAsked, RestoreRegistered, SchemaRead,
      DeleteDetached, ClearListed, Cleared
<1>6. ASSUME NEW o \in Ops, Step(o) \/ RestoreCancelled(o) \/ RestorePicked(o)
      PROVE  \A x \in Ops : Uploaded(op'[x], list', handles', db')
  <2>1. Acts(o)
    BY <1>4, <1>5, <1>6
  <2>2. TInv /\ Alone(o) /\ Uploaded(op[o], list, handles, db)
    BY <1>1, <2>1 DEF Acts
  <2>3. CASE NoUpload
    BY <2>3 DEF NoUpload, Uploaded
  <2>4. CASE UploadsOf(o)
    BY <2>4, NoOpFields DEF UploadsOf, Uploaded
  <2>5. CASE UploadRegistered(o) \/ UploadDetached(o) \/ UploadAttached(o) \/ UploadStored(o) \/ UploadUnstored(o)
    BY <2>1, <2>2, <2>4, <2>5, UploadStep
  <2>6. CASE OldDetached(o) \/ OldUnhandled(o)
    BY <2>1, <2>2, <2>4, <2>6, OldStep
  <2>7. CASE ReplaceRegistered(o) \/ ReplaceAttached(o)
    BY <2>2, <2>3, <2>7, ReplaceElsewhere
  <2>8. CASE \/ ReloadPermit(o) \/ ReloadForgotten(o) \/ ReloadVerified(o)
             \/ Registered(o) \/ ReattachDenied(o) \/ Checked(o) \/ MadeRoom(o) \/ AttachAnswered(o)
    BY <2>2, <2>3, <2>8, RestoredElsewhere
  <2>9. CASE /\ op[o].kind # "upload"
             /\ \/ ToggleDetached(o) \/ ToggleAttached(o)
                \/ RestoreAsked(o) \/ RestoreCancelled(o) \/ RestorePicked(o) \/ RestoreRegistered(o)
                \/ SchemaRead(o) \/ DeleteDetached(o) \/ ClearListed(o) \/ Cleared(o)
    BY <2>2, <2>3, <2>9, RestElsewhere
  <2>10. CASE SchemaRead(o) /\ op[o].kind = "upload"
    <3>1. Goto(o, NoOp)
      BY <2>10 DEF SchemaRead, Ended, Fails
    <3> QED BY <2>2, <2>3, <3>1, Elsewhere, NoOpFields
  <2> QED BY <1>6, <2>5, <2>6, <2>7, <2>8, <2>9, <2>10
       DEF Step, ToggleDetached, ToggleAttached, RestoreAsked, RestoreCancelled, RestorePicked, RestoreRegistered,
           DeleteDetached, ClearListed, Cleared, Is
<1>7. ASSUME Introspects PROVE \A x \in Ops : Uploaded(op'[x], list', handles', db')
  BY <1>1, <1>7, MarkedUploads DEF Introspects
<1>8. ASSUME NEW flush \in BOOLEAN, Restart(flush) PROVE \A x \in Ops : Uploaded(op'[x], list', handles', db')
  <2>1. op' = [x \in Ops |-> IF x = FirstOp
                             THEN NextHandle([NoOp EXCEPT !.kind = "reload", !.todo = handles]) ELSE NoOp]
    BY <1>8 DEF Restart
  <2>2. nextId \in Nat \ {0} /\ handles \subseteq HandlesTo(nextId)
    BY DEF TInv
  <2> QED BY <2>1, <2>2, FreshUploads DEF Uploaded
<1>9. CASE Save \/ UNCHANGED vars
  <2>1. UNCHANGED <<op, list, handles, db>>
    BY <1>9 DEF Save, vars
  <2> QED BY <1>1, <2>1
<1> QED BY <1>3, <1>6, <1>7, <1>8, <1>9 DEF Next

\* An upload that is left alone ends with what it has stored.
LEMMA UploadEnds ==
  ASSUME TInv, CalmSo, UploadSo, Next, NEW o \in Ops, Is(o, "upload", "store"), op'[o] = NoOp, starts' = starts,
         Calm, op[o].path \in Databases, op[o].old = NoOld
  PROVE  /\ db'[AliasOf[op[o].path]] = op[o].path
         /\ \E s \in list' : s.id = op[o].id /\ s.attached /\ s.handle
         /\ \E h \in handles' : h.id = op[o].id /\ h.path = op[o].path
<1>1. op[o] # NoOp /\ op'[o] # op[o]
  BY NoOpFields DEF Is
<1>2. CalmInv /\ Uploaded(op[o], list, handles, db)
  BY DEF Calm, CalmSo, UploadSo
<1>3. Alone(o)
  BY <1>1, <1>2, OneActs
<1>4. starts \in Nat
  BY DEF TInv
<1>5. ~Introspects /\ ~Save /\ \A flush \in BOOLEAN : ~Restart(flush)
  <2>1. ~Introspects /\ ~Save
    BY <1>1 DEF Introspects, Introspected, Save
  <2>2. ASSUME NEW flush \in BOOLEAN PROVE ~Restart(flush)
    BY <1>4 DEF Restart
  <2> QED BY <2>1, <2>2
<1>6. \A x \in Ops : ~UserStarts(x)
  BY <1>4, StartsFirst DEF Start
<1>7. PICK x \in Ops : Step(x) \/ RestoreCancelled(x) \/ RestorePicked(x)
  BY <1>5, <1>6 DEF Next
<1>8. op[x] # NoOp
  BY <1>7, NoOpFields
  DEF Step, RestoreCancelled, RestorePicked, Is, UploadRegistered, UploadDetached, UploadAttached, UploadStored,
      UploadUnstored, ReplaceRegistered, ReplaceAttached, OldDetached, OldUnhandled, ReloadPermit,
      ReloadForgotten, ReloadVerified, Registered, ReattachDenied, Checked, MadeRoom, AttachAnswered,
      Reattaches, ToggleDetached, ToggleAttached, RestoreAsked, RestoreRegistered, SchemaRead,
      DeleteDetached, ClearListed, Cleared
<1>9. x = o
  BY <1>3, <1>8 DEF Alone
<1>10. UploadStored(o)
  BY <1>7, <1>9
  DEF Step, RestoreCancelled, RestorePicked, Is, UploadRegistered, UploadDetached, UploadAttached,
      UploadUnstored, ReplaceRegistered, ReplaceAttached, OldDetached, OldUnhandled, ReloadPermit,
      ReloadForgotten, ReloadVerified, Registered, ReattachDenied, Checked, MadeRoom, AttachAnswered,
      Reattaches, ToggleDetached, ToggleAttached, RestoreAsked, RestoreRegistered, SchemaRead,
      DeleteDetached, ClearListed, Cleared
<1>11. UNCHANGED <<list, db, handles>>
  BY <1>10 DEF UploadStored, Quietly
<1> QED BY <1>2, <1>11 DEF Uploaded, Is

\* A database that is uploaded by itself, from a file with a handle, and is not in
\* the list yet, is attached, marked so and can be restored when the upload says
\* so: for any number of files, aliases and operations.
THEOREM UploadsAttach == Spec => UploadAttaches
<1>1. Spec => []TInv
  BY InitTyped, NextTyped, PTL DEF Spec
<1>2. Init => CalmSo /\ UploadSo
  BY InitCalm, InitUploads DEF CalmSo
<1>3. TInv /\ TInv' /\ IInv /\ CalmSo /\ [Next]_vars => CalmSo'
  BY NextCalm
<1>4. TInv /\ TInv' /\ IInv /\ CalmSo /\ UploadSo /\ [Next]_vars => UploadSo'
  BY NextUploads
<1> DEFINE Ending ==
      \A o \in Ops :
        (/\ Is(o, "upload", "store") /\ op'[o] = NoOp /\ starts' = starts
         /\ Calm /\ op[o].path \in Databases /\ op[o].old = NoOld)
        => /\ db'[AliasOf[op[o].path]] = op[o].path
           /\ \E s \in list' : s.id = op[o].id /\ s.attached /\ s.handle
           /\ \E h \in handles' : h.id = op[o].id /\ h.path = op[o].path
<1>5. TInv /\ CalmSo /\ UploadSo /\ [Next]_vars => [Ending]_vars
  <2> SUFFICES ASSUME TInv, CalmSo, UploadSo, Next PROVE Ending
    OBVIOUS
  <2> QED BY UploadEnds
<1>6. Spec => [][Ending]_vars
  <2> HIDE DEF Ending
  <2> QED BY <1>1, <1>2, <1>3, <1>4, <1>5, Invariance, PTL DEF Spec
<1> QED BY <1>6 DEF UploadAttaches

=============================================================================
