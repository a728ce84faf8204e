--------------------------- MODULE FileSave_proofs ---------------------------
(* Texts stay with their tabs and timers are current, for any number of tabs, *)
(* files, saves and changes.                                                  *)
EXTENDS FileSave, TLAPS

Running(s) == op[s].at \notin {"new", "over"}

\* Tab t has file f, or a save of t that is under way has.
Holds(t, f) ==
  \/ file[t] = f
  \/ \E s \in Saves : Running(s) /\ op[s].tab = t /\ op[s].file = f

\* The text of a file that a tab holds descends from that tab, so two tabs never
\* hold the same file; so does the text each save of the tab brings.
Own ==
  /\ \A t \in Tabs, f \in Files : Holds(t, f) => disk[f].text.of = t
  /\ \A t \in Tabs : query[t].of = t
  /\ editor = query[active]
  /\ \A s \in Saves : Running(s) /\ op[s].kind # "reload" => op[s].text.of = op[s].tab

\* An auto-save that goes on has seen no change that its tab does not know.
Looked(j) ==
  /\ j.at = "check" => j.seen = 0
  /\ j.at = "write" /\ j.kind = "auto" => j.known = 0 \/ j.seen <= j.known \/ j.seen = 0

HasLooked == \A s \in Saves : Looked(op[s])

IInv ==
  /\ Types
  /\ TimerIsCurrent
  /\ ~crossed => Own
  /\ HasLooked

USE FileAssumption DEF None

Fields == {"at", "kind", "tab", "file", "known", "text", "view", "seen"}

LEMMA JobFields ==
  ASSUME NEW s \in Saves, Types, Running(s)
  PROVE  /\ op[s] \in Jobs
         /\ op[s].at \in Awaits[op[s].kind]
         /\ op[s].kind \in DOMAIN Awaits
         /\ op[s].tab \in Tabs /\ op[s].view \in Tabs
         /\ op[s].file \in Files
         /\ op[s].known \in Nat /\ op[s].seen \in Nat
         /\ op[s].text \in Texts
<1>1. op[s] \in Jobs /\ op[s].at \in Awaits[op[s].kind]
  BY DEF Types, Running, Idle
<1> QED
  BY <1>1 DEF Jobs

\* What each kind may await.
LEMMA KindsAwait ==
  /\ DOMAIN Awaits = {"auto", "manual", "overwrite", "reload", "saveAs"}
  /\ Awaits["auto"] = {"check", "write", "stat"}
  /\ Awaits["manual"] = {"write", "stat", "dialog", "named"}
  /\ Awaits["overwrite"] = {"write", "stat"}
  /\ Awaits["reload"] = {"read"}
  /\ Awaits["saveAs"] = {"dialog", "named"}
BY DEF Awaits

LEMMA AtIsKnown ==
  ASSUME NEW k \in DOMAIN Awaits, NEW a \in Awaits[k]
  PROVE  /\ a \in UNION {Awaits[i] : i \in DOMAIN Awaits}
         /\ a \notin {"new", "over"}
BY KindsAwait

\* A started save is typed.
LEMMA StartTypes ==
  ASSUME Types, NEW s \in Saves, NEW k \in DOMAIN Awaits, NEW a \in Awaits[k],
         NEW c \in Closures, Start(s, k, a, c)
  PROVE  /\ op' \in [Saves -> Idle \cup Jobs]
         /\ \A r \in Saves \ {s} : op'[r] = op[r]
         /\ op'[s] \in Jobs
         /\ op'[s].at = a /\ op'[s].kind = k /\ op'[s].tab = c.tab
         /\ op'[s].file = c.file /\ op'[s].known = c.known /\ op'[s].text = editor
         /\ op'[s].view = active /\ op'[s].seen = 0
<1> DEFINE j == [at |-> a, kind |-> k, tab |-> c.tab, file |-> c.file, known |-> c.known,
                 text |-> editor, view |-> active, seen |-> 0]
<1>1. j \in Jobs
  BY AtIsKnown DEF Types, Jobs, Closures
<1>2. op' = [op EXCEPT ![s] = j]
  BY DEF Start
<1>3. op'[s] = j /\ \A r \in Saves \ {s} : op'[r] = op[r]
  BY <1>2 DEF Types
<1>4. op' \in [Saves -> Idle \cup Jobs]
  <2> HIDE DEF j
  <2> QED
    BY <1>1, <1>2 DEF Types
<1> QED
  BY <1>1, <1>3, <1>4

OpTyped ==
  /\ op \in [Saves -> Idle \cup Jobs]
  /\ \A s \in Saves : op[s] \in Jobs => op[s].at \in Awaits[op[s].kind]

OthersWait(s) == \A r \in Saves \ {s} : op'[r] = op[r]

\* A save that has ended is typed.
LEMMA OverTypes ==
  ASSUME Types, NEW s \in Saves, Over(s)
  PROVE  OpTyped' /\ OthersWait(s) /\ ~Running(s)'
<1>1. op'[s] = [at |-> "over"] /\ OthersWait(s) /\ op' \in [Saves -> Idle \cup Jobs]
  BY DEF Types, Over, Idle, OthersWait
<1>2. op'[s] \notin Jobs
  <2> SUFFICES ASSUME op'[s] \in Jobs PROVE FALSE
    OBVIOUS
  <2>1. op'[s].at \in UNION {Awaits[k] : k \in DOMAIN Awaits}
    BY DEF Jobs
  <2> QED
    BY <1>1, <2>1, KindsAwait
<1>3. \A r \in Saves : op'[r] \in Jobs => op'[r].at \in Awaits[op'[r].kind]
  BY <1>1, <1>2 DEF Types, OthersWait
<1> QED
  BY <1>1, <1>3 DEF OpTyped, Running

\* A save that goes on keeps what it holds, but for the file it is saved as and
\* the stamp it has seen.
Becomes(s, a, f, n) ==
  [at |-> a, kind |-> op[s].kind, tab |-> op[s].tab, file |-> f, known |-> op[s].known,
   text |-> op[s].text, view |-> op[s].view, seen |-> n]

LEMMA MoveTypes ==
  ASSUME Types, NEW s \in Saves, Running(s), NEW a \in Awaits[op[s].kind],
         NEW f \in Files, NEW n \in Nat, op' = [op EXCEPT ![s] = Becomes(s, a, f, n)]
  PROVE  OpTyped' /\ OthersWait(s) /\ op'[s] = Becomes(s, a, f, n)
<1>1. Becomes(s, a, f, n) \in Jobs
  BY JobFields, AtIsKnown DEF Becomes, Jobs
<1>2. op'[s] = Becomes(s, a, f, n) /\ OthersWait(s)
  BY DEF Types, OthersWait
<1>3. op' \in [Saves -> Idle \cup Jobs]
  BY <1>1 DEF Types
<1>4. op'[s].at \in Awaits[op'[s].kind]
  BY <1>2 DEF Becomes
<1>5. \A r \in Saves : op'[r] \in Jobs => op'[r].at \in Awaits[op'[r].kind]
  BY <1>2, <1>4 DEF Types, OthersWait
<1> QED
  BY <1>2, <1>3, <1>5 DEF OpTyped

LEMMA GoToBecomes ==
  ASSUME Types, NEW s \in Saves, Running(s), NEW a, GoTo(s, a)
  PROVE  op' = [op EXCEPT ![s] = Becomes(s, a, op[s].file, op[s].seen)]
<1>1. op[s] \in Jobs
  BY JobFields
<1>2. [op[s] EXCEPT !.at = a] = Becomes(s, a, op[s].file, op[s].seen)
  BY <1>1 DEF Jobs, Becomes
<1> QED
  BY <1>2 DEF GoTo

-----------------------------------------------------------------------------
(* The timers. *)

LEMMA RearmCurrent ==
  ASSUME TimerIsCurrent, Rearm
  PROVE  TimerIsCurrent'
BY DEF TimerIsCurrent, Rearm, Deps, Closure

LEMMA RearmTypes ==
  ASSUME Types, Rearm, active' \in Tabs, file' \in [Tabs -> Files], known' \in [Tabs -> Nat]
  PROVE  timers' \subseteq Closures
BY DEF Types, Rearm, Closure, Closures

LEMMA StillCurrent ==
  ASSUME TimerIsCurrent, timers' \subseteq timers, UNCHANGED <<active, tabs>>
  PROVE  TimerIsCurrent'
BY DEF TimerIsCurrent, Closure, tabs

-----------------------------------------------------------------------------
(* The texts. *)

LEMMA OwnKept ==
  ASSUME Own,
         \A t \in Tabs, f \in Files : Holds(t, f)' => Holds(t, f),
         \A t \in Tabs, f \in Files : Holds(t, f) => disk'[f].text.of = t,
         \A t \in Tabs : query'[t].of = t,
         editor' = query'[active'],
         \A s \in Saves : Running(s)' /\ op'[s].kind # "reload" =>
           op'[s].text.of = op'[s].tab
  PROVE  Own'
BY DEF Own

\* A step of one save, in which a tab gets no file but one it holds.
LEMMA HoldsFewer ==
  ASSUME NEW s \in Saves, OthersWait(s),
         \A t \in Tabs : file'[t] = file[t] \/ Holds(t, file'[t]),
         Running(s)' => Holds(op'[s].tab, op'[s].file)
  PROVE  \A t \in Tabs, f \in Files : Holds(t, f)' => Holds(t, f)
<1> SUFFICES ASSUME NEW t \in Tabs, NEW f \in Files, Holds(t, f)' PROVE Holds(t, f)
  OBVIOUS
<1>1. CASE file'[t] = f
  BY <1>1 DEF Holds
<1>2. ASSUME NEW r \in Saves, Running(r)', op'[r].tab = t, op'[r].file = f
      PROVE  Holds(t, f)
  BY <1>2 DEF Holds, OthersWait, Running
<1> QED
  BY <1>1, <1>2 DEF Holds

\* A step of one save that changes no text and no file.
LEMMA OpOwn ==
  ASSUME NEW s \in Saves, Own, Types, OthersWait(s), UNCHANGED <<editor, query, active, file, disk>>,
         Running(s)' => Holds(op'[s].tab, op'[s].file),
         Running(s)' /\ op'[s].kind # "reload" => op'[s].text.of = op'[s].tab
  PROVE  Own'
<1>1. \A t \in Tabs, f \in Files : Holds(t, f)' => Holds(t, f)
  BY HoldsFewer
<1>2. \A r \in Saves : Running(r)' /\ op'[r].kind # "reload" => op'[r].text.of = op'[r].tab
  BY DEF Own, OthersWait, Running
<1> QED
  BY <1>1, <1>2, OwnKept DEF Own

\* A save that goes on with its file keeps it.
LEMMA MoveOwn ==
  ASSUME NEW s \in Saves, Own, Types, Running(s), OthersWait(s), NEW a, NEW n,
         op'[s] = Becomes(s, a, op[s].file, n),
         UNCHANGED <<editor, query, active, file, disk>>
  PROVE  Own'
<1>1. Holds(op'[s].tab, op'[s].file)
  BY DEF Becomes, Holds
<1>2. op'[s].kind # "reload" => op'[s].text.of = op'[s].tab
  BY DEF Becomes, Own
<1> QED
  BY <1>1, <1>2, OpOwn

\* A save that starts for a tab with the tab's file and the text of the editor.
LEMMA StartOwn ==
  ASSUME NEW s \in Saves, NEW t \in Tabs, NEW k \in DOMAIN Awaits, NEW a \in Awaits[k],
         Own, Types, Start(s, k, a, Closure(t)), k = "reload" \/ t = active,
         UNCHANGED <<editor, query, active, file, disk>>
  PROVE  Own'
<1>1. Closure(t) \in Closures
  BY DEF Closure, Closures, Types
<1>2. /\ OthersWait(s)
      /\ op'[s].tab = t /\ op'[s].file = file[t] /\ op'[s].kind = k
      /\ op'[s].text = editor
  BY <1>1, StartTypes DEF Closure, OthersWait
<1>3. Holds(op'[s].tab, op'[s].file)
  BY <1>2 DEF Holds
<1>4. k # "reload" => op'[s].text.of = op'[s].tab
  BY <1>2 DEF Own, Types
<1> QED
  BY <1>2, <1>3, <1>4, OpOwn

LEMMA OverOwn ==
  ASSUME NEW s \in Saves, Own, Types, Over(s), UNCHANGED <<editor, query, active, file, disk>>
  PROVE  Own'
BY OverTypes, OpOwn

LEMMA LookedKept ==
  ASSUME HasLooked, NEW s \in Saves, OthersWait(s), Looked(op'[s])
  PROVE  HasLooked'
BY DEF HasLooked, Looked, OthersWait

-----------------------------------------------------------------------------
(* One lemma for each action. *)

LEMMA Initially == Init => IInv
<1> SUFFICES ASSUME Init PROVE IInv
  OBVIOUS
<1>1. Types
  <2>1. \A f \in Files : First(f) \in Texts
    BY DEF First, Texts
  <2>2. op \in [Saves -> Idle \cup Jobs] /\ \A s \in Saves : op[s] = [at |-> "new"]
    BY DEF Init, Idle
  <2>3. [at |-> "new"] \notin Jobs
    <3> SUFFICES ASSUME [at |-> "new"] \in Jobs PROVE FALSE
      OBVIOUS
    <3>1. [at |-> "new"].at \in UNION {Awaits[k] : k \in DOMAIN Awaits}
      BY DEF Jobs
    <3> QED
      BY <3>1, KindsAwait
  <2>4. Tabs \subseteq Files
    BY DEF Files
  <2>5. disk \in [Files -> [text : Texts, stamp : Nat \ {0}]]
    BY <2>1 DEF Init
  <2>6. active \in Tabs /\ editor \in Texts /\ query \in [Tabs -> Texts]
    BY <2>1, <2>4 DEF Init
  <2> QED
    BY <2>2, <2>3, <2>4, <2>5, <2>6 DEF Init, Types
<1>2. TimerIsCurrent /\ HasLooked
  BY DEF Init, TimerIsCurrent, HasLooked, Looked
<1>3. Own
  BY DEF Init, Own, Holds, Running, First
<1> QED
  BY <1>1, <1>2, <1>3 DEF IInv

LEMMA TypeKeeps ==
  ASSUME IInv, Type
  PROVE  IInv'
<1> DEFINE v == [of |-> editor.of, n |-> clock']
<1> USE DEF IInv
<1>1. v \in Texts /\ clock' \in Nat /\ v.of = editor.of
  BY DEF Type, Types, Texts
<1>2. /\ editor' = v /\ query' = [query EXCEPT ![active] = v]
      /\ dirty' = [dirty EXCEPT ![active] = v # query[active]]
  BY DEF Type, EditorChange
<1> HIDE DEF v
<1>3. editor' \in Texts /\ query' \in [Tabs -> Texts] /\ dirty' \in [Tabs -> BOOLEAN]
  <2> QED
    BY <1>1, <1>2 DEF Types
<1>4. timers' \subseteq Closures
  BY RearmTypes DEF Type, Types
<1>5. Types'
  BY <1>1, <1>3, <1>4 DEF Types, Type
<1>6. TimerIsCurrent'
  BY RearmCurrent DEF Type
<1>7. HasLooked'
  BY DEF HasLooked, Type
<1>8. ASSUME ~crossed' PROVE Own'
  <2>1. Own
    BY <1>8 DEF Type
  <2>2. v.of = active
    BY <1>1, <2>1 DEF Own, Types
  <2>3. \A t \in Tabs : query'[t].of = t
    BY <1>2, <2>1, <2>2 DEF Own, Types
  <2>4. editor' = query'[active']
    BY <1>2 DEF Types, Type
  <2>5. UNCHANGED <<file, op, disk>>
    BY DEF Type
  <2> QED
    BY <2>1, <2>3, <2>4, <2>5, OwnKept DEF Own, Holds, Running
<1> QED
  BY <1>5, <1>6, <1>7, <1>8

LEMMA SwitchTabKeeps ==
  ASSUME IInv, NEW t \in Tabs, SwitchTab(t)
  PROVE  IInv'
<1> USE DEF IInv
<1>1. /\ editor' = query[t] /\ query' = query /\ active' = t
      /\ dirty' = [dirty EXCEPT ![t] = FALSE]
  BY DEF SwitchTab, EditorChange, Types
<1>2. timers' \subseteq Closures
  BY RearmTypes DEF SwitchTab, Types
<1>3. Types'
  BY <1>1, <1>2 DEF Types, SwitchTab, world
<1>4. TimerIsCurrent'
  BY RearmCurrent DEF SwitchTab
<1>5. HasLooked'
  BY DEF HasLooked, SwitchTab
<1>6. ASSUME ~crossed' PROVE Own'
  BY <1>1, <1>6 DEF Own, Holds, Running, SwitchTab, world
<1> QED
  BY <1>3, <1>4, <1>5, <1>6

LEMMA OutsideKeeps ==
  ASSUME IInv, NEW f \in Files, Outside(f)
  PROVE  IInv'
<1> USE DEF IInv
<1>1. /\ clock' \in Nat \ {0}
      /\ disk' = [disk EXCEPT ![f] = [text |-> [disk[f].text EXCEPT !.n = clock'],
                                      stamp |-> clock']]
  BY DEF Outside, Types
<1>2. /\ [disk[f].text EXCEPT !.n = clock'] \in Texts
      /\ [disk[f].text EXCEPT !.n = clock'].of = disk[f].text.of
  BY <1>1 DEF Types, Texts
<1> DEFINE v == [disk[f].text EXCEPT !.n = clock']
<1>3. /\ v \in Texts /\ v.of = disk[f].text.of
      /\ disk' = [disk EXCEPT ![f] = [text |-> v, stamp |-> clock']]
  BY <1>1, <1>2
<1> HIDE DEF v
<1>4. Types'
  <2>1. [text |-> v, stamp |-> clock'] \in [text : Texts, stamp : Nat \ {0}]
    BY <1>1, <1>3
  <2>2. disk' \in [Files -> [text : Texts, stamp : Nat \ {0}]]
    BY <1>3, <2>1 DEF Types
  <2> QED
    BY <1>1, <2>2 DEF Types, Outside, tabs
<1>5. TimerIsCurrent' /\ HasLooked'
  BY DEF TimerIsCurrent, Closure, HasLooked, Outside, tabs
<1>6. \A h \in Files : disk'[h].text.of = disk[h].text.of
  BY <1>3 DEF Types
<1>7. ASSUME ~crossed' PROVE Own'
  BY <1>6, <1>7 DEF Own, Holds, Running, Outside, tabs
<1> QED
  BY <1>4, <1>5, <1>7

LEMMA CancelConflictKeeps ==
  ASSUME IInv, CancelConflict
  PROVE  IInv'
BY DEF IInv, Types, TimerIsCurrent, Closure, Own, Holds, Running, HasLooked,
       CancelConflict, tabs, world

LEMMA StuttersKeep ==
  ASSUME IInv, UNCHANGED core
  PROVE  IInv'
BY DEF IInv, Types, TimerIsCurrent, Closure, Own, Holds, Running, HasLooked,
       core, tabs, world

\* A save starts for tab t.
LEMMA StartKeeps ==
  ASSUME IInv, NEW s \in Saves, NEW t \in Tabs, NEW k \in DOMAIN Awaits,
         NEW a \in Awaits[k], Start(s, k, a, Closure(t)),
         UNCHANGED <<active, editor, tabs, world, conflict>>,
         timers' \subseteq timers,
         crossed' \in BOOLEAN, crossed => crossed',
         crossed' \/ k = "reload" \/ t = active
  PROVE  IInv'
<1> USE DEF IInv
<1>1. Closure(t) \in Closures
  BY DEF Closure, Closures, Types
<1>2. /\ op' \in [Saves -> Idle \cup Jobs] /\ OthersWait(s)
      /\ op'[s].at = a /\ op'[s].kind = k /\ op'[s].seen = 0
  BY <1>1, StartTypes DEF OthersWait
<1>3. Types'
  BY <1>2 DEF Types, OthersWait, tabs, world
<1>4. TimerIsCurrent'
  BY StillCurrent
<1>5. HasLooked'
  BY <1>2, LookedKept DEF Looked
<1>6. ASSUME ~crossed' PROVE Own'
  BY <1>6, StartOwn DEF tabs, world
<1> QED
  BY <1>3, <1>4, <1>5, <1>6

LEMMA StartsKeep ==
  ASSUME IInv, NEW s \in Saves,
         Fire(s) \/ SaveFile(s) \/ Overwrite(s) \/ SaveAs(s) \/ Reload(s)
  PROVE  IInv'
<1> USE KindsAwait
<1>1. CASE Fire(s)
  <2>1. PICK c \in timers : Start(s, "auto", "check", c) /\ timers' = timers \ {c}
    BY <1>1 DEF Fire
  <2>2. c = Closure(active) /\ active \in Tabs
    BY DEF IInv, TimerIsCurrent, Types
  <2>3. Start(s, "auto", "check", Closure(active))
    BY <2>1, <2>2
  <2>4. UNCHANGED <<active, editor, tabs, world, conflict, crossed>> /\ crossed \in BOOLEAN
    BY <1>1 DEF Fire, IInv, Types
  <2> QED
    BY <2>1, <2>2, <2>3, <2>4, StartKeeps
<1>2. CASE SaveFile(s)
  BY <1>2, StartKeeps DEF SaveFile, IInv, Types
<1>3. CASE Overwrite(s)
  BY <1>3, StartKeeps DEF Overwrite, Answer, IInv, Types
<1>4. CASE SaveAs(s)
  BY <1>4, StartKeeps DEF SaveAs, Answer, IInv, Types
<1>5. CASE Reload(s)
  BY <1>5, StartKeeps DEF Reload, Answer, IInv, Types
<1> QED
  BY <1>1, <1>2, <1>3, <1>4, <1>5

\* A save ends, and the conflict dialog may close or open.
LEMMA OverKeeps ==
  ASSUME IInv, NEW s \in Saves, Over(s), conflict' \in Tabs \cup {None},
         UNCHANGED <<active, editor, tabs, world, timers, crossed>>
  PROVE  IInv'
<1> USE DEF IInv
<1>1. OpTyped' /\ OthersWait(s) /\ op'[s].at = "over"
  BY OverTypes, KindsAwait DEF Over, Types
<1>2. Types'
  BY <1>1 DEF Types, OpTyped, tabs, world
<1>3. TimerIsCurrent'
  BY StillCurrent
<1>4. HasLooked'
  BY <1>1, LookedKept DEF Looked
<1>5. ASSUME ~crossed' PROVE Own'
  BY <1>5, OverOwn DEF tabs, world
<1> QED
  BY <1>2, <1>3, <1>4, <1>5

\* A save goes on, and so does everything else.
LEMMA MoveKeeps ==
  ASSUME IInv, NEW s \in Saves, Running(s), NEW a \in Awaits[op[s].kind], NEW n \in Nat,
         op' = [op EXCEPT ![s] = Becomes(s, a, op[s].file, n)],
         a # "check",
         a = "write" => op[s].known = 0 \/ n <= op[s].known \/ n = 0,
         conflict' \in Tabs \cup {None},
         UNCHANGED <<active, editor, tabs, world, timers, crossed>>
  PROVE  IInv'
<1> USE DEF IInv
<1>1. OpTyped' /\ OthersWait(s) /\ op'[s] = Becomes(s, a, op[s].file, n)
  BY MoveTypes, JobFields
<1>2. Types'
  BY <1>1 DEF Types, OpTyped, tabs, world
<1>3. TimerIsCurrent'
  BY StillCurrent
<1>4. HasLooked'
  BY <1>1, LookedKept DEF Looked, Becomes
<1>5. ASSUME ~crossed' PROVE Own'
  BY <1>1, <1>5, MoveOwn DEF tabs, world
<1> QED
  BY <1>2, <1>3, <1>4, <1>5

\* What a save awaits tells its kind.
LEMMA KindOf ==
  ASSUME Types, NEW s \in Saves, Running(s)
  PROVE  /\ op[s].at = "check" => op[s].kind = "auto"
         /\ op[s].at \in {"write", "stat"} => op[s].kind \in {"auto", "manual", "overwrite"}
         /\ op[s].at \in {"dialog", "named"} => op[s].kind \in {"manual", "saveAs"}
         /\ op[s].at = "read" => op[s].kind = "reload"
BY JobFields, KindsAwait

LEMMA CheckKeeps ==
  ASSUME IInv, NEW s \in Saves, Check(s)
  PROVE  IInv'
<1>1. Running(s) /\ Types
  BY DEF Check, Running, IInv
<1>2. op[s].kind = "auto" /\ op[s].tab \in Tabs /\ op[s].file \in Files /\ op[s].known \in Nat
  BY <1>1, KindOf, JobFields DEF Check
<1>3. disk[op[s].file].stamp \in Nat
  BY <1>1, <1>2 DEF Types
<1>4. conflict' \in Tabs \cup {None}
  BY <1>1, <1>2 DEF Check, Types
<1>5. UNCHANGED <<active, editor, tabs, world, timers, crossed>>
  BY DEF Check
<1>6. CASE Over(s)
  BY <1>4, <1>5, <1>6, OverKeeps
<1>7. CASE ~Over(s)
  <2>1. PICK n \in Nat : n = disk[op[s].file].stamp
    BY <1>3
  <2>2. op' = [op EXCEPT ![s].at = "write", ![s].seen = n]
    BY <1>7, <2>1 DEF Check
  <2>3. op[s].known = 0 \/ n <= op[s].known
    BY <1>2, <1>7, <2>1 DEF Check
  <2>4. op' = [op EXCEPT ![s] = Becomes(s, "write", op[s].file, n)]
    <3>1. op[s] \in Jobs
      BY <1>1, JobFields
    <3>2. DOMAIN op = Saves
      BY <1>1 DEF Types
    <3>3. op'[s] = [op[s] EXCEPT !.at = "write", !.seen = n]
      BY <2>2, <3>2
    <3>4. op'[s] = Becomes(s, "write", op[s].file, n)
      BY <3>1, <3>3 DEF Jobs, Becomes
    <3> QED
      BY <2>2, <3>2, <3>4
  <2>5. "write" \in Awaits[op[s].kind]
    BY <1>2, KindsAwait
  <2> QED
    BY <1>1, <1>4, <1>5, <2>3, <2>4, <2>5, MoveKeeps
<1> QED
  BY <1>6, <1>7

LEMMA CheckFailsKeeps ==
  ASSUME IInv, NEW s \in Saves, CheckFails(s)
  PROVE  IInv'
<1>1. Running(s) /\ Types /\ conflict' \in Tabs \cup {None}
  BY DEF CheckFails, Running, IInv, Types
<1>2. UNCHANGED <<active, editor, tabs, world, timers, crossed>>
  BY DEF CheckFails
<1>3. CASE Over(s)
  BY <1>1, <1>2, <1>3, OverKeeps
<1>4. CASE GoTo(s, "write")
  <2>1. op' = [op EXCEPT ![s] = Becomes(s, "write", op[s].file, op[s].seen)]
    BY <1>1, <1>4, GoToBecomes
  <2>2. "write" \in Awaits[op[s].kind] /\ op[s].seen \in Nat
    BY <1>1, KindOf, JobFields, KindsAwait DEF CheckFails
  <2>3. op[s].seen = 0
    BY DEF CheckFails, IInv, HasLooked, Looked
  <2> QED
    BY <1>1, <1>2, <2>1, <2>2, <2>3, MoveKeeps
<1> QED
  BY <1>3, <1>4 DEF CheckFails

\* The file is written: it is the tab's, and so is the text.
LEMMA WriteKeeps ==
  ASSUME IInv, NEW s \in Saves, Write(s)
  PROVE  IInv'
<1> DEFINE f == op[s].file
<1> USE DEF IInv
<1>1. Running(s) /\ op[s].kind # "reload" /\ "stat" \in Awaits[op[s].kind]
  BY KindOf, KindsAwait DEF Write, Running
<1>2. f \in Files /\ op[s].text \in Texts /\ op[s].seen \in Nat
  BY <1>1, JobFields
<1>3. op' = [op EXCEPT ![s] = Becomes(s, "stat", f, op[s].seen)]
  BY <1>1, GoToBecomes DEF Write
<1>4. OpTyped' /\ OthersWait(s) /\ op'[s] = Becomes(s, "stat", f, op[s].seen)
  BY <1>1, <1>2, <1>3, MoveTypes
<1>5. /\ disk' = [disk EXCEPT ![f] = [text |-> op[s].text, stamp |-> clock']]
      /\ clock' \in Nat \ {0}
      /\ UNCHANGED <<active, editor, tabs, timers, conflict, crossed>>
  BY DEF Write, Put, Types
<1> HIDE DEF f
<1>6. Types'
  <2>1. [text |-> op[s].text, stamp |-> clock'] \in [text : Texts, stamp : Nat \ {0}]
    BY <1>2, <1>5
  <2>2. disk' \in [Files -> [text : Texts, stamp : Nat \ {0}]]
    BY <1>5, <2>1 DEF Types
  <2> QED
    BY <1>4, <1>5, <2>2 DEF Types, OpTyped, tabs
<1>7. TimerIsCurrent'
  BY <1>5, StillCurrent
<1>8. HasLooked'
  BY <1>4, LookedKept DEF Looked, Becomes
<1>9. ASSUME ~crossed' PROVE Own'
  <2>1. Own /\ UNCHANGED <<editor, query, active, file>>
    BY <1>5, <1>9 DEF tabs
  <2>2. Holds(op[s].tab, f) /\ op[s].tab \in Tabs
    BY <1>1, JobFields DEF Holds, f
  <2>3. \A t \in Tabs, h \in Files : Holds(t, h)' => Holds(t, h)
    BY <1>4, <2>1, <2>2, HoldsFewer DEF Becomes
  <2>4. op[s].text.of = op[s].tab
    BY <1>1, <2>1 DEF Own
  <2>5. disk[f].text.of = op[s].tab
    BY <1>2, <2>1, <2>2 DEF Own
  <2>6. \A t \in Tabs, h \in Files : Holds(t, h) => disk'[h].text.of = t
    BY <1>2, <1>5, <2>1, <2>4, <2>5 DEF Own, Types
  <2>7. \A r \in Saves : Running(r)' /\ op'[r].kind # "reload" => op'[r].text.of = op'[r].tab
    BY <1>4, <2>1, <2>4 DEF Own, OthersWait, Running, Becomes
  <2> QED
    BY <2>1, <2>3, <2>6, <2>7, OwnKept DEF Own
<1> QED
  BY <1>6, <1>7, <1>8, <1>9

LEMMA WriteFailsKeeps ==
  ASSUME IInv, NEW s \in Saves, WriteFails(s)
  PROVE  IInv'
<1>1. Running(s) /\ Types
  BY DEF WriteFails, Running, IInv
<1>2. /\ conflict' \in Tabs \cup {None}
      /\ UNCHANGED <<active, editor, tabs, world, timers, crossed>>
  BY <1>1 DEF WriteFails, CloseDialog, Types
<1>3. CASE op[s].kind = "manual"
  <2>1. op' = [op EXCEPT ![s] = Becomes(s, "dialog", op[s].file, op[s].seen)]
    BY <1>1, <1>3, GoToBecomes DEF WriteFails
  <2>2. "dialog" \in Awaits[op[s].kind] /\ op[s].seen \in Nat
    BY <1>1, <1>3, KindsAwait, JobFields
  <2> QED
    BY <1>1, <1>2, <2>1, <2>2, MoveKeeps
<1>4. CASE op[s].kind # "manual"
  BY <1>2, <1>4, OverKeeps DEF WriteFails
<1> QED
  BY <1>3, <1>4

\* The file picked is no other tab's, or an answer has hit the wrong tab.
LEMMA PickKeeps ==
  ASSUME IInv, NEW s \in Saves, NEW f \in Files, Pick(s, f)
  PROVE  IInv'
<1> USE DEF IInv
<1>1. Running(s) /\ op[s].kind # "reload" /\ "named" \in Awaits[op[s].kind]
  BY KindOf, KindsAwait DEF Pick, Running
<1>2. op[s].tab \in Tabs /\ op[s].text \in Texts /\ op[s].seen \in Nat
  BY <1>1, JobFields
<1>3. op' = [op EXCEPT ![s] = Becomes(s, "named", f, op[s].seen)]
  <2>1. op[s] \in Jobs /\ DOMAIN op = Saves
    BY <1>1, JobFields DEF Types
  <2>2. op'[s] = [op[s] EXCEPT !.at = "named", !.file = f]
    BY <2>1 DEF Pick
  <2>3. op'[s] = Becomes(s, "named", f, op[s].seen)
    BY <2>1, <2>2 DEF Jobs, Becomes
  <2> QED
    BY <2>1, <2>3 DEF Pick
<1>4. OpTyped' /\ OthersWait(s) /\ op'[s] = Becomes(s, "named", f, op[s].seen)
  BY <1>1, <1>2, <1>3, MoveTypes
<1>5. /\ disk' = [disk EXCEPT ![f] = [text |-> op[s].text, stamp |-> clock']]
      /\ clock' \in Nat \ {0}
      /\ UNCHANGED <<active, editor, tabs, timers, conflict>>
      /\ crossed' \in BOOLEAN
  BY DEF Pick, Put, Types
<1>6. Types'
  <2>1. [text |-> op[s].text, stamp |-> clock'] \in [text : Texts, stamp : Nat \ {0}]
    BY <1>2, <1>5
  <2>2. disk' \in [Files -> [text : Texts, stamp : Nat \ {0}]]
    BY <1>5, <2>1 DEF Types
  <2> QED
    BY <1>4, <1>5, <2>2 DEF Types, OpTyped, tabs
<1>7. TimerIsCurrent'
  BY <1>5, StillCurrent
<1>8. HasLooked'
  BY <1>4, LookedKept DEF Looked, Becomes
<1>9. ASSUME ~crossed' PROVE Own'
  <2>1. Own /\ UNCHANGED <<editor, query, active, file>>
    BY <1>5, <1>9 DEF Pick, tabs
  <2>2. \A t \in Tabs \ {op[s].tab} : ~Holds(t, f)
    BY <1>9 DEF Pick, Holds, Running
  <2>3. op[s].text.of = op[s].tab
    BY <1>1, <2>1 DEF Own
  <2>4. disk'[f].text = op[s].text /\ \A h \in Files \ {f} : disk'[h] = disk[h]
    BY <1>5 DEF Types
  <2>5. \A t \in Tabs, h \in Files :
          Holds(t, h)' => Holds(t, h) \/ (t = op[s].tab /\ h = f)
    BY <1>4, <2>1 DEF Holds, OthersWait, Running, Becomes
  <2>6. \A t \in Tabs, h \in Files : Holds(t, h)' => disk'[h].text.of = t
    BY <2>1, <2>2, <2>3, <2>4, <2>5 DEF Own
  <2>7. \A r \in Saves : Running(r)' /\ op'[r].kind # "reload" => op'[r].text.of = op'[r].tab
    BY <1>4, <2>1, <2>3 DEF Own, OthersWait, Running, Becomes
  <2> QED
    BY <2>1, <2>6, <2>7 DEF Own
<1> QED
  BY <1>6, <1>7, <1>8, <1>9

LEMMA PickNoneKeeps ==
  ASSUME IInv, NEW s \in Saves, PickNone(s) \/ ReadFails(s)
  PROVE  IInv'
<1>1. /\ conflict' \in Tabs \cup {None} /\ Over(s)
      /\ UNCHANGED <<active, editor, tabs, world, timers, crossed>>
  BY DEF PickNone, ReadFails, CloseDialog, IInv, Types
<1> QED
  BY <1>1, OverKeeps

LEMMA ThrowKeeps ==
  ASSUME IInv, NEW s \in Saves, Throw(s)
  PROVE  IInv'
BY OverKeeps DEF Throw, IInv, Types

\* A tab is marked as saved in a file it holds.
LEMMA MarkSavedKeeps ==
  ASSUME IInv, NEW s \in Saves, Running(s), NEW f \in Files, NEW n \in Nat,
         Holds(op[s].tab, f), MarkSaved(s, f, n)
  PROVE  IInv'
<1> USE DEF IInv
<1>1. op[s].tab \in Tabs
  BY JobFields
<1>2. OpTyped' /\ OthersWait(s) /\ ~Running(s)' /\ op'[s].at = "over"
  BY OverTypes DEF MarkSaved, Over, Types
<1>3. /\ dirty' \in [Tabs -> BOOLEAN] /\ known' \in [Tabs -> Nat]
      /\ file' \in [Tabs -> Files] /\ conflict' \in Tabs \cup {None}
  BY <1>1 DEF MarkSaved, CloseDialog, Types
<1>4. timers' \subseteq Closures
  BY <1>3, RearmTypes DEF MarkSaved, Types
<1>5. Types'
  BY <1>2, <1>3, <1>4 DEF Types, OpTyped, MarkSaved, world
<1>6. TimerIsCurrent'
  BY RearmCurrent DEF MarkSaved
<1>7. HasLooked'
  BY <1>2, LookedKept DEF Looked
<1>8. ASSUME ~crossed' PROVE Own'
  <2>1. Own /\ UNCHANGED <<editor, query, active, disk>>
    BY <1>8 DEF MarkSaved, world
  <2>2. \A t \in Tabs : file'[t] = file[t] \/ Holds(t, file'[t])
    BY <1>1 DEF MarkSaved, Types
  <2>3. \A t \in Tabs, h \in Files : Holds(t, h)' => Holds(t, h)
    BY <1>2, <2>2, HoldsFewer
  <2>4. \A r \in Saves : Running(r)' /\ op'[r].kind # "reload" => op'[r].text.of = op'[r].tab
    BY <1>2, <2>1 DEF Own, OthersWait, Running
  <2> QED
    BY <2>1, <2>3, <2>4, OwnKept DEF Own
<1> QED
  BY <1>5, <1>6, <1>7, <1>8

LEMMA SavedKeeps ==
  ASSUME IInv, NEW s \in Saves, Stat(s) \/ StatFails(s) \/ Named(s) \/ NamedFails(s)
  PROVE  IInv'
<1>1. Running(s) /\ Types
  BY DEF Stat, StatFails, Named, NamedFails, Running, IInv
<1>2. op[s].tab \in Tabs /\ op[s].file \in Files
  BY <1>1, JobFields
<1>3. /\ file[op[s].tab] \in Files /\ known[op[s].tab] \in Nat
      /\ disk[op[s].file].stamp \in Nat
  BY <1>1, <1>2 DEF Types
<1>4. Holds(op[s].tab, op[s].file) /\ Holds(op[s].tab, file[op[s].tab])
  BY <1>1 DEF Holds
<1>5. CASE Throw(s)
  BY <1>5, ThrowKeeps
<1>6. ASSUME NEW f \in {op[s].file, file[op[s].tab]},
             NEW n \in {disk[op[s].file].stamp, known[op[s].tab], 0}, MarkSaved(s, f, n)
      PROVE  IInv'
  BY <1>1, <1>3, <1>2, <1>4, <1>6, MarkSavedKeeps
<1> QED
  BY <1>5, <1>6 DEF Stat, StatFails, Named, NamedFails

\* A tab is loaded again: its text goes to the editor exactly if it is active,
\* or an answer has hit the wrong tab.
LEMMA ReadKeeps ==
  ASSUME IInv, NEW s \in Saves, Read(s)
  PROVE  IInv'
<1> DEFINE t == op[s].tab
           v == disk[op[s].file].text
           q == [query EXCEPT ![t] = v]
           d == [dirty EXCEPT ![t] = FALSE]
<1> USE DEF IInv
<1>1. Running(s)
  BY DEF Read, Running
<1>2. t \in Tabs /\ op[s].file \in Files /\ active \in Tabs
  BY <1>1, JobFields DEF Types
<1>3. v \in Texts /\ disk[op[s].file].stamp \in Nat
  BY <1>2 DEF Types
<1>4. q \in [Tabs -> Texts] /\ d \in [Tabs -> BOOLEAN]
  BY <1>2, <1>3 DEF Types
<1>5. /\ known' = [known EXCEPT ![t] = disk[op[s].file].stamp]
      /\ IF op[s].view = t
         THEN /\ editor' = v /\ query' = [q EXCEPT ![active] = v]
              /\ dirty' = [d EXCEPT ![active] = v # q[active]]
         ELSE query' = q /\ dirty' = d /\ editor' = editor
      /\ crossed' = (crossed \/ (op[s].view = t) # (active = t))
      /\ CloseDialog(s) /\ Over(s) /\ UNCHANGED <<active, file, world>> /\ Rearm
  BY DEF Read, EditorChange
<1>6. OpTyped' /\ OthersWait(s) /\ ~Running(s)' /\ op'[s].at = "over"
  BY <1>5, OverTypes DEF Over, Types
<1>7. q[t] = v /\ \A u \in Tabs \ {t} : q[u] = query[u]
  BY <1>2 DEF Types
<1> HIDE DEF t, v, q, d
<1>8. Types'
  <2>1. editor' \in Texts /\ query' \in [Tabs -> Texts] /\ dirty' \in [Tabs -> BOOLEAN]
    <3>1. CASE op[s].view = t
      BY <1>2, <1>3, <1>4, <1>5, <3>1
    <3>2. CASE op[s].view # t
      BY <1>4, <1>5, <3>2 DEF Types
    <3> QED
      BY <3>1, <3>2
  <2>2. known' \in [Tabs -> Nat] /\ file' \in [Tabs -> Files] /\ active' \in Tabs
    BY <1>2, <1>3, <1>5 DEF Types
  <2>3. timers' \subseteq Closures
    BY <1>5, <2>2, RearmTypes
  <2>4. conflict' \in Tabs \cup {None} /\ crossed' \in BOOLEAN
    BY <1>5 DEF CloseDialog, Types
  <2> QED
    BY <1>5, <1>6, <2>1, <2>2, <2>3, <2>4 DEF Types, OpTyped, world
<1>9. TimerIsCurrent'
  BY <1>5, RearmCurrent
<1>10. HasLooked'
  BY <1>6, LookedKept DEF Looked
<1>11. ASSUME ~crossed' PROVE Own'
  <2>1. Own /\ (op[s].view = t <=> active = t)
    BY <1>5, <1>11 DEF Types
  <2>2. v.of = t
    BY <1>1, <1>2, <2>1 DEF Own, Holds, t, v
  <2>3. /\ \A u \in Tabs : query'[u] = q[u]
        /\ editor' = query'[active]
    <3>1. CASE active = t
      BY <1>2, <1>4, <1>5, <1>7, <2>1, <3>1
    <3>2. CASE active # t
      BY <1>2, <1>5, <1>7, <2>1, <3>2 DEF Own
    <3> QED
      BY <3>1, <3>2
  <2>4. \A u \in Tabs : query'[u].of = u
    BY <1>7, <2>1, <2>2, <2>3 DEF Own
  <2>5. \A u \in Tabs, h \in Files : Holds(u, h)' => Holds(u, h)
    BY <1>5, <1>6, HoldsFewer
  <2>6. \A r \in Saves : Running(r)' /\ op'[r].kind # "reload" => op'[r].text.of = op'[r].tab
    BY <1>6, <2>1 DEF Own, OthersWait, Running
  <2> QED
    BY <1>5, <2>1, <2>3, <2>4, <2>5, <2>6, OwnKept DEF Own, world
<1> QED
  BY <1>8, <1>9, <1>10, <1>11

-----------------------------------------------------------------------------
LEMMA StepKeeps == IInv /\ [Next]_vars => IInv'
<1> SUFFICES ASSUME IInv, [Step]_core PROVE IInv'
  BY DEF Next, vars
<1>1. CASE UNCHANGED core
  BY <1>1, StuttersKeep
<1>2. CASE Type \/ CancelConflict
  BY <1>2, TypeKeeps, CancelConflictKeeps
<1>3. ASSUME NEW t \in Tabs, SwitchTab(t) PROVE IInv'
  BY <1>3, SwitchTabKeeps
<1>4. ASSUME NEW f \in Files, Outside(f) PROVE IInv'
  BY <1>4, OutsideKeeps
<1>5. ASSUME NEW s \in Saves,
             \/ Fire(s) \/ SaveFile(s) \/ Overwrite(s) \/ SaveAs(s) \/ Reload(s)
      PROVE  IInv'
  BY <1>5, StartsKeep
<1>6. ASSUME NEW s \in Saves,
             Check(s) \/ CheckFails(s) \/ Write(s) \/ WriteFails(s) \/ Read(s)
      PROVE  IInv'
  BY <1>6, CheckKeeps, CheckFailsKeeps, WriteKeeps, WriteFailsKeeps, ReadKeeps
<1>7. ASSUME NEW s \in Saves, Stat(s) \/ StatFails(s) \/ Named(s) \/ NamedFails(s)
      PROVE  IInv'
  BY <1>7, SavedKeeps
<1>8. ASSUME NEW s \in Saves, PickNone(s) \/ ReadFails(s) PROVE IInv'
  BY <1>8, PickNoneKeeps
<1>9. ASSUME NEW s \in Saves, NEW f \in Files, Pick(s, f) PROVE IInv'
  BY <1>9, PickKeeps
<1> QED
  BY <1>1, <1>2, <1>3, <1>4, <1>5, <1>6, <1>7, <1>8, <1>9 DEF Step

\* The inductive invariant holds throughout.
THEOREM Invariance == Spec => []IInv
BY Initially, StepKeeps, PTL DEF Spec

-----------------------------------------------------------------------------
(* The mark and its timer: every step leaves the timers and what they depend *)
(* on alone, runs the effect of the auto-save, or is the timer that fires.   *)

LEMMA StepsRearm ==
  ASSUME Step
  PROVE  \/ UNCHANGED <<active, dirty, known, file, timers>>
         \/ Rearm
         \/ \E s \in Saves : Fire(s)
BY DEF Step, Type, CancelConflict, SwitchTab, Outside, SaveFile, Overwrite, SaveAs, Reload,
       Answer, Check, CheckFails, Write, WriteFails, Stat, StatFails, Pick, PickNone, Named,
       NamedFails, Read, ReadFails, MarkSaved, Throw, tabs

\* The timer that fires is the active tab's.
LEMMA FireTries ==
  ASSUME IInv, NEW s \in Saves, Fire(s)
  PROVE  UNCHANGED <<active, dirty>> /\ Tried(active)
<1>1. PICK c \in timers : Start(s, "auto", "check", c) /\ UNCHANGED <<active, editor, tabs>>
  BY DEF Fire
<1>2. c.tab = active
  BY <1>1 DEF IInv, TimerIsCurrent, Closure
<1>3. op \in [Saves -> Idle \cup Jobs]
  BY DEF IInv, Types
<1>4. op[s].at = "new" /\ op'[s].at = "check" /\ op'[s].tab = active
  BY <1>1, <1>2, <1>3 DEF Start
<1> QED
  BY <1>1, <1>4 DEF Tried, tabs

Due == due \in Tabs \cup {None} /\ DueIsArmed

LEMMA DueKept == IInv /\ Due /\ [Next]_vars => Due'
<1> SUFFICES ASSUME IInv, Due, [Next]_vars PROVE Due'
  OBVIOUS
<1>0. IInv' /\ active \in Tabs /\ active' \in Tabs
  BY StepKeeps DEF IInv, Types
<1>1. CASE UNCHANGED vars
  BY <1>1 DEF Due, DueIsArmed, Closure, vars, core, tabs
<1>2. CASE Step /\ Noted
  <2>1. due' \in Tabs \cup {None}
    BY <1>0, <1>2 DEF Noted, Due
  <2> SUFFICES ASSUME due' # None
               PROVE  due' = active' /\ dirty'[active'] /\ timers' = {Closure(active)'}
    BY <2>1 DEF Due, DueIsArmed
  <2>2. dirty'[active']
    BY <1>2 DEF Noted
  <2>3. \/ due' = active' /\ (active' # active \/ ~dirty[active])
        \/ due' = due /\ active' = active /\ dirty[active] /\ ~Tried(active)
    BY <1>2, <2>2 DEF Noted
  <2>4. CASE UNCHANGED <<active, dirty, known, file, timers>>
    BY <2>2, <2>3, <2>4 DEF Due, DueIsArmed, Closure
  <2>5. CASE Rearm /\ Deps' # Deps
    <3>1. timers' = {Closure(active)'}
      BY <2>2, <2>5 DEF Rearm
    <3>2. due' = active'
      BY <2>3 DEF Due, DueIsArmed
    <3> QED
      BY <2>2, <3>1, <3>2
  <2>6. CASE Rearm /\ Deps' = Deps
    <3>1. timers' = timers /\ active' = active /\ dirty'[active'] = dirty[active]
          /\ file'[active'] = file[active] /\ known'[active'] = known[active]
      BY <2>6 DEF Rearm, Deps
    <3>2. due' = due
      BY <2>2, <2>3, <3>1
    <3> QED
      BY <2>2, <3>1, <3>2 DEF Due, DueIsArmed, Closure
  <2>7. CASE \E s \in Saves : Fire(s)
    BY <2>2, <2>3, <2>7, FireTries
  <2> QED
    BY <1>2, <2>4, <2>5, <2>6, <2>7, StepsRearm
<1> QED
  BY <1>1, <1>2 DEF Next

\* The state keeps its types, and a tab whose mark has appeared has its timer.
LEMMA DueInvariance == Spec => []Due
<1>1. Init => Due
  BY DEF Init, Due, DueIsArmed
<1> QED
  BY <1>1, Invariance, DueKept, PTL DEF Spec

\* The state keeps its types.
THEOREM TypeCorrectness == Spec => []TypeOK
<1>1. IInv /\ Due => TypeOK
  BY DEF IInv, Due, TypeOK
<1> QED
  BY Invariance, DueInvariance, <1>1, PTL

\* useAutoSave.ts: a pending timer is the active tab's, with its file and stamp.
THEOREM TimersAreCurrent == Spec => []TimerIsCurrent
<1>1. IInv => TimerIsCurrent
  BY DEF IInv
<1> QED
  BY Invariance, <1>1, PTL

\* Whatever saves overlap: no tab's text gets into another tab or its file,
\* unless a dialog is answered for a tab other than the active one.
THEOREM TextsStay == Spec => []OwnText
<1>1. IInv => OwnText
  BY DEF IInv, Own, OwnText, Holds, Types
<1> QED
  BY Invariance, <1>1, PTL

\* ... and the editor shows the text of the active tab.
THEOREM EditorShowsTab == Spec => []EditorInSync
<1>1. IInv => EditorInSync
  BY DEF IInv, Own, EditorInSync
<1> QED
  BY Invariance, <1>1, PTL

\* useAutoSave.ts: an auto-save replaces no change its tab does not know of that
\* was there when it looked.
THEOREM ChangesAreHeeded == Spec => AutoSaveHeeds
<1> DEFINE Heeds == \A s \in Saves :
      op[s].at = "write" /\ op[s].kind = "auto" /\ op'[s].at = "stat" /\ op[s].known # 0
        => LET stamp == disk[op[s].file].stamp
           IN stamp <= op[s].known \/ stamp > op[s].seen
<1>1. IInv => Heeds
  <2> SUFFICES ASSUME IInv, NEW s \in Saves, op[s].at = "write", op[s].kind = "auto",
                      op[s].known # 0
               PROVE  \/ disk[op[s].file].stamp <= op[s].known
                      \/ disk[op[s].file].stamp > op[s].seen
    OBVIOUS
  <2>1. op[s].file \in Files /\ op[s].known \in Nat /\ op[s].seen \in Nat
    BY JobFields DEF IInv, Running
  <2>2. disk[op[s].file].stamp \in Nat \ {0}
    BY <2>1 DEF IInv, Types
  <2>3. op[s].seen <= op[s].known \/ op[s].seen = 0
    BY DEF IInv, HasLooked, Looked
  <2> QED
    BY <2>1, <2>2, <2>3
<1>2. IInv /\ [Next]_vars => [Heeds]_vars
  BY <1>1
<1> QED
  BY Invariance, <1>2, PTL DEF Spec, AutoSaveHeeds

\* The editor shows the active tab, and an armed timer is armed for what it shows.
THEOREM EditorIsTimed == Spec => []EditorAndTimer
<1>1. TypeOK /\ TimerIsCurrent /\ Due /\ EditorInSync => EditorAndTimer
  BY DEF EditorAndTimer, Due
<1> QED
  BY <1>1, TypeCorrectness, TimersAreCurrent, DueInvariance, EditorShowsTab, PTL
==============================================================================
