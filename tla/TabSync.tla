------------------------------- MODULE TabSync -------------------------------
(***************************************************************************)
(* The SQL tabs of several browser windows: useTabManager.ts, the tab       *)
(* handlers of App.tsx and useUnsavedChangesDialog.ts.  Every window has its *)
(* own tabs; an effect writes them to localStorage after every change, which *)
(* sends a storage event to the other windows if the stored value is new,    *)
(* and a window that receives one merges the value into its tabs.            *)
(*                                                                           *)
(* A step of a window is one handler with the render and the effects that    *)
(* follow it.  A text is the set of the acts that typed in it.  A window     *)
(* without tabs is closed, or has failed to render.                          *)
(***************************************************************************)
EXTENDS Integers, Sequences, FiniteSets, SequencesExt, FiniteSetsExt

CONSTANTS
  Windows,
  MaxTabs,    \* MAX_TABS
  MaxActs     \* bound: the users act until this time, then leave

ASSUME SizesAssumption == MaxTabs \in Nat \ {0} /\ MaxActs \in Nat \ {0}

VARIABLES
  tabs,         \* window -> its tabs, in order
  active,       \* window -> activeTabId
  editor,       \* window -> the text in the editor
  next,         \* window -> nextTabId.current
  dialog,       \* window -> the tab the dialog asks to close, 0: no dialog
  failed,       \* the windows that could not render (ErrorBoundary)
  inbox,        \* window -> the stored values of the storage events under way
  stored,       \* localStorage: "dbxlite-editor-tabs", << >>: never written
  storedActive, \* localStorage: "dbxlite-active-tab"
  now,          \* the clock, which every act advances
  over          \* history: a window has opened a file with MaxTabs tabs or more

vars == <<tabs, active, editor, next, dialog, failed, inbox, stored, storedActive, now, over>>

Texts == SUBSET (1 .. MaxActs)
Tab == [id : Nat \ {0}, name : 0 .. MaxActs, query : Texts, lastModified : 0 .. MaxActs]
\* lastModified = 0: the field is missing.
NewTab(i, q, s) == [id |-> i, name |-> 0, query |-> q, lastModified |-> s]

Ids(s) == {t.id : t \in Range(s)}
Find(s, i) == s[CHOOSE k \in DOMAIN s : s[k].id = i /\ \A j \in 1 .. k - 1 : s[j].id # i]
Up(w) == tabs[w] # << >>

\* The list of the elements of f, each at its place.
Placed(f, place, n) == [m \in 1 .. n |-> f[CHOOSE k \in DOMAIN place : place[k] = m]]

\* What a filter keeps of the list s: the elements at K, in their order.
Filtered(s, K) ==
  Placed(s, [k \in K |-> Cardinality({j \in K : j < k}) + 1], Cardinality(K))

\* There are no tabs yet, or those of an earlier session: the default tab, and
\* perhaps one that was added at time 1.  Each window shows them or is closed.
Saved == {<<NewTab(1, {}, 0)>>, <<NewTab(1, {}, 0), NewTab(2, {}, 1)>>}

Init ==
  /\ stored \in {<< >>} \cup Saved
  /\ tabs \in [Windows -> {<< >>, stored}]
  /\ active = [w \in Windows |-> IF Up(w) THEN Len(stored) ELSE 1]
  /\ editor = [w \in Windows |-> {}]
  /\ next = [w \in Windows |-> IF Up(w) THEN Len(stored) + 1 ELSE 2]
  /\ dialog = [w \in Windows |-> 0]
  /\ failed = {}
  /\ inbox = [w \in Windows |-> << >>]
  /\ storedActive = IF stored = << >> THEN 1 ELSE Len(stored)
  /\ now = 1
  /\ over = FALSE

-----------------------------------------------------------------------------
(* Renders and effects. *)

\* The effect that stores the tabs has run for each of the values ws; one that
\* is stored already sends no event.  A window takes no event of its own.
Store(w, ws, rest) ==
  LET all == <<stored>> \o ws
      news == Filtered(ws, {k \in DOMAIN ws : ws[k] # all[k]})
  IN /\ stored' = Last(all)
     /\ inbox' = [v \in Windows |-> IF v = w THEN rest
                                    ELSE IF Up(v) THEN inbox[v] \o news ELSE inbox[v]]

\* setValue of the editor calls handleEditorChange for the tab shown.
Edited(s, a, v) ==
  [k \in DOMAIN s |-> IF s[k].id = a THEN [s[k] EXCEPT !.query = v, !.lastModified = now']
                                     ELSE s[k]]

\* The ids are counted again when the number of tabs has changed.
Counted(w, s, n) == IF Len(s) # Len(tabs[w]) THEN Max(Ids(s)) + 1 ELSE n

\* Window w renders tabs s with the active tab a and nextTabId n; its effects
\* count the ids, store the active tab, store the tabs if they were set
\* (ws = <<s>>), and show a new active tab.
Render(w, s, ws, a, n) ==
  LET shows == a # active[w] /\ a \in Ids(s)
      v == Find(s, a).query
      t == IF shows THEN Edited(s, a, v) ELSE s
  IN /\ tabs' = [tabs EXCEPT ![w] = t]
     /\ active' = [active EXCEPT ![w] = a]
     /\ editor' = [editor EXCEPT ![w] = IF shows THEN v ELSE @]
     /\ next' = [next EXCEPT ![w] = Counted(w, s, n)]
     /\ storedActive' = IF a # active[w] THEN a ELSE storedActive
     /\ Store(w, IF shows THEN ws \o <<t>> ELSE ws, inbox[w])
     /\ UNCHANGED failed

\* App.tsx cannot render without a tab: the window is lost, and stores nothing.
RenderNothing(w) ==
  /\ failed' = failed \cup {w}
  /\ tabs' = [tabs EXCEPT ![w] = << >>]
  /\ inbox' = [inbox EXCEPT ![w] = << >>]
  /\ UNCHANGED <<active, editor, next, stored, storedActive>>

-----------------------------------------------------------------------------
(* What a user does. *)

Act ==
  /\ now < MaxActs
  /\ now' = now + 1

\* The initial value of useState, and the effects of the first render.
Open(w) ==
  LET s == IF stored = << >> THEN <<NewTab(1, {}, 0)>> ELSE stored
  IN /\ ~Up(w)
     /\ Act
     /\ tabs' = [tabs EXCEPT ![w] = s]
     /\ active' = [active EXCEPT ![w] = storedActive]
     /\ editor' = [editor EXCEPT ![w] =
          IF storedActive \in Ids(s) THEN Find(s, storedActive).query ELSE s[1].query]
     /\ next' = [next EXCEPT ![w] = Max(Ids(s)) + 1]
     /\ dialog' = [dialog EXCEPT ![w] = 0]
     /\ failed' = failed \ {w}
     /\ Store(w, <<s>>, << >>)
     /\ UNCHANGED <<storedActive, over>>

CloseWindow(w) ==
  /\ Up(w)
  /\ Act
  /\ tabs' = [tabs EXCEPT ![w] = << >>]
  /\ inbox' = [inbox EXCEPT ![w] = << >>]
  /\ UNCHANGED <<active, editor, next, dialog, failed, stored, storedActive, over>>

\* handleEditorChange: a text that no tab is active for is not kept.
Type(w) ==
  LET v == editor[w] \cup {now'}
      s == Edited(tabs[w], active[w], v)
  IN /\ Up(w)
     /\ Act
     /\ tabs' = [tabs EXCEPT ![w] = s]
     /\ editor' = [editor EXCEPT ![w] = v]
     /\ Store(w, <<s>>, inbox[w])
     /\ UNCHANGED <<active, next, dialog, failed, storedActive, over>>

SwitchTab(w, a) ==
  /\ a \in Ids(tabs[w]) \ {active[w]}
  /\ Act
  /\ Render(w, tabs[w], << >>, a, next[w])
  /\ UNCHANGED <<dialog, over>>

\* A bug that must be noticed: the id is the number of the tab.
HandleTabAdd_ByLength(w) ==
  LET i == Len(tabs[w]) + 1
      s == Append(tabs[w], NewTab(i, {}, 0))
  IN /\ Up(w) /\ Len(tabs[w]) < MaxTabs
     /\ Act
     /\ Render(w, s, <<s>>, i, i + 1)
     /\ UNCHANGED <<dialog, over>>

HandleTabAdd(w) ==
  LET s == Append(tabs[w], NewTab(next[w], {}, 0))
  IN /\ Up(w) /\ Len(tabs[w]) < MaxTabs
     /\ Act
     /\ Render(w, s, <<s>>, next[w], next[w] + 1)
     /\ UNCHANGED <<dialog, over>>

\* handleOpenFile adds a tab however many there are.
HandleOpenFile(w) ==
  LET s == Append(tabs[w], NewTab(next[w], {now'}, now'))
  IN /\ Up(w)
     /\ Act
     /\ Render(w, s, <<s>>, next[w], next[w] + 1)
     /\ over' = (over \/ Len(tabs[w]) >= MaxTabs)
     /\ UNCHANGED dialog

\* createTabsWithQueries, for one query: ids come from the clock.
CreateTabsWithQueries(w) ==
  LET i == 1000 * now'
      s == <<NewTab(i, {now'}, 0)>>
  IN /\ Up(w)
     /\ Act
     /\ Render(w, s, <<s>>, i, i + 2)
     /\ UNCHANGED <<dialog, over>>

RenameTab(w, i) ==
  LET s == [k \in DOMAIN tabs[w] |-> IF tabs[w][k].id = i THEN [tabs[w][k] EXCEPT !.name = now']
                                                          ELSE tabs[w][k]]
  IN /\ i \in Ids(tabs[w])
     /\ Act
     /\ Render(w, s, <<s>>, active[w], next[w])
     /\ UNCHANGED <<dialog, over>>

CloseTab(w, i) ==
  LET s == Filtered(tabs[w], {k \in DOMAIN tabs[w] : tabs[w][k].id # i})
  IN IF s = << >> THEN RenderNothing(w)
     ELSE Render(w, s, <<s>>, IF active[w] = i THEN s[1].id ELSE active[w], next[w])

\* The button of a tab asks first; the shortcut closes the active tab at once,
\* also with the dialog open.
HandleTabClose(w, i) ==
  /\ i \in Ids(tabs[w]) /\ Len(tabs[w]) > 1 /\ dialog[w] = 0
  /\ now < MaxActs
  /\ dialog' = [dialog EXCEPT ![w] = i]
  /\ UNCHANGED <<tabs, active, editor, next, failed, inbox, stored, storedActive, now, over>>

CloseShortcut(w) ==
  /\ Len(tabs[w]) > 1
  /\ Act
  /\ CloseTab(w, active[w])
  /\ UNCHANGED <<dialog, over>>

HandleConfirmCloseTab(w) ==
  /\ Up(w) /\ dialog[w] # 0
  /\ Act
  /\ CloseTab(w, dialog[w])
  /\ dialog' = [dialog EXCEPT ![w] = 0]
  /\ UNCHANGED over

HandleCancelCloseTab(w) ==
  /\ Up(w) /\ dialog[w] # 0
  /\ now < MaxActs
  /\ dialog' = [dialog EXCEPT ![w] = 0]
  /\ UNCHANGED <<tabs, active, editor, next, failed, inbox, stored, storedActive, now, over>>

-----------------------------------------------------------------------------
(* The storage event. *)

\* Bugs that must be noticed: the incoming tab is always taken, or never.
MergedTab_Incoming(cur, inc) == inc
MergedTab_Current(cur, inc) == cur

\* The incoming tab is taken if it is newer, or if one of the two has no stamp;
\* a field that is missing in it keeps its value.
MergedTab(cur, inc) ==
  IF cur.lastModified = 0 \/ inc.lastModified = 0 \/ inc.lastModified > cur.lastModified
  THEN [inc EXCEPT !.lastModified = IF @ = 0 THEN cur.lastModified ELSE @]
  ELSE cur

\* The tabs of both, each at the place where its id comes first.
Merged(cur, inc) ==
  LET all == cur \o inc
      first == {k \in DOMAIN all : \A j \in 1 .. k - 1 : all[j].id # all[k].id}
      one(i) == IF i \notin Ids(inc) THEN Find(cur, i)
                ELSE IF i \notin Ids(cur) THEN Find(inc, i)
                ELSE MergedTab(Find(cur, i), Find(inc, i))
  IN [k \in first |-> one(all[k].id)]

\* The last modified come first; the sort is stable.
Capped(f) ==
  LET before(j, k) == \/ f[j].lastModified > f[k].lastModified
                      \/ f[j].lastModified = f[k].lastModified /\ j < k
      at == [k \in DOMAIN f |-> Cardinality({j \in DOMAIN f : before(j, k)}) + 1]
  IN Placed(f, at, Min({Cardinality(DOMAIN f), MaxTabs}))

\* A bug that must be noticed: merged tabs are not stored, to end the events.
Receive_NotStored(w) ==
  /\ Up(w) /\ inbox[w] # << >>
  /\ \E f \in {Merged(tabs[w], Head(inbox[w]))} : \E s \in {Capped(f)} :
       /\ tabs' = [tabs EXCEPT ![w] = s]
       /\ next' = [next EXCEPT ![w] = Counted(w, s, @)]
  /\ inbox' = [inbox EXCEPT ![w] = Tail(@)]
  /\ UNCHANGED <<active, editor, dialog, failed, stored, storedActive, now, over>>

\* handleStorageChange.  (\E names the two values, so that TLC computes them
\* once.)
Receive(w) ==
  /\ Up(w) /\ inbox[w] # << >>
  /\ \E f \in {Merged(tabs[w], Head(inbox[w]))} : \E s \in {Capped(f)} :
       /\ tabs' = [tabs EXCEPT ![w] = s]
       /\ next' = [next EXCEPT ![w] = Counted(w, s, @)]
       /\ Store(w, <<s>>, Tail(inbox[w]))
  /\ UNCHANGED <<active, editor, dialog, failed, storedActive, now, over>>

-----------------------------------------------------------------------------
Next ==
  \E w \in Windows :
    \/ Open(w) \/ CloseWindow(w) \/ Type(w) \/ HandleTabAdd(w) \/ HandleOpenFile(w)
    \/ CreateTabsWithQueries(w) \/ CloseShortcut(w) \/ HandleConfirmCloseTab(w)
    \/ HandleCancelCloseTab(w) \/ Receive(w)
    \/ \E i \in Ids(tabs[w]) : SwitchTab(w, i) \/ RenameTab(w, i) \/ HandleTabClose(w, i)

Spec == Init /\ [][Next]_vars

\* The browser delivers storage events.
FairSpec == Spec /\ \A w \in Windows : WF_vars(Receive(w))

-----------------------------------------------------------------------------
(* What holds. *)

\* Every window keeps tabs of the right shape, and never stores an empty list.
TypeOK ==
  /\ \A w \in Windows : Range(tabs[w]) \subseteq Tab /\ (Up(w) => Ids(tabs[w]) # {})
  /\ \A w \in Windows : \A k \in DOMAIN inbox[w] : inbox[w][k] # << >>
  /\ active \in [Windows -> Nat \ {0}]
  /\ editor \in [Windows -> Texts]
  /\ next \in [Windows -> Nat \ {0}]
  /\ dialog \in [Windows -> Nat]
  /\ failed \subseteq {w \in Windows : ~Up(w)}

\* As long as no file is opened with MaxTabs tabs, no two tabs of a window have
\* the same id, though the other windows give out the same numbers and
\* nextTabId is counted again only when the number of tabs changes.
UniqueIds ==
  ~over => \A w \in Windows : IsInjective([k \in DOMAIN tabs[w] |-> tabs[w][k].id])

\* All windows have the same tabs whenever no event is under way, also after users have
\* acted in several of them before the events of the others came.
Quiet == \A w \in Windows : inbox[w] = << >>
Agree == \A v, w \in Windows : Up(v) /\ Up(w) => tabs[v] = tabs[w]
CalmAgree == Quiet => Agree

\* The copy of tab i that window w merges has no stamp.
TakenUnstamped(w, i) ==
  now' = now /\ inbox[w] # << >> /\ \E v \in Range(Head(inbox[w])) : v.id = i /\ v.lastModified = 0

\* The text of a tab in a window gives way only to one that was typed, shown or opened
\* later, and its stamp grows with it.  Excused: a copy without a stamp is taken whatever
\* text it replaces, under the stamp of that text, so that an older text may stay for good.
NewestText ==
  [][~over' => \A w \in Windows : \A t \in Range(tabs[w]), u \in Range(tabs'[w]) :
       t.id = u.id =>
         \/ u.lastModified > t.lastModified
         \/ u.lastModified = t.lastModified /\ (u.query = t.query \/ TakenUnstamped(w, t.id))]_vars

\* A window fails for want of a tab only when the dialog is answered for a tab
\* that the shortcut, used with the dialog open, has made the last one.  (Beyond
\* MaxTabs two tabs may have one id; the shortcut then closes both.)
LastTabByDialog ==
  [][~over' => \A w \in failed' \ failed : dialog[w] # 0 /\ tabs[w][1].id = dialog[w]]_vars

\* Every copy of a tab has a stamp, which no other content of the tab has.
Copies ==
  UNION {Range(tabs[w]) : w \in Windows}
    \cup UNION {Range(s) : s \in UNION {Range(inbox[w]) : w \in Windows}}
Stamped ==
  \A t \in Copies : /\ t.lastModified # 0
                    /\ \A u \in Copies : t.id = u.id /\ t.lastModified = u.lastModified => t = u

-----------------------------------------------------------------------------
(* What a comment says, and the code does not do. *)

\* useTabManager.ts: "Cross-window sync with last-write-wins": when the users
\* have left, the windows come to agree on the tabs.
DocLastWriteWins ==
  now = MaxActs ~> Quiet /\ Agree

\* The tabs of a window have distinct ids, whatever windows merge.
TabsWellFormed == TypeOK /\ UniqueIds

\* A text gives way only to a later one (or to a copy without a stamp), and only the
\* dialog closes the last tab.
NoTabLost == NewestText /\ LastTabByDialog
=============================================================================
