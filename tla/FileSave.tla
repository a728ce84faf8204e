------------------------------- MODULE FileSave -------------------------------
(***************************************************************************)
(* Tabs opened from files: typing, changing tab, the auto-save timer of    *)
(* useAutoSave, saving by hand (useFileOperations), the conflict dialog    *)
(* (useFileConflict) and programs that change the files on the disk.       *)
(*                                                                         *)
(* There is one editor.  Every save takes its text from it when it starts, *)
(* then awaits the disk; the user keeps typing, changes tab and starts     *)
(* other saves meanwhile.  An action is the code between two awaits, with  *)
(* the effects React runs after it: the auto-save effect sets its timer    *)
(* again when one of its dependencies has changed, and only then.          *)
(***************************************************************************)
EXTENDS Naturals, FiniteSets

CONSTANTS Tabs,     \* the open tabs; the file of a tab has the tab's name
          NewFiles, \* other files one can save as
          Saves,    \* the calls of the save handlers
          MaxClock  \* bounds typing and outside changes

ASSUME FileAssumption ==
  /\ "none" \notin Tabs
  /\ MaxClock \in Nat

VARIABLES
  active,   \* activeTabId
  editor,   \* the text in the editor
  query,    \* tab.query
  dirty,    \* tab.isDirty
  known,    \* tab.fileLastModified, 0 for undefined
  file,     \* tab.fileHandleId
  disk,     \* the text of each file and its lastModified
  clock,    \* the time, which moves when a text is made or a file written
  timers,   \* the closures of the auto-save timers that are pending
  conflict, \* the tab the conflict dialog is about
  op,       \* each save: what it awaits and the variables it holds
  crossed,  \* history: an answer to a dialog hit a tab that was not its own
  due       \* history: the active tab, if no auto-save of it has started since its
            \* mark appeared

tabs == <<query, dirty, known, file>>
world == <<disk, clock>>
core == <<active, editor, tabs, world, timers, conflict, op, crossed>>
vars == <<core, due>>

None == "none"
Files == Tabs \cup NewFiles

\* A text is known by the file it descends from and the time it was made.
Texts == [of : Files, n : Nat]
Closures == [tab : Tabs, file : Files, known : Nat]

\* What the saves of each kind may await.
Awaits == [auto |-> {"check", "write", "stat"},
           manual |-> {"write", "stat", "dialog", "named"},
           overwrite |-> {"write", "stat"},
           reload |-> {"read"},
           saveAs |-> {"dialog", "named"}]

Idle == {[at |-> "new"], [at |-> "over"]}
Jobs == [at : UNION {Awaits[k] : k \in DOMAIN Awaits}, kind : DOMAIN Awaits,
         tab : Tabs, file : Files, known : Nat, text : Texts, view : Tabs, seen : Nat]

Types ==
  /\ active \in Tabs
  /\ editor \in Texts
  /\ query \in [Tabs -> Texts]
  /\ dirty \in [Tabs -> BOOLEAN]
  /\ known \in [Tabs -> Nat]
  /\ file \in [Tabs -> Files]
  /\ disk \in [Files -> [text : Texts, stamp : Nat \ {0}]]
  /\ clock \in Nat
  /\ timers \subseteq Closures
  /\ conflict \in Tabs \cup {None}
  /\ op \in [Saves -> Idle \cup Jobs]
  /\ \A s \in Saves : op[s] \in Jobs => op[s].at \in Awaits[op[s].kind]
  /\ crossed \in BOOLEAN

TypeOK == Types /\ due \in Tabs \cup {None}

First(f) == [of |-> f, n |-> 1]

Init ==
  /\ active \in Tabs
  /\ editor = First(active)
  /\ query = [t \in Tabs |-> First(t)]
  /\ dirty = [t \in Tabs |-> FALSE]
  /\ known = [t \in Tabs |-> 1]
  /\ file = [t \in Tabs |-> t]
  /\ disk = [f \in Files |-> [text |-> First(f), stamp |-> 1]]
  /\ clock = 1
  /\ timers = {}
  /\ conflict = None
  /\ op = [s \in Saves |-> [at |-> "new"]]
  /\ crossed = FALSE
  /\ due = None

-----------------------------------------------------------------------------
(* The auto-save effect. *)

Closure(t) == [tab |-> t, file |-> file[t], known |-> known[t]]

\* A bug that must be noticed: isDirty is missing in the dependencies.
Deps_NoDirty == <<active, file[active], known[active]>>

\* The dependencies that change; the text is not one of them.
Deps == <<active, dirty[active], file[active], known[active]>>

\* A bug that must be noticed: no clearTimeout in the cleanup.
Rearm_NoClear ==
  timers' = IF Deps' = Deps THEN timers
            ELSE timers \cup (IF dirty'[active'] THEN {Closure(active)'} ELSE {})

Rearm ==
  timers' = IF Deps' = Deps THEN timers
            ELSE IF dirty'[active'] THEN {Closure(active)'}
            ELSE {}

-----------------------------------------------------------------------------
(* The editor. *)

\* handleEditorChange for tab t, which finds texts q and marks d.  Monaco calls
\* it for every change of the model, also for those setValue makes.
EditorChange(t, v, q, d) ==
  /\ editor' = v
  /\ query' = [q EXCEPT ![t] = v]
  /\ dirty' = [d EXCEPT ![t] = v # q[t]]

Type ==
  /\ clock < MaxClock
  /\ clock' = clock + 1
  /\ EditorChange(active, [of |-> editor.of, n |-> clock'], query, dirty)
  /\ UNCHANGED <<active, known, file, disk, conflict, op, crossed>>
  /\ Rearm

\* A bug that must be noticed: the editor keeps the text of the other tab.
SwitchTab_NoSync(t) ==
  /\ active' = t
  /\ UNCHANGED <<editor, tabs, world, conflict, op, crossed>>
  /\ Rearm

\* setActiveTabId and the effect that puts the tab's text in the editor.
SwitchTab(t) ==
  /\ t # active
  /\ active' = t
  /\ EditorChange(t, query[t], query, dirty)
  /\ UNCHANGED <<known, file, world, conflict, op, crossed>>
  /\ Rearm

\* Another program changes a file.
Outside(f) ==
  /\ clock < MaxClock
  /\ clock' = clock + 1
  /\ disk' = [disk EXCEPT ![f] = [text |-> [@.text EXCEPT !.n = clock'],
                                  stamp |-> clock']]
  /\ UNCHANGED <<active, editor, tabs, timers, conflict, op, crossed>>

-----------------------------------------------------------------------------
(* The handlers, to their first await. *)

Start(s, kind, at, c) ==
  /\ op[s].at = "new"
  /\ op' = [op EXCEPT ![s] =
       [at |-> at, kind |-> kind, tab |-> c.tab, file |-> c.file, known |-> c.known,
        text |-> editor, view |-> active, seen |-> 0]]

\* The timer of the auto-save fires.
Fire(s) ==
  \E c \in timers :
    /\ Start(s, "auto", "check", c)
    /\ timers' = timers \ {c}
    /\ UNCHANGED <<active, editor, tabs, world, conflict, crossed>>

\* handleSaveFile.
SaveFile(s) ==
  /\ Start(s, "manual", "write", Closure(active))
  /\ UNCHANGED <<active, editor, tabs, world, timers, conflict, crossed>>

\* An answer of the user to the conflict dialog, which stays open meanwhile.
Answer(s, kind, at) ==
  /\ conflict # None
  /\ Start(s, kind, at, Closure(conflict))
  /\ UNCHANGED <<active, editor, tabs, world, timers, conflict>>

\* The text is the editor's, whichever tab it shows.
Overwrite(s) ==
  /\ Answer(s, "overwrite", "write")
  /\ crossed' = (crossed \/ conflict # active)

SaveAs(s) ==
  /\ Answer(s, "saveAs", "dialog")
  /\ crossed' = (crossed \/ conflict # active)

Reload(s) ==
  /\ Answer(s, "reload", "read")
  /\ UNCHANGED crossed

CancelConflict ==
  /\ conflict # None
  /\ conflict' = None
  /\ UNCHANGED <<active, editor, tabs, world, timers, op, crossed>>

-----------------------------------------------------------------------------
(* The answers of the disk and of the file picker. *)

GoTo(s, at) == op' = [op EXCEPT ![s].at = at]
Over(s) == op' = [op EXCEPT ![s] = [at |-> "over"]]

\* setConflict(null), which only the handlers of the dialog do.
CloseDialog(s) ==
  conflict' = IF op[s].kind \in {"overwrite", "saveAs", "reload"} THEN None ELSE conflict

\* A bug that must be noticed: the conflict is shown, but the save goes on.
Check_NoReturn(s) ==
  /\ op[s].at = "check"
  /\ op' = [op EXCEPT ![s].at = "write", ![s].seen = disk[op[s].file].stamp]
  /\ conflict' = IF op[s].known # 0 /\ disk[op[s].file].stamp > op[s].known
                 THEN op[s].tab ELSE conflict
  /\ UNCHANGED <<active, editor, tabs, world, timers, crossed>>

\* The file was changed since the tab's last save or load, or was not.
Check(s) ==
  /\ op[s].at = "check"
  /\ IF op[s].known # 0 /\ disk[op[s].file].stamp > op[s].known
     THEN conflict' = op[s].tab /\ Over(s)
     ELSE /\ op' = [op EXCEPT ![s].at = "write", ![s].seen = disk[op[s].file].stamp]
          /\ UNCHANGED conflict
  /\ UNCHANGED <<active, editor, tabs, world, timers, crossed>>

\* There is no handle, or no stamp: "better to overwrite than lose data".
CheckFails(s) ==
  /\ op[s].at = "check"
  /\ GoTo(s, "write") \/ Over(s)
  /\ UNCHANGED <<active, editor, tabs, world, timers, conflict, crossed>>

Put(f, text) ==
  /\ clock' = clock + 1
  /\ disk' = [disk EXCEPT ![f] = [text |-> text, stamp |-> clock']]

\* writeFile: the new contents are there when the stream is closed.
Write(s) ==
  /\ op[s].at = "write"
  /\ Put(op[s].file, op[s].text)
  /\ GoTo(s, "stat")
  /\ UNCHANGED <<active, editor, tabs, timers, conflict, crossed>>

\* writeFile returns false: no handle, no permission, or an error.
WriteFails(s) ==
  /\ op[s].at = "write"
  /\ IF op[s].kind = "manual" THEN GoTo(s, "dialog") ELSE Over(s)
  /\ CloseDialog(s)
  /\ UNCHANGED <<active, editor, tabs, world, timers, crossed>>

\* updateTab after a save.
MarkSaved(s, f, stamp) ==
  /\ dirty' = [dirty EXCEPT ![op[s].tab] = FALSE]
  /\ known' = [known EXCEPT ![op[s].tab] = stamp]
  /\ file' = [file EXCEPT ![op[s].tab] = f]
  /\ CloseDialog(s)
  /\ Over(s)
  /\ UNCHANGED <<active, editor, query, world, crossed>>
  /\ Rearm

\* The stamp after the save: the disk's, which may be a later change's.
Stat(s) ==
  /\ op[s].at = "stat"
  /\ MarkSaved(s, file[op[s].tab], disk[op[s].file].stamp)

\* An exception that leaves the handler.
Throw(s) ==
  /\ Over(s)
  /\ UNCHANGED <<active, editor, tabs, world, timers, conflict, crossed>>

\* No stamp: undefined is remembered; handleOverwrite does not catch it.
StatFails(s) ==
  /\ op[s].at = "stat"
  /\ IF op[s].kind = "overwrite" THEN Throw(s)
     ELSE MarkSaved(s, file[op[s].tab], 0)

\* showSaveFilePicker returns a file, perhaps another tab's, and it is written.
Pick(s, f) ==
  /\ op[s].at = "dialog"
  /\ Put(f, op[s].text)
  /\ op' = [op EXCEPT ![s].at = "named", ![s].file = f]
  /\ crossed' = (crossed \/ \E t \in Tabs \ {op[s].tab} :
       \/ file[t] = f
       \/ \E r \in Saves : op[r].at \notin {"new", "over"} /\ op[r].tab = t /\ op[r].file = f)
  /\ UNCHANGED <<active, editor, tabs, timers, conflict>>

\* saveSQLFile returns null: cancelled, or the file could not be written.
PickNone(s) ==
  /\ op[s].at = "dialog"
  /\ Over(s)
  /\ CloseDialog(s)
  /\ UNCHANGED <<active, editor, tabs, world, timers, crossed>>

\* The handle is stored: the file is the tab's.
Named(s) ==
  /\ op[s].at = "named"
  /\ MarkSaved(s, op[s].file, disk[op[s].file].stamp)

\* handleSaveFile keeps the old stamp when there is none; other failures leave
\* the handler.
NamedFails(s) ==
  /\ op[s].at = "named"
  /\ \/ op[s].kind = "manual" /\ MarkSaved(s, op[s].file, known[op[s].tab])
     \/ Throw(s)

\* handleReload: updateTab, then setValue if its tab was active at the click.
Read(s) ==
  LET t == op[s].tab
      v == disk[op[s].file].text
      q == [query EXCEPT ![t] = v]
      d == [dirty EXCEPT ![t] = FALSE]
  IN /\ op[s].at = "read"
     /\ known' = [known EXCEPT ![t] = disk[op[s].file].stamp]
     /\ IF op[s].view = t
        THEN EditorChange(active, v, q, d)
        ELSE query' = q /\ dirty' = d /\ UNCHANGED editor
     /\ crossed' = (crossed \/ (op[s].view = t) # (active = t))
     /\ CloseDialog(s)
     /\ Over(s)
     /\ UNCHANGED <<active, file, world>>
     /\ Rearm

ReadFails(s) ==
  /\ op[s].at = "read"
  /\ CloseDialog(s)
  /\ Over(s)
  /\ UNCHANGED <<active, editor, tabs, world, timers, crossed>>

-----------------------------------------------------------------------------
Step ==
  \/ Type \/ CancelConflict
  \/ \E t \in Tabs : SwitchTab(t)
  \/ \E f \in Files : Outside(f)
  \/ \E s \in Saves :
       \/ Fire(s) \/ SaveFile(s) \/ Overwrite(s) \/ SaveAs(s) \/ Reload(s)
       \/ Check(s) \/ CheckFails(s) \/ Write(s) \/ WriteFails(s) \/ Stat(s) \/ StatFails(s)
       \/ \E f \in Files : Pick(s, f)
       \/ PickNone(s) \/ Named(s) \/ NamedFails(s) \/ Read(s) \/ ReadFails(s)

\* An auto-save of tab t starts.
Tried(t) == \E s \in Saves : op[s].at = "new" /\ op'[s].at = "check" /\ op'[s].tab = t

\* The mark appears in the active tab, stays until a save is tried, or goes.
Noted ==
  due' = IF ~dirty'[active'] THEN None
         ELSE IF active' # active \/ ~dirty[active] THEN active'
         ELSE IF Tried(active) THEN None
         ELSE due

Next == Step /\ Noted

Spec == Init /\ [][Next]_vars

\* A timer that is not cleared fires.
FairSpec == Spec /\ WF_core(\E s \in Saves : Fire(s))

-----------------------------------------------------------------------------
(* What holds. *)

\* No pending timer is stale: it is for the active tab, which is dirty, and
\* holds that tab's file and stamp as they are now.
TimerIsCurrent ==
  \A c \in timers : dirty[active] /\ c = Closure(active)

\* From the moment the mark appears in the active tab until its timer has fired, a
\* timer for what the tab is now is pending, whatever saves end meanwhile.
DueIsArmed ==
  due # None => due = active /\ dirty[active] /\ timers = {Closure(active)}

\* As long as no dialog is answered for another tab than the one it is about,
\* no tab and no file ever holds the text of another tab, whatever saves
\* overlap and whenever the user changes tab.
OwnText ==
  ~crossed => \A t \in Tabs : query[t].of = t /\ disk[file[t]].text.of = t

\* ... and the editor shows the text of the active tab.
EditorInSync ==
  ~crossed => editor = query[active]

\* An auto-save replaces a change the tab does not know of only if the change
\* came after the save looked for one, or could not look.
AutoSaveHeeds ==
  [][\A s \in Saves :
       op[s].at = "write" /\ op[s].kind = "auto" /\ op'[s].at = "stat" /\ op[s].known # 0
         => LET stamp == disk[op[s].file].stamp
            IN stamp <= op[s].known \/ stamp > op[s].seen]_vars

\* Every time the mark appears in the active tab, an auto-save of this tab starts
\* afterwards, unless the user leaves the tab or the mark goes before (or no save
\* is left, the bound).  One is all: it may fail, and is not tried again.
DirtyIsTried ==
  \A t \in Tabs : due = t ~> due # t \/ \A s \in Saves : op[s].at # "new"

-----------------------------------------------------------------------------
(* What a comment says, and the code does not do. *)

\* useAutoSave.ts: "Saves to file system after 3 seconds of inactivity when
\* save strategy is 'auto'": a text that stays in the active tab, and that is
\* not what is on the disk, is not left there without a save being tried.
DocSavesAfterInactivity ==
  \A t \in Tabs :
    <>[](active = t /\ query[t] # disk[file[t]].text /\ disk[file[t]].stamp <= known[t])
      => <>(\E s \in Saves : op[s].at # "new")

\* The editor shows the active tab, and the timer is armed for what it shows.
EditorAndTimer == TypeOK /\ TimerIsCurrent /\ DueIsArmed /\ EditorInSync
===============================================================================
