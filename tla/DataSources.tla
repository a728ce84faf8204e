---------------------------- MODULE DataSources ----------------------------
(***************************************************************************)
(* The local data sources of one window: the store of                       *)
(* dataSourceStore/store.ts with its persistence, the uploads of            *)
(* useFileUpload.ts, the operations of useFileReload.ts on sources that are *)
(* there, the deletions of useDataSourceActions.ts, the file handles kept   *)
(* in IndexedDB and the databases attached in DuckDB.                       *)
(*                                                                          *)
(* An operation is an async function: a step runs it from one await to the  *)
(* next.  The worker and IndexedDB handle what they are sent in the order   *)
(* it was sent, so a statement takes effect when it is sent and its answer  *)
(* is what the next step of the operation reads.  Sources are numbered in   *)
(* the order they were added, which is the order of the list.               *)
(***************************************************************************)
EXTENDS Integers, Sequences, FiniteSets

CONSTANTS
  Databases, Files,  \* the files a user may add, by name (filePath)
  Aliases, AliasOf,  \* generateDatabaseAlias
  Ops,               \* operations that may be under way at the same time
  None,
  MaxStarts          \* bound: operations started by the user and reloads of handles

ASSUME AliasAssumption == AliasOf \in [Databases -> Aliases]

ASSUME DisjointAssumption == Databases \cap Files = {}

ASSUME NoneAssumption == None \notin Databases \cup Files \cup Ops \cup Aliases

ASSUME BoundAssumption == MaxStarts \in Nat /\ MaxStarts >= 2

VARIABLES
  list,      \* dataSources
  pending,   \* pendingOperations: path -> the operation that is adding it
  intro,     \* the introspections addDataSource has started
  op,        \* the operations under way
  nextId,
  db,        \* DuckDB: alias -> the database attached under it
  handles,   \* IndexedDB: the stored file handles
  stored,    \* localStorage: the saved list
  dirty,     \* the 500 ms timer of the save is running
  starts,
  crossed,   \* history: an operation or an introspection was under way as another began
  faulty,    \* history: an operation failed or was cut off halfway, or a save was lost
  wiped      \* history: the list was cleared while a source was being added

vars == <<list, pending, intro, op, nextId, db, handles, stored, dirty,
          starts, crossed, faulty, wiped>>
rest == <<stored, starts, crossed, wiped>>

Paths == Databases \cup Files
Source == [id : Nat \ {0}, path : Paths, attached : BOOLEAN, named : BOOLEAN, handle : BOOLEAN,
           volatile : BOOLEAN, failed : BOOLEAN, busy : BOOLEAN]
\* attached: isAttached; named: attachedAs is set (to AliasOf[path]); handle:
\* hasFileHandle; failed: restoreFailed or introspectionError; busy: isIntrospecting.
Handle == [id : Nat \ {0}, path : Paths]
New == [attached : BOOLEAN, handle : BOOLEAN, volatile : BOOLEAN]

NoNew == [attached |-> FALSE, handle |-> FALSE, volatile |-> FALSE]
NoOld == [id |-> 0, handle |-> FALSE]
NoOp == [kind |-> "none", at |-> "none", path |-> None, id |-> 0, hid |-> 0, ok |-> FALSE,
         new |-> NoNew, old |-> NoOld, peer |-> None, todo |-> {}]

First(S) == CHOOSE s \in S : \A t \in S : s.id <= t.id
At(p) == {s \in list : s.path = p}
Without(i) == {s \in list : s.id # i}
Has(l, i) == \E s \in l : s.id = i

\* map over the list: S takes the place of the source i, if there is one.
Of(i) == {s \in list : s.id = i}
Updated(i, S) == Without(i) \cup S

-----------------------------------------------------------------------------
(* DuckDB. *)

Holders(p) == {a \in Aliases : db[a] = p}

\* DETACH and what it leaves; an alias that is free is an error of its own.
Detached(A) == [a \in Aliases |-> IF a \in A THEN None ELSE db[a]]

\* ATTACH: it needs a free alias and a file that is not attached, and may fail.
Attaching(p) ==
  {[ok |-> FALSE, db |-> db]} \cup
  (IF db[AliasOf[p]] = None /\ Holders(p) = {}
   THEN {[ok |-> TRUE, db |-> [db EXCEPT ![AliasOf[p]] = p]]} ELSE {})

\* introspectDuckDBSchema attaches a database that is not marked attached, and
\* goes on when DuckDB says that the file is attached; introspectFileSchema
\* only asks.
Introspecting(s) ==
  IF s.path \in Databases /\ ~s.attached /\ Holders(s.path) = {}
  THEN Attaching(s.path)
  ELSE {[ok |-> TRUE, db |-> db]}

-----------------------------------------------------------------------------
(* addDataSource and removeDataSource. *)

SetList(l) == list' = l /\ dirty' = TRUE

Goto(o, r) == op' = [op EXCEPT ![o] = r]

\* The next handle of a reload, one for every name; or the end.
NextHandle(r) ==
  IF r.todo = {} THEN NoOp
  ELSE LET h == First(r.todo) IN
       [r EXCEPT !.at = "permit", !.path = h.path, !.hid = h.id, !.id = 0,
                 !.ok = FALSE, !.new = NoNew, !.old = NoOld,
                 !.todo = {x \in @ : x.path # h.path}]

Ended(r) == IF r.kind = "reload" THEN NextHandle(r) ELSE NoOp

Stores(r) == r.kind = "upload" /\ r.new.handle

\* What an operation does when addDataSource returns the source s; a reload reads
\* its schema once more (ok: the file can be read).
Resumed(r, s, ok, done) ==
  IF Stores(r)
  THEN [r EXCEPT !.id = s.id, !.peer = None, !.at = IF done THEN "store" ELSE "unstored"]
  ELSE IF r.kind = "reload" /\ r.path \in Databases
  THEN [r EXCEPT !.id = s.id, !.peer = None, !.at = "introspect", !.ok = ok]
  ELSE Ended(r)

\* The source is added to l, its introspection starts, and the callers that
\* got the same promise go on with it.
AppendSource(o, r, l) ==
  LET s == [id |-> nextId, path |-> r.path, attached |-> r.new.attached,
            named |-> r.new.attached, handle |-> r.new.handle,
            volatile |-> r.new.volatile, failed |-> FALSE, busy |-> TRUE]
      now == [op EXCEPT ![o] = r]
      callers == {o} \cup {x \in Ops : op[x].at = "joined" /\ op[x].peer = o}
      new == {[id |-> s.id, path |-> s.path] : x \in {y \in callers : Stores(now[y])}}
  IN \E a \in Introspecting(s), done \in IF new = {} THEN {TRUE} ELSE BOOLEAN :
       /\ SetList(l \cup {s})
       /\ db' = a.db
       /\ intro' = intro \cup {[id |-> s.id, ok |-> a.ok]}
       /\ handles' = IF done THEN handles \cup new ELSE handles
       /\ op' = [x \in Ops |-> IF x \in callers THEN Resumed(now[x], s, a.ok, done) ELSE op[x]]
       /\ pending' = [pending EXCEPT ![r.path] = None]
       /\ nextId' = nextId + 1
       /\ faulty' = (faulty \/ ~done)

\* filter: the source i leaves the list; an addDataSource adds its own.
Filtered(o, r, i) ==
  IF r.kind = "remove"
  THEN /\ SetList(Without(i))
       /\ Goto(o, NoOp)
       /\ UNCHANGED <<db, intro, handles, pending, nextId, faulty>>
  ELSE AppendSource(o, r, Without(i))

\* A bug that must be noticed: the handle of a removed source stays.
RemoveHandle_Keeps(o, r, i) ==
  /\ Goto(o, [r EXCEPT !.at = "unhandled"])
  /\ UNCHANGED <<list, dirty, db, intro, handles, nextId, faulty>>

\* removeHandle, whose failure is only logged.
RemoveHandle(o, r, i) ==
  /\ \E done \in BOOLEAN :
       /\ handles' = IF done THEN {h \in handles : h.id # i} ELSE handles
       /\ faulty' = (faulty \/ ~done)
  /\ Goto(o, [r EXCEPT !.at = "unhandled"])
  /\ UNCHANGED <<list, dirty, db, intro, nextId>>

\* removeDataSource, called with the source s of the list; p: pendingOperations.
\* The DETACH goes to the active connector, which may be another one; a failure
\* is only logged.
Remove(o, r, s, p) ==
  LET q == [r EXCEPT !.old = [id |-> s.id, handle |-> s.handle]] IN
  \/ /\ s.attached
     /\ \E done \in BOOLEAN :
          /\ db' = IF done THEN Detached({AliasOf[s.path]}) ELSE db
          /\ faulty' = (faulty \/ ~done)
     /\ Goto(o, [q EXCEPT !.at = "detached"])
     /\ pending' = p
     /\ UNCHANGED <<list, dirty, intro, handles, nextId>>
  \/ /\ ~s.attached /\ s.handle
     /\ RemoveHandle(o, q, s.id)
     /\ pending' = p
  \/ /\ ~s.attached /\ ~s.handle
     /\ Filtered(o, r, s.id)

\* A bug that must be noticed: pendingOperations is not asked.
AddSource_Again(o, r) ==
  \/ At(r.path) = {} /\ AppendSource(o, r, list)
  \/ At(r.path) # {} /\ Remove(o, r, First(At(r.path)), [pending EXCEPT ![r.path] = o])

AddSource(o, r) ==
  \/ /\ pending[r.path] # None
     /\ Goto(o, [r EXCEPT !.at = "joined", !.peer = pending[r.path]])
     /\ UNCHANGED <<list, dirty, db, intro, handles, pending, nextId, faulty>>
  \/ pending[r.path] = None /\ At(r.path) = {} /\ AppendSource(o, r, list)
  \/ /\ pending[r.path] = None /\ At(r.path) # {}
     /\ Remove(o, r, First(At(r.path)), [pending EXCEPT ![r.path] = o])

\* removeDataSource goes on after its DETACH and after its removeHandle.
OldDetached(o) ==
  LET r == op[o] IN
  /\ r.at = "detached"
  /\ IF r.old.handle THEN RemoveHandle(o, r, r.old.id) /\ UNCHANGED pending
                     ELSE Filtered(o, r, r.old.id)

OldUnhandled(o) ==
  /\ op[o].at = "unhandled"
  /\ Filtered(o, op[o], op[o].old.id)

-----------------------------------------------------------------------------
(* introspectSchema. *)

\* It returns at once if the source has left the list; l is the list by then.
IntrospectSchema(o, r, l) ==
  IF Has(l, r.id)
  THEN \E a \in Introspecting(CHOOSE s \in l : s.id = r.id) :
         /\ db' = a.db
         /\ Goto(o, [r EXCEPT !.at = "introspect", !.ok = a.ok])
  ELSE db' = db /\ Goto(o, Ended(r))

MarkIntrospected(s) == [s EXCEPT !.attached = (s.path \in Databases),
                                 !.named = (s.path \in Databases), !.failed = FALSE]
MarkAttached(s) == [s EXCEPT !.attached = TRUE, !.named = TRUE, !.failed = FALSE]
MarkFailed(s) == [s EXCEPT !.attached = FALSE, !.failed = TRUE]
MarkRestored(s) == [s EXCEPT !.failed = FALSE]

\* The introspection that addDataSource started is over.
Introspected(i) ==
  /\ \/ /\ i.ok
        /\ SetList(Updated(i.id,
             {[MarkIntrospected(s) EXCEPT !.busy = FALSE] : s \in Of(i.id)}))
        /\ UNCHANGED faulty
     \/ /\ SetList(Updated(i.id,
             {[s EXCEPT !.failed = TRUE, !.busy = FALSE] : s \in Of(i.id)}))
        /\ faulty' = (faulty \/ i.ok)
  /\ intro' = intro \ {i}
  /\ UNCHANGED <<pending, op, nextId, db, handles, rest>>

-----------------------------------------------------------------------------
(* What the user starts. *)

\* An operation takes a place of op that is free; the places are alike.
FirstOp == CHOOSE o \in Ops : TRUE
Free == CHOOSE o \in Ops : op[o] = NoOp

Start(o) ==
  /\ op[o] = NoOp /\ o = Free
  /\ starts < MaxStarts
  /\ starts' = starts + 1
  /\ crossed' = (crossed \/ intro # {} \/ \E x \in Ops : op[x] # NoOp)
  /\ UNCHANGED <<stored, wiped>>

\* It waits for its first answer, and has changed nothing else.
Begin(o, r) ==
  /\ Start(o)
  /\ Goto(o, r)
  /\ UNCHANGED <<list, pending, intro, nextId, db, handles, dirty, faulty>>

Operation(k, a, p) == [NoOp EXCEPT !.kind = k, !.at = a, !.path = p]

\* processFiles, for one file: handle says whether the browser gave a handle.
Upload(o, p, drag) ==
  Begin(o, [Operation("upload", "register", p) EXCEPT
              !.new = [attached |-> FALSE, handle |-> ~drag, volatile |-> drag]])

\* handleReloadFile: any file is picked in place of one in the list.
ReloadFile(o, p) ==
  /\ \E s \in list : s.path \in Files
  /\ Begin(o, Operation("replace", "register", p))

\* handleReattachDatabase asks for the stored handle, ...
Reattach(o, s) ==
  /\ s.attached
  /\ [id |-> s.id, path |-> s.path] \in handles
  /\ Begin(o, [Operation("reattach", "register", s.path) EXCEPT !.id = s.id])

\* ... and handleRestoreFileAccess too, which can do without.
RestoreAccess(o, s) ==
  /\ s.failed
  /\ Begin(o, [Operation("restore", "ask", s.path) EXCEPT
                 !.id = s.id, !.ok = (\E h \in handles : h.id = s.id)])

\* handleToggleWriteMode: DETACH.
ToggleWriteMode(o, s) ==
  /\ s.attached
  /\ Start(o)
  /\ db' = Detached({AliasOf[s.path]})
  /\ Goto(o, [Operation("toggle", "detach", s.path) EXCEPT
                !.id = s.id, !.ok = (db[AliasOf[s.path]] # None)])
  /\ UNCHANGED <<list, pending, intro, nextId, handles, dirty, faulty>>

\* Refresh Metadata, offered for files and attached databases.
Refresh(o, s) ==
  /\ s.attached \/ s.path \in Files
  /\ Start(o)
  /\ IntrospectSchema(o, [Operation("refresh", "introspect", s.path) EXCEPT !.id = s.id], list)
  /\ UNCHANGED <<list, pending, intro, nextId, handles, dirty, faulty>>

DeleteFile(o, s) ==
  /\ s.path \in Files
  /\ Start(o)
  /\ Remove(o, Operation("remove", "none", s.path), s, pending)

\* handleDatabaseDelete(attachedAs or name): the first source of that alias is
\* detached if it is marked attached, and then removed.
DeleteDatabase(o, s) ==
  LET t == IF s.named
           THEN First({x \in list : x.named /\ AliasOf[x.path] = AliasOf[s.path]}) ELSE s IN
  /\ s.path \in Databases
  /\ Start(o)
  /\ \/ /\ t.attached
        /\ db' = Detached({AliasOf[t.path]})
        /\ Goto(o, [Operation("delete", "detach", t.path) EXCEPT
                      !.id = t.id, !.ok = (db[AliasOf[t.path]] # None)])
        /\ UNCHANGED <<list, pending, intro, nextId, handles, dirty, faulty>>
     \/ /\ ~t.attached
        /\ Remove(o, Operation("remove", "none", t.path), t, pending)

\* handleClearFileHandles asks for the attached databases; isClearingDataSources
\* lets one through at a time.
Clear(o) ==
  /\ \A x \in Ops : op[x].kind # "clear"
  /\ Begin(o, [Operation("clear", "list", None) EXCEPT
                 !.todo = {a \in Aliases : db[a] # None}])

-----------------------------------------------------------------------------
(* The steps of an upload and of a replaced file. *)

Is(o, k, a) == op[o].kind = k /\ op[o].at = a

\* The operation o goes on, or ends, without another change.
Quietly(o, r) ==
  /\ Goto(o, r)
  /\ UNCHANGED <<list, dirty, db, intro, handles, pending, nextId, faulty, rest>>

Detaches(o, r, A) ==
  /\ db' = Detached(A)
  /\ Goto(o, r)
  /\ UNCHANGED <<list, dirty, intro, handles, pending, nextId, faulty, rest>>

Attaches(o) ==
  /\ \E a \in Attaching(op[o].path) :
       /\ db' = a.db
       /\ Goto(o, [op[o] EXCEPT !.at = "attach", !.ok = a.ok])
  /\ UNCHANGED <<list, dirty, intro, handles, pending, nextId, faulty, rest>>

\* The file is registered, or not; a database takes the place of what is
\* attached under its alias (detachDatabaseByAlias).
UploadRegistered(o) ==
  /\ Is(o, "upload", "register")
  /\ \/ Quietly(o, NoOp)
     \/ /\ op[o].path \in Databases
        /\ Detaches(o, [op[o] EXCEPT !.at = "detach"], {AliasOf[op[o].path]})
     \/ /\ op[o].path \in Files
        /\ AddSource(o, op[o])
        /\ UNCHANGED rest

UploadDetached(o) == Is(o, "upload", "detach") /\ Attaches(o)

\* A bug that must be noticed: the new source is not marked as attached.
UploadAttached_Unmarked(o) ==
  /\ Is(o, "upload", "attach")
  /\ AddSource(o, [op[o] EXCEPT !.new.handle = @ /\ op[o].ok])
  /\ UNCHANGED rest

\* The source is added without a handle if ATTACH has failed.
UploadAttached(o) ==
  /\ Is(o, "upload", "attach")
  /\ AddSource(o, [op[o] EXCEPT !.new.attached = op[o].ok, !.new.handle = @ /\ op[o].ok])
  /\ UNCHANGED rest

\* The handle is stored; if it could not be, the catch adds a database again.
UploadStored(o) == Is(o, "upload", "store") /\ Quietly(o, NoOp)

UploadUnstored(o) ==
  /\ Is(o, "upload", "unstored")
  /\ IF op[o].path \in Databases
     THEN AddSource(o, [op[o] EXCEPT !.new = [NoNew EXCEPT !.volatile = op[o].new.volatile],
                                     !.old = NoOld, !.id = 0]) /\ UNCHANGED rest
     ELSE Quietly(o, NoOp)

ReplaceRegistered(o) ==
  /\ Is(o, "replace", "register")
  /\ \/ Quietly(o, NoOp)
     \/ op[o].path \in Databases /\ Attaches(o)
     \/ op[o].path \in Files /\ AddSource(o, op[o]) /\ UNCHANGED rest

ReplaceAttached(o) ==
  /\ Is(o, "replace", "attach")
  /\ AddSource(o, [op[o] EXCEPT !.new.attached = op[o].ok])
  /\ UNCHANGED rest

-----------------------------------------------------------------------------
(* The steps of the operations on a source that is there. *)

\* updateDataSource, then introspectSchema (the update comes first).
UpdateAndIntrospect(o, r, l) ==
  /\ SetList(l)
  /\ IntrospectSchema(o, r, l)
  /\ UNCHANGED <<intro, handles, pending, nextId, faulty, rest>>

\* The catch of a reload.  The handle of a file that is gone is removed first.
ReloadFails(o, r) ==
  LET found == At(r.path) IN
  /\ \/ found # {} /\ SetList(Updated(First(found).id, {MarkFailed(First(found))}))
     \/ found = {} /\ UNCHANGED <<list, dirty>>
  /\ Goto(o, NextHandle(r))
  /\ UNCHANGED <<db, intro, handles, pending, nextId, rest>>

Forget(o, r) ==
  /\ handles' = {h \in handles : h.id # r.hid}
  /\ Goto(o, [r EXCEPT !.at = "forget"])
  /\ UNCHANGED <<list, dirty, db, intro, pending, nextId, rest>>

\* An operation that has lost its file or its database.
Fails(o) ==
  LET r == op[o] IN
  IF r.kind = "reload" THEN ReloadFails(o, r) \/ Forget(o, r)
  ELSE /\ Goto(o, NoOp)
       /\ UNCHANGED <<list, dirty, db, intro, handles, pending, nextId, rest>>

ReloadForgotten(o) ==
  Is(o, "reload", "forget") /\ ReloadFails(o, op[o]) /\ UNCHANGED faulty

\* A bug that must be noticed: the file that was refused stays at the head.
ReloadPermit_Again(o) ==
  /\ Is(o, "reload", "permit")
  /\ Quietly(o, op[o])

\* checkAndRequestPermission
ReloadPermit(o) ==
  /\ Is(o, "reload", "permit")
  /\ \/ ReloadFails(o, op[o]) /\ UNCHANGED faulty
     \/ Quietly(o, [op[o] EXCEPT !.at = "register"])

\* The file is registered (the source of a reload is looked for now), and a
\* database is asked for: is it attached under its alias (isDatabaseAlreadyAttached)?
Registered(o) ==
  LET r == op[o]
      found == At(r.path)
      id == IF r.kind = "reattach" THEN r.id
            ELSE IF found = {} THEN 0 ELSE First(found).id
  IN
  /\ Is(o, "reload", "register") \/ Is(o, "reattach", "register")
  /\ \/ Fails(o) /\ UNCHANGED faulty
     \/ /\ r.path \in Databases
        /\ Quietly(o, [r EXCEPT !.at = "check", !.id = id,
                                !.ok = (db[AliasOf[r.path]] = r.path)])
     \/ /\ r.path \in Files
        /\ Quietly(o, [r EXCEPT !.at = "verify"])

\* A browser that refuses the file of a database that is to be reattached: the
\* source is no longer marked attached, but the database is.
ReattachDenied(o) ==
  /\ Is(o, "reattach", "register")
  /\ SetList(Updated(op[o].id, {[s EXCEPT !.attached = FALSE] : s \in Of(op[o].id)}))
  /\ Goto(o, NoOp)
  /\ faulty' = TRUE
  /\ UNCHANGED <<db, intro, handles, pending, nextId, rest>>

\* The database is there: the source is marked and introspected, or added.
Reattached(o, r) ==
  IF r.id # 0
  THEN UpdateAndIntrospect(o, r, Updated(r.id, {MarkAttached(s) : s \in Of(r.id)}))
  ELSE /\ AddSource(o, [r EXCEPT !.new = [attached |-> TRUE, handle |-> TRUE, volatile |-> FALSE]])
       /\ UNCHANGED rest

Reattaches(o) == op[o].kind \in {"reload", "reattach"}

\* safeDetachDatabase, unless the database is attached already.
Checked(o) ==
  /\ Reattaches(o) /\ op[o].at = "check"
  /\ IF op[o].ok
     THEN Reattached(o, op[o])
     ELSE Detaches(o, [op[o] EXCEPT !.at = "detach"],
                   {AliasOf[op[o].path]} \cup Holders(op[o].path))

MadeRoom(o) == Reattaches(o) /\ op[o].at = "detach" /\ Attaches(o)

AttachAnswered(o) ==
  /\ Reattaches(o) /\ op[o].at = "attach"
  /\ IF op[o].ok THEN Reattached(o, op[o]) ELSE Fails(o) /\ UNCHANGED faulty

\* A data file of a reload is read once before its source is marked or added.
ReloadVerified(o) ==
  LET r == op[o]  found == At(r.path) IN
  /\ Is(o, "reload", "verify")
  /\ \/ Fails(o) /\ UNCHANGED faulty
     \/ /\ found # {}
        /\ SetList(Updated(First(found).id, {MarkRestored(First(found))}))
        /\ Goto(o, NextHandle(r))
        /\ UNCHANGED <<db, intro, handles, pending, nextId, faulty, rest>>
     \/ /\ found = {}
        /\ AddSource(o, [r EXCEPT !.new = [attached |-> FALSE, handle |-> TRUE, volatile |-> FALSE]])
        /\ UNCHANGED rest

ToggleDetached(o) ==
  /\ Is(o, "toggle", "detach")
  /\ IF op[o].ok THEN Attaches(o) ELSE Quietly(o, NoOp)

ToggleAttached(o) ==
  /\ Is(o, "toggle", "attach")
  /\ IF op[o].ok
     THEN UpdateAndIntrospect(o, op[o], list)
     ELSE Quietly(o, NoOp)

\* The stored handle is allowed, or the user is asked for the file.
RestoreAsked(o) ==
  /\ Is(o, "restore", "ask")
  /\ \/ op[o].ok /\ Quietly(o, [op[o] EXCEPT !.at = "register"])
     \/ Quietly(o, [op[o] EXCEPT !.at = "picker"])

RestoreCancelled(o) == Is(o, "restore", "picker") /\ Quietly(o, NoOp)

\* The handle of the file is stored; that of a dragged file outlives its source,
\* which is dropped when the page is reloaded.
RestorePicked(o) ==
  /\ Is(o, "restore", "picker")
  /\ handles' = handles \cup {[id |-> op[o].id, path |-> op[o].path]}
  /\ Goto(o, [op[o] EXCEPT !.at = "register"])
  /\ faulty' = (faulty \/ \E s \in list : s.id = op[o].id /\ s.volatile)
  /\ UNCHANGED <<list, dirty, db, intro, pending, nextId, rest>>

\* A file that cannot be registered after all: its handle may be stored by then.
RestoreRegistered(o) ==
  /\ Is(o, "restore", "register")
  /\ \/ /\ Goto(o, NoOp)
        /\ faulty' = TRUE
        /\ UNCHANGED <<list, dirty, db, intro, handles, pending, nextId, rest>>
     \/ UpdateAndIntrospect(o, op[o], Updated(op[o].id,
          {[MarkRestored(s) EXCEPT !.handle = TRUE] : s \in Of(op[o].id)}))

\* The answers to introspectSchema.  A failure after the database was attached
\* leaves it attached, whatever the source is marked.
SchemaRead(o) ==
  /\ op[o].at = "introspect"
  /\ \/ /\ op[o].ok
        /\ SetList(Updated(op[o].id, {MarkIntrospected(s) : s \in Of(op[o].id)}))
        /\ Goto(o, Ended(op[o]))
        /\ UNCHANGED <<db, intro, handles, pending, nextId, faulty, rest>>
     \/ /\ Fails(o)
        /\ faulty' = (faulty \/ op[o].ok)

DeleteDetached(o) ==
  LET left == {s \in list : s.id = op[o].id} IN
  /\ Is(o, "delete", "detach")
  /\ IF op[o].ok /\ left # {}
     THEN /\ Remove(o, Operation("remove", "none", op[o].path), First(left), pending)
          /\ UNCHANGED rest
     ELSE Quietly(o, NoOp)

\* The databases of the list are detached one by one, then the handles go.
ClearListed(o) ==
  /\ Is(o, "clear", "list")
  /\ \/ \E a \in op[o].todo : Detaches(o, [op[o] EXCEPT !.todo = @ \ {a}], {a})
     \/ /\ op[o].todo = {}
        /\ \/ handles' = {} /\ Goto(o, [op[o] EXCEPT !.at = "clear"])
           \/ handles' = handles /\ Goto(o, NoOp)
        /\ UNCHANGED <<list, dirty, db, intro, pending, nextId, faulty, rest>>

\* clearAllDataSources
Cleared(o) ==
  /\ Is(o, "clear", "clear")
  /\ SetList({})
  /\ pending' = [p \in Paths |-> None]
  /\ stored' = {}
  /\ wiped' = (wiped \/ \E p \in Paths : pending[p] # None)
  /\ Goto(o, NoOp)
  /\ UNCHANGED <<db, intro, handles, nextId, faulty, starts, crossed>>

-----------------------------------------------------------------------------
(* Saving and loading. *)

Save ==
  /\ dirty
  /\ stored' = list
  /\ dirty' = FALSE
  /\ UNCHANGED <<list, pending, intro, op, nextId, db, handles, starts,
                 crossed, faulty, wiped>>

\* loadFromStorage and cleanupDataSources: of the sources of a path the latest
\* stays; those that were dragged in do not.  A file without a handle is marked.
Loaded(l) ==
  {[s EXCEPT !.attached = FALSE, !.failed = (s.path \in Files /\ ~s.handle)] :
     s \in {x \in l : ~x.volatile /\ \A y \in l : y.path = x.path => y.id <= x.id}}

\* The page is reloaded, with the save of beforeunload or without.  DuckDB is
\* new, and the handles are restored.
Restart(flush) ==
  LET saved == IF flush THEN list ELSE stored IN
  /\ starts < MaxStarts
  /\ starts' = starts + 1
  /\ stored' = saved
  /\ list' = Loaded(saved)
  /\ dirty' = FALSE
  /\ faulty' = (faulty \/ (dirty /\ ~flush) \/ \E o \in Ops : Is(o, "restore", "register"))
  /\ pending' = [p \in Paths |-> None]
  /\ intro' = {}
  /\ db' = [a \in Aliases |-> None]
  /\ op' = [x \in Ops |-> IF x = FirstOp
                          THEN NextHandle([NoOp EXCEPT !.kind = "reload", !.todo = handles])
                          ELSE NoOp]
  /\ UNCHANGED <<nextId, handles, crossed, wiped>>

-----------------------------------------------------------------------------

\* What an earlier session has left: nothing, or sources that were uploaded with
\* their handles, one or two.
Earlier ==
  {<<>>} \cup {<<p>> : p \in Paths} \cup {<<p, q>> : p \in Databases, q \in Files}

Left(S, attached) ==
  {[id |-> i, path |-> S[i], attached |-> attached /\ S[i] \in Databases,
    named |-> S[i] \in Databases, handle |-> TRUE, volatile |-> FALSE, failed |-> FALSE,
    busy |-> FALSE] : i \in DOMAIN S}

\* The page is loaded, and the reload of the handles begins, or is over and all
\* databases are attached.
Init ==
  \E S \in Earlier, over \in BOOLEAN :
    /\ list = Left(S, over)
    /\ stored = list
    /\ handles = {[id |-> i, path |-> S[i]] : i \in DOMAIN S}
    /\ nextId = Len(S) + 1
    /\ op = [x \in Ops |-> IF x = FirstOp /\ ~over
                          THEN NextHandle([NoOp EXCEPT !.kind = "reload", !.todo = handles])
                          ELSE NoOp]
    /\ db = [a \in Aliases |->
              IF \E s \in list : s.attached /\ AliasOf[s.path] = a
              THEN (CHOOSE s \in list : s.attached /\ AliasOf[s.path] = a).path ELSE None]
    /\ pending = [p \in Paths |-> None]
    /\ intro = {}
    /\ dirty = FALSE
    /\ starts = IF over /\ Len(S) < 2 THEN 1 ELSE 2
    /\ crossed = FALSE /\ faulty = FALSE /\ wiped = FALSE

UserStarts(o) ==
  \/ \E p \in Paths, drag \in BOOLEAN : Upload(o, p, drag)
  \/ \E p \in Paths : ReloadFile(o, p)
  \/ \E s \in list : \/ Reattach(o, s) \/ RestoreAccess(o, s) \/ ToggleWriteMode(o, s)
                     \/ Refresh(o, s) \/ DeleteFile(o, s) \/ DeleteDatabase(o, s)
  \/ Clear(o)

\* What the operation does without the user.
Step(o) ==
  \/ UploadRegistered(o) \/ UploadDetached(o) \/ UploadAttached(o)
  \/ UploadStored(o) \/ UploadUnstored(o)
  \/ ReplaceRegistered(o) \/ ReplaceAttached(o)
  \/ (OldDetached(o) \/ OldUnhandled(o)) /\ UNCHANGED rest
  \/ ReloadPermit(o) \/ ReloadForgotten(o) \/ ReloadVerified(o)
  \/ Registered(o) \/ ReattachDenied(o) \/ Checked(o) \/ MadeRoom(o) \/ AttachAnswered(o)
  \/ ToggleDetached(o) \/ ToggleAttached(o)
  \/ RestoreAsked(o) \/ RestoreRegistered(o)
  \/ SchemaRead(o) \/ DeleteDetached(o) \/ ClearListed(o) \/ Cleared(o)

Introspects == \E i \in intro : Introspected(i)

Next ==
  \/ \E o \in Ops : \/ UserStarts(o) \/ Step(o) \/ RestoreCancelled(o) \/ RestorePicked(o)
  \/ \E flush \in BOOLEAN : Restart(flush)
  \/ Introspects \/ Save

Spec == Init /\ [][Next]_vars

\* The event loop does not stand still while an answer of the worker or of
\* IndexedDB is due or the timer of a save is running; users need do nothing.
FairSpec == Spec /\ WF_vars((\E o \in Ops : Step(o)) \/ Introspects \/ Save)

-----------------------------------------------------------------------------
(* Properties. *)

OpType ==
  [kind : {"none", "upload", "replace", "reload", "reattach", "toggle", "refresh",
           "restore", "delete", "remove", "clear"},
   at : {"none", "register", "detach", "attach", "store", "unstored", "joined", "detached",
         "unhandled", "permit", "check", "verify", "forget", "introspect", "ask", "picker",
         "list", "clear"},
   path : Paths \cup {None}, id : 0 .. nextId - 1, hid : 0 .. nextId - 1, ok : BOOLEAN,
   new : New, old : [id : 0 .. nextId - 1, handle : BOOLEAN], peer : Ops \cup {None},
   todo : SUBSET (Handle \cup Aliases)]

\* Every id in the list, in a stored handle or in the saved list was given out,
\* once (Date.now() and a random suffix); a source is marked attached only with
\* its alias known, and only databases are.
TypeOK ==
  /\ list \subseteq Source /\ stored \subseteq Source /\ handles \subseteq Handle
  /\ \A s \in list \cup stored \cup handles \cup intro : s.id < nextId
  /\ \A s, t \in list : s.id = t.id => s = t
  /\ \A s \in list : s.attached => s.named /\ s.path \in Databases
  /\ pending \in [Paths -> Ops \cup {None}]
  /\ intro \subseteq [id : Nat \ {0}, ok : BOOLEAN]
  /\ op \in [Ops -> OpType]
  /\ db \in [Aliases -> Databases \cup {None}]
  /\ nextId \in Nat \ {0}
  /\ {dirty, crossed, faulty, wiped} \subseteq BOOLEAN
  /\ starts \in 0 .. MaxStarts

Calm == ~crossed /\ ~faulty

\* A file is in the list once, whatever uploads, reloads and removals overlap
\* (pendingOperations and the replacement in addDataSource), unless the list was
\* cleared while a source was being added, which forgets pendingOperations.
UniquePaths == wiped \/ \A s, t \in list : s.path = t.path => s = t

\* While operations are left alone and nothing fails halfway, every stored file
\* handle is that of a source in the list: a removed file does not come back
\* when the handles are restored after a reload of the page.
CalmHandles ==
  Calm => \A h \in handles : \E s \in list : s.id = h.id /\ s.path = h.path

\* While operations are left alone and nothing fails halfway, a database that is
\* attached when all is quiet is one of a source in the list, so that the user
\* can see and detach it.
CalmDatabases ==
  (Calm /\ intro = {} /\ \A o \in Ops : op[o] = NoOp)
     => \A a \in Aliases : db[a] # None => At(db[a]) # {}

\* A database that is uploaded by itself, from a file with a handle, and is not
\* in the list yet, is attached, marked so and can be restored when the upload
\* says so (the toast of handleDuckDBDatabase).
UploadAttaches ==
  [][\A o \in Ops :
       (/\ Is(o, "upload", "store") /\ op'[o] = NoOp /\ starts' = starts
        /\ Calm /\ op[o].path \in Databases /\ op[o].old = NoOld)
       => /\ db'[AliasOf[op[o].path]] = op[o].path
          /\ \E s \in list' : s.id = op[o].id /\ s.attached /\ s.handle
          /\ \E h \in handles' : h.id = op[o].id /\ h.path = op[o].path]_vars

\* Every operation ends, but for those that wait for the user to pick a file,
\* and what they changed is saved.
WorkEnds ==
  <>[](/\ \A o \in Ops : op[o] = NoOp \/ op[o].at = "picker"
       /\ intro = {} /\ ~dirty)

-----------------------------------------------------------------------------
(* The stores when nothing is under way. *)

\* When nothing is under way, the list, the stored handles and the databases
\* that are attached agree.
CalmSources == TypeOK /\ CalmHandles /\ CalmDatabases
=============================================================================
