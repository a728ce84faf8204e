------------------------------ MODULE Explorer ------------------------------
(***************************************************************************)
(* The explorer of the data sources: useDataSourceState.tsx (search,        *)
(* expansion, the BigQuery tree), useDataSourceActions.ts (removals),       *)
(* DataSourceExplorer.tsx and the keys of UnifiedTreeView.tsx.              *)
(*                                                                          *)
(* An event of the user is one step, with all the renders and effects it    *)
(* leads to: React runs them before the next event.  Between two events the *)
(* list of sources, the tables of the engine or the connection to BigQuery  *)
(* may change, and what was begun may end: a removal, the reading of a      *)
(* sheet, a load of the projects, the timer that moves the focus.           *)
(***************************************************************************)
EXTENDS SourceTree, FiniteSets

CONSTANTS
  Scenes,           \* what may be there at the beginning
  Sources,          \* sources that may be added
  ColumnsOf,        \* the columns of a sheet, by its name
  Projects, Extra,  \* the projects BigQuery lists, and one that may be pinned
  Queries,
  MaxActs           \* bound: events

VARIABLES
  scene,      \* [http, session, servers]: the mode, and the tables of the engine
  list,       \* dataSources
  query, expanded, collapsed,
  saved,      \* savedExpandedNodes: <<>>, or the set before the search
  reading,    \* sheets whose columns are being read: [id, name, sheets]
  leaving,    \* sources whose removal is under way
  dialog,     \* confirmDialog: <<>>, or [ids, detaches]
  keys,       \* the state of the tree view
  cloud,      \* [on, data, pinned, loads]: isBigQueryConnected, bigQueryData, ...
  mine,       \* history: expanded as it was left outside searches
  sheetsRead, \* history: sheets whose columns have been read
  crossed,    \* history: two sheets of a workbook were read at a time
  acts

explorerVars == <<scene, list, query, expanded, collapsed, saved, reading, leaving, dialog,
                  keys, cloud, mine, sheetsRead, crossed, acts>>

Low(a, b) == IF a < b THEN a ELSE b
High(a, b) == IF a < b THEN b ELSE a

-----------------------------------------------------------------------------
(* What is shown. *)

IsDatabase(d) == d.type = "duckdb"
IdsOf(S) == {d.id : d \in S}
Listed == ToSet(list)

\* What the tree depends on.
View == [scene |-> scene, list |-> list, query |-> query, collapsed |-> collapsed, cloud |-> cloud]

Part(id, present, tree) == IF present THEN <<[id |-> id, tree |-> tree]>> ELSE <<>>

CloudTree(data) == IF data = <<>> THEN LoadTrigger ELSE EachOf(ProjectNodes, data)

\* treeSections, before the search is applied to the nodes.
Sections(v) ==
  LET here == ~v.scene.http
      databases == Filtered(SelectSeq(v.list, IsDatabase), v.query)
      files == Filtered(SelectSeq(v.list, LAMBDA d : ~IsDatabase(d)), v.query)
      local == SelectSeq(files, LAMBDA f : ~Remote(f))
      remote == SelectSeq(files, Remote)
  IN Part("session-tables", v.scene.session # <<>>, EachOf(SessionNodes, v.scene.session)) \o
     Part("server-databases", v.scene.http /\ v.scene.servers # <<>>, EachOf(ServerNodes, v.scene.servers)) \o
     Part("databases", here /\ databases # <<>>, EachOf(DatabaseNodes, databases)) \o
     Part("local-files", here /\ local # <<>>, FilesTree(local)) \o
     Part("remote-files", remote # <<>>, FilesTree(remote)) \o
     Part("cloud", here /\ v.cloud.on, CloudTree(v.cloud.data))

Shown == EachOf(LAMBDA s : Found(s.tree, query), Sections(View))

\* nodesToExpand
Opened(v) == UNION {ToExpand(s.tree, v.query) : s \in ToSet(Sections(v))}

\* visibleNodes, with the nodes of `open` expanded.
VisibleNodes(v, open) ==
  EachOf(LAMBDA s : IF s.id \in v.collapsed THEN <<>>
                    ELSE SelectSeq(Found(s.tree, v.query), LAMBDA n : Above(n) \subseteq open),
         Sections(v))
Visible == VisibleNodes(View, expanded)

WithChildren == {Last(n.up) : n \in {m \in ToSet(Shown) : m.up # <<>>}}
HasChildren(n) == n.type = "sheet" \/ n.id \in WithChildren

-----------------------------------------------------------------------------
(* Effects. *)

NoKeys == [focus |-> 0, cleared |-> FALSE, moving |-> FALSE, pending |-> 0, timers |-> {}, menu |-> <<>>]
\* focus: focusedNodeIndex + 1; cleared: userClearedFocus; moving:
\* isKeyboardNavigating; pending: pendingDeleteIndexRef + 1, or 0; timers: where
\* the focus is to go; menu: <<>>, or the node whose menu is open.

\* A list of nodes that has shrunk since the removal was asked for: the focus is
\* to go where the removed node was.
Refocused(k, before, after) ==
  IF k.pending # 0 /\ 0 < after /\ after < before
  THEN [k EXCEPT !.pending = 0, !.timers = @ \cup {Low(k.pending, after)}]
  ELSE k

\* A bug that must be noticed: what is expanded is saved again while searching.
Saved_Again == query' # NoQuery

\* The search has begun: its expansions are not to be kept.
Saved == query' # NoQuery /\ saved = <<>>

\* The renders after an event that leaves `open` expanded and the keyboard in k:
\* save or restore what is expanded, then expand what is above a match.
Rendered(open, k) ==
  /\ saved' = IF Saved THEN <<open>> ELSE IF query' = NoQuery THEN <<>> ELSE saved
  /\ \E o \in {open}, v \in {View'} :
       LET after == IF query' # NoQuery THEN o \cup Opened(v)
                    ELSE IF saved # <<>> THEN saved[1] ELSE o
           first == Len(VisibleNodes(v, o))
       IN /\ expanded' = after
          /\ keys' = Refocused(Refocused(k, Len(Visible), first),
                               first, Len(VisibleNodes(v, after)))

Act == acts < MaxActs /\ acts' = acts + 1
NoDialog == dialog = <<>>

\* The renders after events and answers that leave the choices of the user alone.
Redrawn == Rendered(expanded, keys) /\ UNCHANGED mine

\* The user has changed what is expanded.
Chosen(open, k) ==
  /\ mine' = IF query = NoQuery THEN open ELSE mine
  /\ UNCHANGED query
  /\ Rendered(open, k)

KeysOnly(k) == keys' = k /\ UNCHANGED <<saved, expanded, mine, query>>

bystanders == <<scene, list, reading, leaving, dialog, cloud, sheetsRead, crossed>>

-----------------------------------------------------------------------------
(* Search, sections, expansion. *)

Search ==
  /\ Act /\ NoDialog
  /\ \E q \in Queries : query' = q
  /\ UNCHANGED <<collapsed, bystanders>>

ToggleSection ==
  /\ Act /\ NoDialog
  /\ \E s \in ToSet(Sections(View)) :
       collapsed' = IF s.id \in collapsed THEN collapsed \ {s.id} ELSE collapsed \cup {s.id}
  /\ UNCHANGED <<query, bystanders>>

ExpandAll ==
  /\ Act /\ NoDialog
  /\ collapsed' = {}
  /\ UNCHANGED bystanders
  /\ Chosen(WithChildren, keys)

CollapseAll ==
  /\ Act /\ NoDialog
  /\ UNCHANGED <<collapsed, bystanders>>
  /\ Chosen({}, keys)

\* A sheet that is expanded is read.
ReadsSheet(n) ==
  LET f == CHOOSE d \in Listed : d.id = n.id[1]
      read == [id |-> f.id, name |-> n.id[3], sheets |-> f.sheets]
  IN IF n.type = "sheet" /\ n.id \notin expanded
     THEN /\ reading' = reading \cup {read}
          /\ crossed' = (crossed \/ \E r \in reading : r.id = f.id)
     ELSE UNCHANGED <<reading, crossed>>

\* handleNodeExpand
Toggle(n, k) ==
  /\ ReadsSheet(n)
  /\ UNCHANGED <<scene, list, leaving, dialog, cloud, sheetsRead, collapsed>>
  /\ Chosen(IF n.id \in expanded THEN expanded \ {n.id} ELSE expanded \cup {n.id}, k)

Click ==
  /\ Act /\ NoDialog
  /\ LET nodes == Visible IN \E i \in DOMAIN nodes :
       LET n == nodes[i]
           k == [keys EXCEPT !.focus = i, !.cleared = FALSE, !.moving = FALSE]
       IN IF HasChildren(n) THEN Toggle(n, k)
          ELSE KeysOnly(k) /\ UNCHANGED <<collapsed, bystanders>>

\* introspectSheetColumns: the sheets are those of the time when it began.
SheetRead ==
  /\ \E r \in reading :
       /\ reading' = reading \ {r}
       /\ \/ UNCHANGED <<list, sheetsRead>>
          \/ /\ LET new == [i \in DOMAIN r.sheets |->
                              IF r.sheets[i].name = r.name
                              THEN [r.sheets[i] EXCEPT !.columns = ColumnsOf[r.name]] ELSE r.sheets[i]]
                IN list' = [i \in DOMAIN list |->
                             IF list[i].id = r.id THEN [list[i] EXCEPT !.sheets = new] ELSE list[i]]
             /\ sheetsRead' = sheetsRead \cup {<<r.id, r.name>>}
  /\ UNCHANGED <<scene, query, collapsed, leaving, dialog, cloud, crossed, acts>>

-----------------------------------------------------------------------------
(* Keys.  The tree has them unless a dialog is open. *)

Focused ==
  LET nodes == Visible IN IF keys.focus \in DOMAIN nodes THEN <<nodes[keys.focus]>> ELSE <<>>

Pressed(k) == KeysOnly([k EXCEPT !.moving = TRUE]) /\ UNCHANGED <<collapsed, bystanders>>

\* A focus beyond the end of a list that has shrunk comes back with ArrowDown only.
Arrow ==
  /\ Act /\ NoDialog /\ keys.menu = <<>> /\ Visible # <<>>
  /\ \E i \in {IF keys.focus = 0 THEN 1 ELSE Low(keys.focus + 1, Len(Visible)),
              IF keys.focus = 0 THEN Len(Visible) ELSE High(keys.focus - 1, 1)} :
       Pressed([keys EXCEPT !.focus = i, !.cleared = FALSE])

\* ArrowRight and ArrowLeft.
OpenOrClose ==
  /\ Act /\ NoDialog /\ keys.menu = <<>>
  /\ Focused # <<>> /\ HasChildren(Focused[1])
  /\ Toggle(Focused[1], [keys EXCEPT !.moving = TRUE])

HasMenu(n) == n.act # "none"

Enter ==
  /\ Act /\ NoDialog /\ keys.menu = <<>>
  /\ Focused # <<>> /\ HasMenu(Focused[1])
  /\ KeysOnly([keys EXCEPT !.menu = Focused])
  /\ UNCHANGED <<collapsed, bystanders>>

RightClick ==
  /\ Act /\ NoDialog
  /\ \E n \in {m \in ToSet(Visible) : HasMenu(m)} :
       KeysOnly([keys EXCEPT !.menu = <<n>>, !.moving = FALSE])
  /\ UNCHANGED <<collapsed, bystanders>>

\* Escape; a click elsewhere; and the focus that comes with Tab.
Escape ==
  /\ Act /\ NoDialog
  /\ \/ keys.menu # <<>> /\ KeysOnly([keys EXCEPT !.menu = <<>>])
     \/ /\ keys.menu = <<>> /\ keys.focus # 0
        /\ KeysOnly([keys EXCEPT !.focus = 0, !.cleared = TRUE])
  /\ UNCHANGED <<collapsed, bystanders>>

\* The mouse is moved after keys, or pressed beside the nodes.
MouseLeaves ==
  /\ Act /\ NoDialog /\ keys.focus # 0
  /\ KeysOnly([keys EXCEPT !.focus = 0, !.cleared = TRUE, !.moving = FALSE, !.menu = <<>>])
  /\ UNCHANGED <<collapsed, bystanders>>

TabIn ==
  /\ Act /\ NoDialog
  /\ keys.focus = 0 /\ Visible # <<>> /\ ~keys.cleared
  /\ KeysOnly([keys EXCEPT !.focus = 1])
  /\ UNCHANGED <<collapsed, bystanders>>

-----------------------------------------------------------------------------
(* Removals. *)

\* What a removal of the node n would remove; a search does not matter.
Named(n) ==
  CASE n.act = "delete" -> {d.id : d \in {f \in Listed : f.id = n.id[1]}}
    [] n.act = "delete-folder" -> {d.id : d \in {f \in Listed : f.group = <<n.id[2], n.id[3]>>}}
    [] n.act = "delete-domain" -> {d.id : d \in {f \in Listed : Remote(f) /\ f.group[1] = n.id[2]}}
    [] n.act = "detach" -> {d.id : d \in {f \in Listed : IsDatabase(f) /\ f.name = n.name}}
    [] OTHER -> {}

Folder(n) == n.act \in {"delete-folder", "delete-domain"}

\* The dialog is asked for; not for a folder that is empty by now.
Asks(n, k) ==
  /\ dialog' = IF Folder(n) /\ Named(n) = {} THEN <<>>
               ELSE <<[ids |-> Named(n), detaches |-> n.act = "detach"]>>
  /\ KeysOnly(k)
  /\ UNCHANGED <<scene, list, collapsed, reading, leaving, cloud, sheetsRead, crossed>>

\* An action of the menu: a removal, or a query for the editor.
MenuPick ==
  /\ Act /\ NoDialog /\ keys.menu # <<>>
  /\ LET k == [keys EXCEPT !.menu = <<>>]
     IN \/ keys.menu[1].act # "query" /\ Asks(keys.menu[1], k)
        \/ KeysOnly(k) /\ UNCHANGED <<collapsed, bystanders>>

\* Delete and Backspace, for files only.
DeleteKey ==
  /\ Act /\ NoDialog /\ keys.menu = <<>>
  /\ Focused # <<>> /\ Focused[1].type = "file"
  /\ Asks(Focused[1], [keys EXCEPT !.pending = keys.focus])

\* A drop on the bin; folders have another type than the one that is asked for.
TrashDrop ==
  /\ Act /\ NoDialog
  /\ \E n \in ToSet(Visible) :
       n.type \in {"file", "database", "server"} /\ Asks(n, [keys EXCEPT !.moving = FALSE])

\* The dialog is closed by both of its buttons.
Answer ==
  /\ Act /\ dialog # <<>>
  /\ dialog' = <<>>
  /\ \E yes \in BOOLEAN :
       leaving' = IF yes THEN leaving \cup {[id |-> i, detaches |-> dialog[1].detaches] : i \in dialog[1].ids}
                  ELSE leaving
  /\ UNCHANGED <<scene, list, query, expanded, collapsed, saved, reading, keys, cloud, mine,
                 sheetsRead, crossed>>

Without(id) == SelectSeq(list, LAMBDA d : d.id # id)

\* removeDataSource ends; a database that cannot be detached stays.
Removed ==
  /\ \E r \in leaving :
       /\ leaving' = leaving \ {r}
       /\ list' = Without(r.id) \/ (r.detaches /\ UNCHANGED list)
       /\ sheetsRead' = {x \in sheetsRead : x[1] \in IdsOf(ToSet(list'))}
  /\ UNCHANGED <<scene, query, collapsed, reading, dialog, cloud, crossed, acts>>

\* The timer of the focus, 100 ms after the list has shrunk.
FocusMoves ==
  /\ \E i \in keys.timers : keys' = [keys EXCEPT !.focus = i, !.timers = @ \ {i}]
  /\ UNCHANGED <<query, saved, expanded, mine, collapsed, bystanders, acts>>

-----------------------------------------------------------------------------
(* What changes elsewhere. *)

\* A source is uploaded: the section of databases is opened; the one of files has
\* another name than the one that is opened.
Uploaded ==
  /\ Act
  /\ \E d \in Sources :
       /\ d.id \notin IdsOf(Listed) /\ \A r \in reading : r.id # d.id
       /\ list' = Append(list, d)
       /\ collapsed' = collapsed \ {IF IsDatabase(d) THEN "databases" ELSE "files"}
  /\ UNCHANGED <<scene, query, reading, leaving, dialog, cloud, sheetsRead, crossed>>

\* A source is removed, or the tables of the engine have changed.
Changed ==
  /\ Act
  /\ \/ /\ \E d \in Listed : list' = Without(d.id)
        /\ sheetsRead' = {x \in sheetsRead : x[1] \in IdsOf(ToSet(list'))}
        /\ UNCHANGED scene
     \/ \E s \in Scenes : /\ s.here.http = scene.http /\ scene' = s.here
                          /\ UNCHANGED <<list, sheetsRead>>
  /\ UNCHANGED <<query, collapsed, reading, leaving, dialog, cloud, crossed>>

\* The page is loaded again: expansions and sections are those that were stored.
Reload ==
  /\ Act
  /\ query' = NoQuery /\ saved' = <<>> /\ keys' = NoKeys /\ dialog' = <<>>
  /\ reading' = {} /\ leaving' = {}
  /\ cloud' = [cloud EXCEPT !.on = FALSE, !.data = <<>>, !.loads = {}]
  /\ mine' = expanded
  /\ UNCHANGED <<scene, list, expanded, collapsed, sheetsRead, crossed>>

-----------------------------------------------------------------------------
(* BigQuery. *)

\* The check every 5 s.  The tree is kept when the connection is lost.
Polled ==
  /\ Act
  /\ cloud' = [cloud EXCEPT !.on = ~@]

\* loadBigQueryData, by the trigger or by the settings.
Loads ==
  /\ Act /\ cloud.on
  /\ cloud' = [cloud EXCEPT !.loads = @ \cup {cloud.pinned}]

\* A project is pinned; the load that follows still has the old list.
AddProject ==
  /\ Act /\ NoDialog /\ cloud.on
  /\ cloud' = [cloud EXCEPT !.pinned = @ \cup {Extra}, !.loads = @ \cup {cloud.pinned}]

\* A load ends: the projects that are listed, and those that were pinned when it
\* began.  What cannot be read of a project is shown empty.
Loaded ==
  /\ \E pinned \in cloud.loads :
       \E read \in {Projects, [i \in DOMAIN Projects |-> [Projects[i] EXCEPT !.schemas = <<>>]]} :
         cloud' = [cloud EXCEPT !.loads = @ \ {pinned},
                                !.data = read \o SetToSeq(pinned)]
  /\ UNCHANGED acts

\* It fails, or what was loaded is cleared from the settings.
LoadFailed ==
  /\ \/ \E pinned \in cloud.loads : cloud' = [cloud EXCEPT !.loads = @ \ {pinned}]
     \/ cloud.data # <<>> /\ cloud' = [cloud EXCEPT !.data = <<>>]
  /\ UNCHANGED acts

-----------------------------------------------------------------------------
ExplorerInit ==
  \E s \in Scenes :
    /\ scene = s.here /\ list = s.list /\ expanded = {} /\ mine = {}
    /\ cloud = [on |-> s.cloud, data |-> <<>>, pinned |-> {}, loads |-> {}]
    /\ query = NoQuery /\ saved = <<>> /\ collapsed = {"cloud"}
    /\ reading = {} /\ leaving = {} /\ dialog = <<>> /\ keys = NoKeys
    /\ sheetsRead = {} /\ crossed = FALSE /\ acts = 0

CloudOnly ==
  /\ Polled \/ Loads \/ AddProject \/ Loaded \/ LoadFailed
  /\ UNCHANGED <<scene, list, query, collapsed, reading, leaving, dialog, sheetsRead, crossed>>

\* The events after which the tree is drawn again with what the user has chosen.
Redraws ==
  /\ Search \/ ToggleSection \/ SheetRead \/ Removed \/ Uploaded \/ Changed \/ CloudOnly
  /\ Redrawn

ExplorerNext ==
  \/ Redraws \/ ExpandAll \/ CollapseAll \/ Click
  \/ Arrow \/ OpenOrClose \/ Enter \/ RightClick \/ Escape \/ MouseLeaves \/ TabIn
  \/ MenuPick \/ DeleteKey \/ TrashDrop \/ Answer \/ FocusMoves \/ Reload

-----------------------------------------------------------------------------
(* Properties. *)

\* A workbook of several sheets has columns, and its tree shows the sheets instead.
OnlyItsColumns(d) ==
  IsWorkbook(d) /\ SearchedTexts([d EXCEPT !.columns = <<>>]) \cap query = {}

Sought(d) == query = NoQuery \/ SearchedTexts(d) \cap query # {}

\* Each source of this mode is in the tree once if the text that is searched for
\* is in it, and not at all if it is not.  A workbook that only its own columns
\* match passes the first filter of the search and may be dropped by the second.
SourcesFound ==
  LET ids == EachOf(LAMBDA n : <<n.id>>, Shown) IN
  \A d \in {x \in Listed : Remote(x) \/ ~scene.http} :
    LET id == IF IsDatabase(d) THEN <<d.name>> ELSE <<d.id>>
        times == Cardinality({i \in DOMAIN ids : ids[i] = id})
    IN times = (IF Sought(d) THEN 1 ELSE 0) \/ (times = 0 /\ query # NoQuery /\ OnlyItsColumns(d))

\* While the user searches, all that is found can be seen, but in sections that
\* are collapsed.
MatchesVisible ==
  query # NoQuery =>
    LET seen == ToSet(Visible) IN
    \A s \in {x \in ToSet(Sections(View)) : x.id \notin collapsed} :
      {n \in ToSet(Found(s.tree, query)) : n.name \in query} \subseteq seen

\* When the search is over, the tree is expanded as the user had left it.
ExpansionKept == query = NoQuery => expanded = mine

\* The columns of a sheet that was read are kept, unless two sheets of a workbook
\* were read at a time (then the later answer forgets the earlier).
SheetsKept ==
  ~crossed => \A x \in sheetsRead : \A f \in Listed : f.id = x[1] =>
                \A i \in DOMAIN f.sheets : f.sheets[i].name = x[2] => f.sheets[i].columns # <<>>

ExplorerFaithful == SourcesFound /\ MatchesVisible /\ ExpansionKept /\ SheetsKept

=============================================================================
