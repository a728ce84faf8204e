------------------------------ MODULE MCTabSync ------------------------------
(***************************************************************************)
(* Two windows with tabs, each opened with one or two stored tabs or with   *)
(* none, a third tab when a file is opened, and two acts of the users, at   *)
(* times 2 and 3: enough for a file too many, a dialog overtaken by the     *)
(* shortcut, and acts that cross in both windows.  And two windows with     *)
(* data sources, three acts of the users, and one path besides those an     *)
(* older version has stored (twice the same).  And two uploads that overlap *)
(* in a window, one of a database with a workbook, or one beside the reload *)
(* of two stored handles, with one file that fails and one change of the     *)
(* engine or of the connection to BigQuery.  part says which of them moves. *)
(***************************************************************************)
EXTENDS TabSync

CONSTANTS
  Paths, Left, SourceActs,                             \* of the lists of data sources
  Uploads, Selections, Handles, MaxChoices, MaxFailures  \* of the uploads

VARIABLES part, lists, open, timers, boxes, kept, wanted, disturbed, acts,
          http, uploads, engine, cloud, uploading, progress, listed, handles, reload, told,
          preferred, crossed, together, choices, failures

Sou == INSTANCE SourceSync WITH Pages <- Windows, MaxActs <- SourceActs
Bat == INSTANCE FileBatches

\* Of two stored sources with one path one is newer; kinds are those that can be stored.
ASSUME SourcesAssumption ==
  /\ Paths \subseteq STRING
  /\ \A l \in Left : \/ l = Sou!NoList
                     \/ /\ l \in Seq(Sou!Source)
                        /\ \A i, j \in DOMAIN l : l[i].path = l[j].path /\ l[i].at = l[j].at => i = j

\* The user picks a file, or several; IndexedDB holds finitely many handles.
ASSUME UploadsAssumption ==
  /\ \A b \in Uploads : Selections[b] \subseteq Seq(Bat!Picked) \ {<<>>}
  /\ \A h \in Handles : IsFiniteSet(h)

Old(path, at, kind) == [path |-> path, at |-> at, kind |-> kind, attached |-> FALSE, failed |-> FALSE]
MCLeft == {<<Old("", 0, "none")>>,
           <<Old("p", 0, "bare"), Old("q", 0, "database"), Old("p", 1, "file"), Old("r", 0, "volatile")>>}

Picked(name, ext, path) == [name |-> name, ext |-> ext, path |-> path]
MCSelections ==
  <<{<<Picked("file", "csv", FALSE)>>,
     <<Picked("database", "db", FALSE), Picked("workbook", "xlsx", TRUE)>>},
    {<<Picked("other", "csv", FALSE)>>}>>

batchVars == <<http, uploads, engine, cloud, uploading, progress, listed, handles, reload, told,
               preferred, crossed, together, choices, failures>>
syncVars == <<lists, open, timers, boxes, kept, wanted, disturbed, acts>>

NoTabs == stored = << >> /\ \A w \in Windows : ~Up(w)
NoSources == kept = Sou!NoList /\ open = {}
NoFiles == reload.phase = "over" /\ engine = "duckdb" /\ ~http

MCInit ==
  /\ Init /\ Sou!SyncInit /\ Bat!BatchInit
  /\ \/ part = "tabs" /\ NoSources /\ NoFiles
     \/ part = "sources" /\ NoTabs /\ NoFiles
     \/ part = "files" /\ NoTabs /\ NoSources /\ reload.phase = "none"

MCNext ==
  /\ part' = part
  /\ \/ part = "tabs" /\ Next /\ UNCHANGED <<syncVars, batchVars>>
     \/ part = "sources" /\ Sou!SyncNext /\ UNCHANGED <<vars, batchVars>>
     \/ part = "files" /\ Bat!BatchNext /\ UNCHANGED <<vars, syncVars>>

MCSpec ==
  /\ MCInit /\ [][MCNext]_<<part, vars, syncVars, batchVars>>
  /\ (\A w \in Windows : WF_vars(Receive(w))) /\ Sou!SyncFairness /\ Bat!BatchFairness

\* Windows agree when nothing is under way: on the tabs; and, if nobody has changed a list
\* beside a busy page, on the sources, which are those the users have added and not removed.
\* And uploads lose no file and no choice of the engine, and show what they do.
CalmWindows ==
  /\ part = "tabs" => CalmAgree
  /\ part = "sources" => Sou!CalmLists /\ Sou!OnePath
  /\ part = "files" => Bat!FilesAnswered /\ Bat!EngineKept /\ Bat!ProgressFits /\ Bat!KindsAgree

\* The users have left, and every copy of a tab has a stamp, which no other content of
\* the tab has; or nobody has changed a list while another page was busy with one.
UsersGone ==
  \/ part = "tabs" /\ now = MaxActs /\ Stamped
  \/ part = "sources" /\ acts = SourceActs /\ ~disturbed
  \/ part = "files"

NothingUnderWay ==
  \/ part = "tabs" /\ Quiet /\ Agree
  \/ part = "sources" /\ Sou!AtRest
  \/ part = "files" /\ Bat!Calm /\ reload.phase = "over"

\* When the users have left and have not crossed, the storage events of tabs and of sources
\* end, and the windows agree on the tabs; every upload and the reload end.
WindowsSettle == UsersGone ~> NothingUnderWay
=============================================================================
