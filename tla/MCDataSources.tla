---------------------------- MODULE MCDataSources ----------------------------
(***************************************************************************)
(* A small instance of DataSources: one database and one data file, two     *)
(* operations at a time, one or two started by the user (or reloads of the  *)
(* page) beyond the state in which the page was found.  And the explorer    *)
(* that shows such a list: a database, a file whose column has fields, a    *)
(* workbook of two sheets, files of one domain, the tables of the engine    *)
(* and BigQuery.  part says which of the two moves.                         *)
(***************************************************************************)
EXTENDS DataSources
CONSTANTS d1, f1, a1

VARIABLES
  part,
  scene, sources, query, expanded, collapsed, saved, reading, leaving, dialog, keys, cloud,
  mine, sheetsRead, crossedSheets, acts

MCDatabases == {d1}
MCAliasOf == [d \in MCDatabases |-> a1]

Column(c, fields) == [name |-> c, fields |-> fields]
Table(t, columns) == [name |-> t, columns |-> columns]
Schema(s, tables) == [name |-> s, tables |-> tables]
Plain == <<Column("c", <<>>)>>
File(id, name, group) ==
  [id |-> id, name |-> name, type |-> "csv", attached |-> FALSE, group |-> group,
   schemas |-> <<>>, sheets |-> <<>>, columns |-> <<>>]

ALocalFile == [File("f", "file", <<>>) EXCEPT !.columns = <<Column("c", <<Column("x", <<>>)>>)>>]
ARemoteFile == [File("r", "remote", <<"host", "p">>) EXCEPT !.columns = Plain]
OtherFile == File("s", "other", <<"host", "q">>)
AWorkbook ==
  [File("w", "book", <<>>) EXCEPT !.type = "xlsx", !.columns = Plain,
     !.sheets = <<Table("s1", <<>>), Table("s2", <<>>)>>]
ADatabase ==
  [File("d", "base", <<>>) EXCEPT !.type = "duckdb",
     !.schemas = <<Schema("main", <<Table("t", Plain)>>)>>]

Here(http, session, servers) == [http |-> http, session |-> session, servers |-> servers]
Scene(here, l, on) == [here |-> here, list |-> l, cloud |-> on]
Session == <<Schema("main", <<Table("t", Plain)>>), Schema("z", <<Table("t", <<>>)>>)>>
Servers == <<[name |-> "srv", schemas |-> <<Schema("main", <<Table("t", Plain)>>)>>],
             [name |-> "two", schemas |-> <<Schema("main", <<>>), Schema("z", <<Table("t", Plain)>>)>>]>>

X == INSTANCE Explorer WITH
       list <- sources, crossed <- crossedSheets,
       Scenes <- {Scene(Here(FALSE, <<>>, <<>>), <<ADatabase, ALocalFile>>, FALSE),
                  Scene(Here(FALSE, <<>>, <<>>), <<AWorkbook>>, FALSE),
                  Scene(Here(FALSE, <<>>, <<>>), <<ARemoteFile, OtherFile>>, FALSE),
                  Scene(Here(FALSE, Session, <<>>), <<>>, TRUE),
                  Scene(Here(TRUE, <<>>, Servers), <<ARemoteFile>>, FALSE)},
       Sources <- {ALocalFile, OtherFile, ADatabase},
       ColumnsOf <- [s \in {"s1", "s2"} |-> Plain],
       Projects <- <<[name |-> "p", schemas |-> <<Schema("ds", <<Table("t", Plain)>>)>>]>>,
       Extra <- [name |-> "pinned", schemas |-> <<>>],
       Queries <- {{}, {"c", "x"}, {"base", "book", "host"}},
       MaxActs <- 3

storeVars == <<list, pending, intro, op, nextId, db, handles, stored, dirty,
               starts, crossed, faulty, wiped>>
explorerVars == <<scene, sources, query, expanded, collapsed, saved, reading, leaving, dialog,
                  keys, cloud, mine, sheetsRead, crossedSheets, acts>>

\* A list of sources that rests: a page that was opened with nothing.
NoStore ==
  /\ list = {} /\ stored = {} /\ handles = {} /\ nextId = 1
  /\ op = [x \in Ops |-> NoOp]
  /\ db = [a \in Aliases |-> None]
  /\ pending = [p \in Paths |-> None]
  /\ intro = {} /\ dirty = FALSE /\ starts = 0
  /\ crossed = FALSE /\ faulty = FALSE /\ wiped = FALSE

MCInit ==
  /\ part \in {"store", "explorer"}
  /\ IF part = "store" THEN Init ELSE NoStore
  /\ X!ExplorerInit
  /\ part = "explorer" \/ scene.http

MCNext ==
  /\ part' = part
  /\ \/ part = "store" /\ Next /\ UNCHANGED explorerVars
     \/ part = "explorer" /\ X!ExplorerNext /\ UNCHANGED storeVars

MCSpec ==
  /\ MCInit /\ [][MCNext]_<<part, storeVars, explorerVars>>
  /\ WF_vars((\E o \in Ops : Step(o)) \/ Introspects \/ Save)

\* The explorer shows each source once, and what a search has found and nothing
\* else (but a workbook of sheets that only its own columns match may be lost); it
\* keeps what the user has expanded and the columns it has read.
ExplorerFaithful == X!ExplorerFaithful
=============================================================================
