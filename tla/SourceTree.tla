----------------------------- MODULE SourceTree -----------------------------
(***************************************************************************)
(* The trees the explorer shows of the data sources, of the tables of the   *)
(* engine and of BigQuery (treeConverters.ts and the sections made in       *)
(* useDataSourceState.tsx), and what a search leaves of them.               *)
(*                                                                          *)
(* A tree is the sequence of its nodes from top to bottom, all expanded:    *)
(* a node has the ids of the nodes above it in `up`, and comes before the   *)
(* nodes under it.  An id is the tuple of the parts the code joins with     *)
(* dots or dashes.  `act` is what the menu of the node offers: to remove    *)
(* something, only queries, or no menu.  Icons, badges, sizes and the       *)
(* sorting of files are left out.                                           *)
(***************************************************************************)
EXTENDS Naturals, Sequences, SequencesExt

RECURSIVE Joined(_)
Joined(ss) == IF ss = <<>> THEN <<>> ELSE Head(ss) \o Joined(Tail(ss))

\* The nodes that each part of s gives, in the order of s.
EachOf(Nodes(_), s) == Joined(<<>> \o [i \in DOMAIN s |-> Nodes(s[i])])

Node(id, name, type, up, act) ==
  [id |-> id, name |-> name, type |-> type, up |-> up, act |-> act]

RECURSIVE ColumnNodes(_, _, _)

\* The columns under the node `pre`, with the fields of structs (columns and
\* fields are [name, fields]).
ColumnNodes(pre, up, columns) ==
  EachOf(LAMBDA c : LET id == Append(pre, c.name) IN
                    <<Node(id, c.name, "column", up, "none")>> \o ColumnNodes(id, Append(up, id), c.fields),
         columns)

\* Where the fields of structs are not shown.
PlainColumns(pre, up, columns) ==
  EachOf(LAMBDA c : <<Node(Append(pre, c.name), c.name, "column", up, "none")>>, columns)

-----------------------------------------------------------------------------
(* Files.  A file has [id, name, type, attached, group, sheets, columns],   *)
(* where group is <<>> for a local file and <<domain, path>> for a file     *)
(* that is read from a URL.                                                 *)

IsWorkbook(f) == f.type = "xlsx" /\ Len(f.sheets) > 1

SheetNodes(f, sheet, up) ==
  LET id == <<f.id, "sheet", sheet.name>> IN
  <<Node(id, sheet.name, "sheet", up, "query")>> \o ColumnNodes(id, Append(up, id), sheet.columns)

FileNodes(f, up) ==
  LET id == <<f.id>>
      below == Append(up, id)
  IN <<Node(id, f.name, "file", up, "delete")>> \o
     CASE f.attached -> <<>>
       [] ~f.attached /\ IsWorkbook(f) -> EachOf(LAMBDA s : SheetNodes(f, s, below), f.sheets)
       [] OTHER -> ColumnNodes(id, below, f.columns)

\* The values of Value over s, in the order in which they first occur.
FirstSeen(s, Value(_)) ==
  FoldLeft(LAMBDA seen, x : IF Contains(seen, Value(x)) THEN seen ELSE Append(seen, Value(x)), <<>>, s)

Remote(f) == f.group # <<>>

PathNodes(domain, path, files) ==
  LET top == <<"remote-domain", domain>>
      id == <<"remote-path", domain, path>>
  IN <<Node(id, path, "dataset", <<top>>, "delete-folder")>> \o
     EachOf(LAMBDA f : FileNodes(f, <<top, id>>), files)

DomainNodes(domain, files) ==
  LET id == <<"remote-domain", domain>> IN
  <<Node(id, domain, "dataset", <<>>, "delete-domain")>> \o
  EachOf(LAMBDA p : PathNodes(domain, p, SelectSeq(files, LAMBDA f : f.group[2] = p)),
         FirstSeen(files, LAMBDA f : f.group[2]))

\* groupRemoteFiles: one folder for every domain, and one for every path in it.
RemoteNodes(files) ==
  EachOf(LAMBDA d : DomainNodes(d, SelectSeq(files, LAMBDA f : f.group[1] = d)),
         FirstSeen(files, LAMBDA f : f.group[1]))

\* convertFilesToTreeNodes: the folders come first.
FilesTree(files) ==
  RemoteNodes(SelectSeq(files, Remote)) \o
  EachOf(LAMBDA f : FileNodes(f, <<>>), SelectSeq(files, LAMBDA f : ~Remote(f)))

-----------------------------------------------------------------------------
(* Databases: schemas of tables of columns. *)

TableNodes(pre, up, table) ==
  LET id == Append(pre, table.name) IN
  <<Node(id, table.name, "table", up, "query")>> \o ColumnNodes(id, Append(up, id), table.columns)

SchemaNodes(pre, up, schema, type) ==
  LET id == Append(pre, schema.name) IN
  <<Node(id, schema.name, type, up, "none")>> \o
  EachOf(LAMBDA t : TableNodes(id, Append(up, id), t), schema.tables)

\* convertDatabasesToTreeNodes: the id of a database is its name.
DatabaseNodes(d) ==
  <<Node(<<d.name>>, d.name, "database", <<>>, "detach")>> \o
  EachOf(LAMBDA s : SchemaNodes(<<d.name>>, <<<<d.name>>>>, s, "schema"), d.schemas)

\* convertBigQueryToTreeNodes: a project is [name, schemas], a dataset a schema.
ProjectNodes(p) ==
  LET id == <<"bq", p.name>> IN
  <<Node(id, p.name, "project", <<>>, "none")>> \o
  EachOf(LAMBDA s : SchemaNodes(id, <<id>>, s, "dataset"), p.schemas)

LoadTrigger == <<Node(<<"bigquery-load-trigger">>, "Double-click to load", "connection", <<>>, "none")>>

-----------------------------------------------------------------------------
(* The tables of the engine. *)

SessionTable(up, pre, t) ==
  LET id == <<"session-table">> \o pre \o <<t.name>> IN
  <<Node(id, t.name, "table", up, "query")>> \o
  PlainColumns(<<"session-col">> \o pre \o <<t.name>>, Append(up, id), t.columns)

\* The tables of `main` are shown without their schema.
SessionNodes(s) ==
  IF s.name = "main" THEN EachOf(LAMBDA t : SessionTable(<<>>, <<>>, t), s.tables)
  ELSE LET id == <<"local-db-schema", s.name>> IN
       <<Node(id, s.name, "schema", <<>>, "none")>> \o
       EachOf(LAMBDA t : SessionTable(<<id>>, <<s.name>>, t), s.tables)

ServerTable(db, up, pre, t) ==
  LET id == <<"server-db", db, "table">> \o pre \o <<t.name>> IN
  <<Node(id, t.name, "table", up, "query")>> \o
  PlainColumns(<<"server-db", db, "col">> \o pre \o <<t.name>>, Append(up, id), t.columns)

\* A schema `main` that is the only one of its database is not shown.
ServerSchema(db, up, s, alone) ==
  IF s.name = "main" /\ alone THEN EachOf(LAMBDA t : ServerTable(db, up, <<>>, t), s.tables)
  ELSE LET id == <<"server-db", db, "schema", s.name>> IN
       <<Node(id, s.name, "schema", up, "none")>> \o
       EachOf(LAMBDA t : ServerTable(db, Append(up, id), <<s.name>>, t), s.tables)

ServerNodes(d) ==
  LET id == <<"server-db", d.name>> IN
  <<Node(id, d.name, "server", <<>>, "query")>> \o
  EachOf(LAMBDA s : ServerSchema(d.name, <<id>>, s, Len(d.schemas) = 1), d.schemas)

-----------------------------------------------------------------------------
(* The search.  A query is the set of names that contain its text; the      *)
(* empty text is the empty set.                                             *)

NoQuery == {}

Names(s) == {s[i].name : i \in DOMAIN s}

\* filterDataSources looks for the text in the name of a source, in its schemas,
\* tables and their columns, and in its own columns; not in sheets or fields.
SearchedTexts(d) ==
  LET tables == EachOf(LAMBDA s : s.tables, d.schemas) IN
  {d.name} \cup Names(d.columns) \cup Names(d.schemas) \cup Names(tables) \cup
  Names(EachOf(LAMBDA t : t.columns, tables))

Filtered(sources, q) ==
  IF q = NoQuery THEN sources
  ELSE SelectSeq(sources, LAMBDA d : SearchedTexts(d) \cap q # {})

Above(m) == ToSet(m.up)

\* The nodes that have something under them that the search has found.
ToExpand(tree, q) == UNION {Above(m) : m \in {n \in ToSet(tree) : n.name \in q}}

\* filterTreeNodes: what matches, all that is above a match, and all that is under
\* a match with no other match under it.
Found(tree, q) ==
  IF q = NoQuery THEN tree
  ELSE LET open == ToExpand(tree, q)
           lowest == {n.id : n \in {m \in ToSet(tree) : m.name \in q}} \ open
       IN SelectSeq(tree, LAMBDA n : n.name \in q \/ n.id \in open \/ Above(n) \cap lowest # {})

=============================================================================
