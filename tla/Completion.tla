------------------------------ MODULE Completion ------------------------------
(***************************************************************************)
(* What the editor suggests at the cursor: provideCompletionItems of        *)
(* EditorPane.tsx, with the names it takes from the data sources            *)
(* (schema-service.ts) and from the text (sqlCompletions.ts).  A text is a   *)
(* sequence of tokens up to the cursor; a name with dots is one token, a     *)
(* tuple of its parts, and the last part may be empty or half typed.         *)
(***************************************************************************)
EXTENDS Integers, Sequences, SequencesExt, FiniteSets

Word(t) == t[1] \notin {",", "(", ")", "newline"}

-----------------------------------------------------------------------------
(* The names of the data sources.  attachedAs is "" where there is none; a    *)
(* file has columns, a workbook sheets, a database schemas.                   *)

GetSourceType(ds) ==
  CASE ds.type = "duckdb" -> "duckdb" [] ds.type = "connection" -> "bigquery" [] OTHER -> "file"

SqlIdentifier(ds) == IF ds.attachedAs # "" THEN ds.attachedAs ELSE ds.name

TopLevelSources(sources) == {[name |-> SqlIdentifier(ds), sourceType |-> GetSourceType(ds)] : ds \in sources}

TablesOf(ds) ==
  LET table(name, columns, schema) ==
        [name |-> name, columns |-> columns, databaseName |-> IF schema = "" THEN "" ELSE SqlIdentifier(ds),
         schemaName |-> schema, sourceType |-> GetSourceType(ds)]
  IN IF ds.schemas # {} THEN UNION {{table(t.name, t.columns, s.name) : t \in s.tables} : s \in ds.schemas}
     ELSE IF ds.columns # {} THEN {table(ds.name, ds.columns, "")}
     ELSE {table(ds.name \o "_" \o s.name, s.columns, "") : s \in {x \in ds.sheets : x.columns # {}}}

\* Only while there is no data source at all, two tables of an example are suggested.
GetSchema(sources) ==
  IF sources # {} THEN [tables |-> UNION {TablesOf(ds) : ds \in sources}, topLevelSources |-> TopLevelSources(sources)]
  ELSE [tables |-> {[name |-> n, columns |-> {"id", "created_at"}, databaseName |-> "", schemaName |-> "",
                     sourceType |-> "duckdb"] : n \in {"users", "orders"}},
        topLevelSources |-> {[name |-> "local", sourceType |-> "duckdb"]}]

-----------------------------------------------------------------------------
(* The names the text itself makes. *)

\* WITH up to the first SELECT, even one within the first subquery: the names before
\* AS ( in between.
ParseCTENames(text) ==
  LET with == SelectInSeq(text, LAMBDA t : t = <<"WITH">>)
      select == SelectInSubSeq(text, with + 2, Len(text), LAMBDA t : t = <<"SELECT">>)
      named(k) == Word(text[k]) /\ text[k + 1] = <<"AS">> /\ text[k + 2] = <<"(">>
  IN IF with = 0 \/ select = 0 THEN {}
     ELSE {Last(text[k]) : k \in {j \in with + 1 .. select - 3 : named(j)}}

NotAnAlias == {"WHERE", "JOIN", "INNER", "LEFT", "RIGHT", "FULL", "CROSS", "ON", "AND", "OR", "ORDER", "GROUP",
               "HAVING", "LIMIT", "OFFSET", "UNION", "EXCEPT", "INTERSECT"}

\* The match of the pattern whose first word is at i: FROM, JOIN or a comma, a name, and
\* the word behind it, whatever it is, without its AS if another word follows.  The next
\* search begins behind what was matched.
Matched(text, i) ==
  LET word(k) == k <= Len(text) /\ Word(text[k])
      alias == IF word(i + 2) /\ text[i + 2] = <<"AS">> /\ word(i + 3) THEN i + 3 ELSE i + 2
  IN [tableRef |-> text[i + 1], alias |-> IF word(alias) THEN Head(text[alias]) ELSE "",
      next |-> IF word(alias) THEN alias + 1 ELSE i + 2]

ParseTableAliases(text) ==
  LET starts(i) == text[i] \in {<<"FROM">>, <<"JOIN">>, <<",">>} /\ i < Len(text) /\ Word(text[i + 1])
      step(found, i) ==
        IF i < found.next \/ ~starts(i) THEN found
        ELSE LET m == Matched(text, i)
             IN [next |-> m.next,
                 aliases |-> IF m.alias \in NotAnAlias \cup {""} THEN found.aliases ELSE Append(found.aliases, m)]
  IN FoldLeft(step, [next |-> 1, aliases |-> <<>>], [i \in DOMAIN text |-> i]).aliases

\* The map of the aliases: of two of one name the last.
AliasOf(text, name) == SelectLastInSeq(ParseTableAliases(text), LAMBDA m : m.alias = name)

-----------------------------------------------------------------------------
(* The suggestions. *)

SQLKeywords == {[kind |-> "keyword", label |-> k] : k \in {"SELECT", "WHERE", "JOIN"}}
SQLFunctions == {[kind |-> "function", label |-> "SUM"]}
SQLSnippets == {[kind |-> "snippet", label |-> "SELECT ... FROM"]}

\* The text is trimmed first, and every pattern but those of a comma asks for white
\* space at the end: what is left is the comma of a list begun on the same line.
DetectSQLContext(text) ==
  LET end == Len(text)
      list(i) == \E k \in i + 1 .. end - 1 :
                   /\ \A j \in i + 1 .. k - 1 : text[j] = <<"newline">>
                   /\ \A j \in k .. end : text[j] # <<"newline">>
  IN IF /\ end > 0 /\ text[end] = <<",">>
        /\ \E i \in 1 .. end : text[i] \in {<<"SELECT">>, <<"ORDER BY">>, <<"GROUP BY">>} /\ list(i)
     THEN "column" ELSE "all"

GetContextualCompletions(text) ==
  IF DetectSQLContext(text) = "column" THEN SQLFunctions ELSE SQLKeywords \cup SQLFunctions \cup SQLSnippets

Columns(tables) == {[kind |-> "column", label |-> c] : c \in UNION {t.columns : t \in tables}}
TableItems(tables) == {[kind |-> "table", label |-> t.name, quoted |-> t.sourceType = "bigquery"] : t \in tables}

\* A bug that must be noticed: the schema is not looked at.
FindTable_AnySchema(schema, tableName, dbName, schemaName) ==
  {t \in schema.tables : t.name = tableName /\ dbName \in {"", t.databaseName}}

\* One of those that fit: which, depends on the order of the data sources.  An empty
\* database or schema fits every table.
FindTable(schema, tableName, dbName, schemaName) ==
  {t \in schema.tables : /\ t.name = tableName
                         /\ dbName \in {"", t.databaseName}
                         /\ schemaName \in {"", t.schemaName}}

\* What can be suggested for the columns of one of the tables.
ColumnsOfOne(tables) == IF tables = {} THEN {{}} ELSE {Columns({t}) : t \in tables}

\* Behind one name and a dot: an alias, else a database, else a table.
AfterName(schema, text, prefix) ==
  LET k == AliasOf(text, prefix)
      ref == ParseTableAliases(text)[k].tableRef
      schemas == {t.schemaName : t \in {x \in schema.tables : x.databaseName = prefix}} \ {""}
      known == {t.databaseName : t \in schema.tables} \cup {s.name : s \in schema.topLevelSources}
  IN IF k # 0
     THEN IF Last(ref) \in ParseCTENames(text) THEN {{}}
          ELSE ColumnsOfOne(FindTable(schema, Last(ref), IF Len(ref) > 1 THEN ref[1] ELSE "",
                                      IF Len(ref) > 2 THEN ref[2] ELSE ""))
     ELSE IF prefix \in known
     THEN IF schemas # {} THEN {{[kind |-> "schema", label |-> s] : s \in schemas}}
          ELSE {TableItems({t \in schema.tables : t.databaseName = prefix})}
     ELSE ColumnsOfOne(FindTable(schema, prefix, "", ""))

AfterDot(schema, text, parts) ==
  CASE Len(parts) = 1 -> AfterName(schema, text, parts[1])
    [] Len(parts) = 2 -> {TableItems({t \in schema.tables : /\ t.databaseName = parts[1]
                                                            /\ t.schemaName = parts[2]})}
    [] Len(parts) = 3 -> ColumnsOfOne(FindTable(schema, parts[3], parts[1], parts[2]))
    [] OTHER -> {{}}

Elsewhere(schema, text) ==
  LET sources == {[kind |-> "source", label |-> s.name, quoted |-> s.sourceType = "bigquery"] :
                    s \in schema.topLevelSources}
  IN GetContextualCompletions(text) \cup Columns(schema.tables)
       \cup IF DetectSQLContext(text) = "all" THEN sources ELSE {}

\* The sets of suggestions that can come; triggeredByDot: the key was a dot.
ProvideCompletionItems(mode, sources, text, triggeredByDot) ==
  LET schema == GetSchema(sources)
      dotMatch == text # <<>> /\ Len(Last(text)) > 1
  IN IF mode # "experimental" THEN {{}}
     ELSE IF dotMatch THEN AfterDot(schema, text, Front(Last(text)))
     ELSE IF triggeredByDot THEN {{}} ELSE {Elsewhere(schema, text)}

-----------------------------------------------------------------------------
(* What the user means: queries over a database d, BigQuery b, a file f.csv and *)
(* a workbook, whose names have dots as all names of files have.               *)

Source(name, type) == [name |-> name, type |-> type, attachedAs |-> "",
                       schemas |-> {}, columns |-> {}, sheets |-> {}]
T(name, columns) == [name |-> name, columns |-> columns]
Sources == {[Source("sales", "duckdb") EXCEPT !.attachedAs = "d",
               !.schemas = {[name |-> "m", tables |-> {T("t", {"p", "q"}), T("f", {"r"})}],
                            [name |-> "n", tables |-> {T("t", {"s"})}]}],
            [Source("b", "connection") EXCEPT !.schemas = {[name |-> "m", tables |-> {T("v", {"k"})}]}],
            [Source("f.csv", "file") EXCEPT !.columns = {"u"}],
            [Source("w.xlsx", "file") EXCEPT !.sheets = {T("1", {"x"}), T("2", {})}]}

Refs == {<<"t">>, <<"f">>, <<"f", "csv">>, <<"d", "m", "t">>, <<"d", "f">>, <<"b", "m", "v">>, <<"c">>}
Items == {[ref |-> r, alias |-> a, as |-> s] : r \in Refs, a \in {"", "y"}, s \in BOOLEAN}
           \cup {[ref |-> r, alias |-> "z", as |-> FALSE] : r \in Refs}
TwoItems ==
  {p \in Items \X Items : p[1].alias # p[2].alias /\ p[1].alias # "z" /\ ~p[1].as /\ ~p[2].as}
Joints == {<<",">>, <<"JOIN">>, <<"LEFT">>}
Lists == {<< <<"p">> >>, << <<"p">>, <<",">>, <<"q">> >>}
Subqueries == {<<>>, <<"c">>, <<"c", "f">>}
DottedNames == {<<"y">>, <<"z">>, <<"d">>, <<"b">>, <<"f">>, <<"f", "csv">>, <<"d", "m">>, <<"b", "m">>,
             <<"d", "m", "t">>, <<"d", "n", "t">>, <<"o">>}

Written(i) == <<i.ref>> \o (IF i.alias = "" THEN <<>> ELSE IF i.as THEN << <<"AS">>, <<i.alias>> >> ELSE << <<i.alias>> >>)
Defined(c) == << <<c>>, <<"AS">>, <<"(">>, <<"SELECT">>, <<"p">>, <<"FROM">>, <<"t">>, <<")">> >>
Query(ctes, list, items, joint, prefix) ==
  (IF ctes = <<>> THEN <<>> ELSE IF Len(ctes) = 1 THEN << <<"WITH">> >> \o Defined(ctes[1])
   ELSE << <<"WITH">> >> \o Defined(ctes[1]) \o << <<",">> >> \o Defined(ctes[2]))
  \o << <<"SELECT">> >> \o list \o << <<"FROM">> >> \o Written(items[1])
  \o (IF Len(items) = 1 THEN <<>>
      ELSE IF joint = <<"LEFT">> THEN << <<"LEFT">>, <<"JOIN">> >> \o Written(items[2])
      ELSE <<joint>> \o Written(items[2]))
  \o << <<"WHERE">>, Append(prefix, "") >>

\* The word the pattern takes for an alias is not looked at again: the FROM behind a
\* list of columns, and the JOIN behind a table without alias.
Overlooked(list, items, joint, k) ==
  LET first == Len(list) > 1
  IN IF k = 1 THEN first ELSE joint = <<"JOIN">> /\ items[1].alias = "" /\ ~first

\* Behind an alias, but one overlooked, there come all columns of a table it can stand
\* for, and none if it stands for a subquery, but for the second of two; behind a database
\* its schemas, behind a schema its tables, quoted if BigQuery needs it; behind a table its
\* columns; and never anything behind a name that is unknown, as that of a file is.
Understood(ctes, list, items, joint, prefix) ==
  LET got == ProvideCompletionItems("experimental", Sources, Query(ctes, list, items, joint, prefix), TRUE)
      bound == {k \in DOMAIN items : items[k].alias = Last(prefix) /\ Len(prefix) = 1}
      meant(ref) == {t \in GetSchema(Sources).tables :
                       /\ t.name = Last(ref)
                       /\ Len(ref) > 1 => t.databaseName = ref[1]
                       /\ Len(ref) > 2 => t.schemaName = ref[2]}
      sure(k) == ~Overlooked(list, items, joint, k)
  IN CASE bound # {} -> \A k \in bound : sure(k) =>
            LET ref == items[k].ref
            IN IF ref \in {<<"c">>, <<"f", "csv">>} THEN got = {{}}
               ELSE (ref = <<"f">> => Len(ctes) < 2) => got = {Columns({t}) : t \in meant(ref)}
       [] prefix \in {<<"y">>, <<"z">>, <<"o">>, <<"f", "csv">>} -> got = {{}}
       [] prefix = <<"d">> -> got = {{[kind |-> "schema", label |-> s] : s \in {"m", "n"}}}
       [] prefix = <<"f">> -> got = {Columns({T("f", {"r"})})}
       [] prefix = <<"b", "m">> -> got = {{[kind |-> "table", label |-> "v", quoted |-> TRUE]}}
       [] prefix = <<"d", "n", "t">> -> got = {Columns({T("t", {"s"})})}
       [] OTHER -> \A g \in got : g # {} /\ \A s \in g : s.kind \in {"column", "table", "schema"}

SuggestsWhatIsMeant ==
  /\ \A ctes \in Subqueries, list \in Lists, prefix \in DottedNames :
       /\ \A i \in Items : Understood(ctes, list, <<i>>, <<",">>, prefix)
       /\ \A joint \in Joints : \A pair \in TwoItems :
            prefix \in {<<"y">>, <<"z">>} => Understood(ctes, list, pair, joint, prefix)
  /\ \A list \in Lists, mode \in {"off", "default"} :
       ProvideCompletionItems(mode, Sources, << <<"SELECT">> >> \o list, FALSE) = {{}}
  /\ \A g \in ProvideCompletionItems("experimental", Sources, << <<"SELECT">>, <<"p">>, <<",">> >>, FALSE) :
       \A s \in g : s.kind \in {"function", "column"}
=============================================================================
