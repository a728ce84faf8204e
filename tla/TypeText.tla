------------------------------- MODULE TypeText -------------------------------
(***************************************************************************)
(* The texts of types: what kind of column they name (dataTypes.ts), the type a  *)
(* temporary table gets for them (mapToDuckDBType in duckdb-connector.ts), and    *)
(* the fields, tooltip and badge the explorer and the cell show (typeFormatter).  *)
(* All three look at pieces of the text, where types are nested in types.         *)
(*                                                                           *)
(* A text is a sequence of tokens; a type is <<"int">>, ..., <<"list", type>>,     *)
(* <<"map", type, type>> or <<"struct", <<name, type>>, ...>>.                    *)
(***************************************************************************)
EXTENDS Integers, Sequences, FiniteSets, SequencesExt

Leaves == {"int", "text", "decimal", "interval", "stamp", "enum"}
Names == {"a", "tz"}

Leaf == {<<k>> : k \in Leaves}
Few == {<<"int">>, <<"decimal">>, <<"interval">>, <<"stamp">>}
Nested(types) ==
  {<<"list", t>> : t \in types}
  \cup {<<"struct", <<n, t>>>> : n \in Names, t \in types}
  \cup {<<"struct", <<"a", t>>, <<"tz", u>>>> : t, u \in types}
Types == Leaf \cup Nested(Leaf) \cup Nested(Nested(Few))
Maps == {<<"map", t, u>> : t, u \in Leaf \cup Nested(Few)}

FieldsOf(type) == Tail(type)

-----------------------------------------------------------------------------
(* How the engines write a type.                                             *)

RECURSIVE ArrowText(_), DuckDBText(_), BigQueryText(_), TypeInfoToString(_)

Joined(texts, separator) ==
  FoldLeft(LAMBDA all, t : IF all = <<>> THEN t ELSE all \o separator \o t, <<>>, texts)

ArrowText(type) ==
  CASE type[1] = "int" -> <<"int64">>
    [] type[1] = "text" -> <<"utf8">>
    [] type[1] = "decimal" -> <<"decimal", "[", "10e+2", "]">>
    [] type[1] = "interval" -> <<"interval", "<", "month_day_nano", ">">>
    [] type[1] = "stamp" -> <<"timestamp", "<", "microsecond", ">">>
    [] type[1] = "enum" -> <<"dictionary", "<", "uint8", ",", "utf8", ">">>
    [] type[1] = "list" -> <<"list", "<">> \o ArrowText(type[2]) \o <<">">>
    [] type[1] = "struct" ->
         <<"struct", "<", "{">>
           \o Joined([i \in 1 .. Len(type) - 1 |-> <<type[i + 1][1], ":">> \o ArrowText(type[i + 1][2])], <<",">>)
           \o <<"}", ">">>

DuckDBText(type) ==
  CASE type[1] = "int" -> <<"bigint">>
    [] type[1] = "text" -> <<"varchar">>
    [] type[1] = "decimal" -> <<"decimal", "(", "10", ",", "2", ")">>
    [] type[1] = "interval" -> <<"interval">>
    [] type[1] = "stamp" -> <<"timestamp">>
    [] type[1] = "enum" -> <<"enum", "(", "'red'", ")">>
    [] type[1] = "list" -> DuckDBText(type[2]) \o <<"[]">>
    [] type[1] = "map" -> <<"map", "(">> \o DuckDBText(type[2]) \o <<",">> \o DuckDBText(type[3]) \o <<")">>
    [] type[1] = "struct" ->
         <<"struct", "(">>
           \o Joined([i \in 1 .. Len(type) - 1 |-> <<type[i + 1][1]>> \o DuckDBText(type[i + 1][2])], <<",">>)
           \o <<")">>

BigQueryText(type) ==
  CASE type[1] = "int" -> <<"int64">>
    [] type[1] \in {"text", "enum"} -> <<"string">>
    [] type[1] = "decimal" -> <<"numeric">>
    [] type[1] = "interval" -> <<"interval">>
    [] type[1] = "stamp" -> <<"timestamp">>
    [] type[1] = "list" -> <<"array", "<">> \o BigQueryText(type[2]) \o <<">">>
    [] type[1] = "struct" ->
         <<"struct", "<">>
           \o Joined([i \in 1 .. Len(type) - 1 |-> <<type[i + 1][1]>> \o BigQueryText(type[i + 1][2])], <<",">>)
           \o <<">">>

\* The connector writes the types of a server itself.
TypeInfoToString(type) ==
  CASE type[1] = "enum" -> <<"enum">>
    [] type[1] = "map" -> <<"map">>
    [] type[1] = "list" -> TypeInfoToString(type[2]) \o <<"[]">>
    [] type[1] = "struct" ->
         <<"struct", "(">>
           \o Joined([i \in 1 .. Len(type) - 1 |-> <<type[i + 1][1], ":">> \o TypeInfoToString(type[i + 1][2])], <<",">>)
           \o <<")">>
    [] OTHER -> DuckDBText(type)

Writers == {"duckdb", "bigquery", "server"}
TextIn(type, writer) ==
  CASE writer = "duckdb" -> DuckDBText(type)
    [] writer = "bigquery" -> BigQueryText(type)
    [] writer = "server" -> TypeInfoToString(type)

-----------------------------------------------------------------------------
(* The kind of a column, by the first rule that fits.                        *)

Has(text, word) == word \in Range(text)
StartsWith(text, word, next) == Len(text) >= 2 /\ text[1] = word /\ text[2] \in next
Open == {"<", "("}

\* A bug that must be noticed: numbers are looked for before structs and lists.
NormalizeDuckDBType_NumbersFirst(text) ==
  IF Has(text, "decimal") THEN "DECIMAL" ELSE IF Has(text, "int64") THEN "BIGINT" ELSE "LIST"

NormalizeDuckDBType(text) ==
  LET first == text[1]
      alone == Len(text) = 1
  IN  IF first = "timestamp" THEN "TIMESTAMP"
      ELSE IF Has(text, "timestamp") /\ Has(text, "tz") THEN "TIMESTAMPTZ"
      ELSE IF Has(text, "interval") THEN "INTERVAL"
      ELSE IF StartsWith(text, "list", Open) \/ Has(text, "[]") THEN "LIST"
      ELSE CASE StartsWith(text, "struct", Open) -> "STRUCT"
             [] StartsWith(text, "map", Open) -> "MAP"
             [] StartsWith(text, "dictionary", Open) -> "VARCHAR"
             [] alone /\ first \in {"int64", "bigint"} -> "BIGINT"
             [] first = "decimal" -> "DECIMAL"
             [] alone /\ first \in {"utf8", "varchar"} -> "VARCHAR"
             [] OTHER -> "UNKNOWN"

NormalizeBigQueryType(text) ==
  LET first == text[1]
  IN  CASE first = "string" -> "STRING"
        [] first = "timestamp" -> "TIMESTAMPTZ"
        [] first = "int64" -> "BIGINT"
        [] first = "numeric" -> "DECIMAL"
        [] first = "interval" -> "INTERVAL"
        [] first = "array" -> "ARRAY"
        [] first = "struct" -> "STRUCT"
        [] OTHER -> "UNKNOWN"

GetTypeCategory(dataType) ==
  CASE dataType \in {"BIGINT", "DECIMAL"} -> "NUMERIC"
    [] dataType \in {"VARCHAR", "STRING"} -> "STRING"
    [] dataType \in {"TIMESTAMP", "TIMESTAMPTZ", "INTERVAL"} -> "TEMPORAL"
    [] dataType \in {"LIST", "ARRAY", "STRUCT", "MAP"} -> "COMPLEX"
    [] OTHER -> "SPECIAL"

CategoryMeant(type) ==
  CASE type[1] \in {"int", "decimal"} -> "NUMERIC"
    [] type[1] \in {"text", "enum"} -> "STRING"
    [] type[1] \in {"stamp", "interval"} -> "TEMPORAL"
    [] type[1] \in {"list", "struct", "map"} -> "COMPLEX"

\* A column is of the kind of its own type, whatever types are nested in it.  Intervals
\* inside it, and timestamps beside a name with "tz", are taken for the column's type; a
\* list of timestamps, a map and an ENUM of a server are not recognised.
KindFound(type) ==
  LET Right(text, dataType) == GetTypeCategory(dataType) = CategoryMeant(type)
      Misled(text) == Has(text, "interval") \/ (Has(text, "timestamp") /\ Has(text, "tz"))
      arrow == ArrowText(type)
      server == TypeInfoToString(type)
      bigquery == BigQueryText(type)
  IN  /\ Right(arrow, NormalizeDuckDBType(arrow)) \/ Misled(arrow)
      /\ \/ Right(server, NormalizeDuckDBType(server)) \/ Misled(server) \/ type[1] = "enum"
         \/ server[1] = "timestamp" /\ Last(server) = "[]"
      /\ Right(bigquery, NormalizeBigQueryType(bigquery))

-----------------------------------------------------------------------------
(* Pieces of a text.                                                         *)

At(text, word) == {i \in DOMAIN text : text[i] = word}
First(text, words) == {i \in DOMAIN text : text[i] \in words /\ \A j \in 1 .. i - 1 : text[j] \notin words}
Depth(text, i, opening, closing) ==
  Cardinality({j \in 1 .. i : text[j] \in opening}) - Cardinality({j \in 1 .. i : text[j] \in closing})

\* What is between the first bracket and the one that closes it.
Content(text, opening, closing) ==
  LET start == First(text, {opening})
      ends == {i \in DOMAIN text : \E s \in start : i > s /\ Depth(text, i, {opening}, {closing}) = 0}
  IN  IF start = {} \/ ends = {} THEN <<>> ELSE SubSeq(text, Min(start) + 1, Min(ends) - 1)

\* The parts between all commas; as a way to split types, a bug that must be noticed.
Split_AnyComma(text) ==
  LET cuts == {0} \cup At(text, ",") \cup {Len(text) + 1}
  IN  IF text = <<>> THEN <<>>
      ELSE [k \in 1 .. Cardinality(cuts) - 1 |->
             LET from == CHOOSE c \in cuts : Cardinality({d \in cuts : d < c}) = k - 1
                 to == CHOOSE c \in cuts : Cardinality({d \in cuts : d < c}) = k
             IN  SubSeq(text, from + 1, to - 1)]
\* The parts between the commas that are in no bracket.
Split(text) ==
  LET cuts == {0} \cup {i \in At(text, ",") : Depth(text, i, Open, {">", ")"}) = 0} \cup {Len(text) + 1}
  IN  IF text = <<>> THEN <<>>
      ELSE [k \in 1 .. Cardinality(cuts) - 1 |->
             LET from == CHOOSE c \in cuts : Cardinality({d \in cuts : d < c}) = k - 1
                 to == CHOOSE c \in cuts : Cardinality({d \in cuts : d < c}) = k
             IN  SubSeq(text, from + 1, to - 1)]

-----------------------------------------------------------------------------
(* typeFormatter.ts.                                                         *)

IsComplexType(text) ==
  \/ text[1] \in {"struct", "list", "array", "map"}
  \/ Last(text) = "[]"
  \/ \E i \in 1 .. Len(text) - 1 : text[i] \in {"struct", "array", "list"} /\ text[i + 1] = "<"

ParseField(text) ==
  IF Has(text, ":") THEN <<text[1], SubSeq(text, 3, Len(text))>> ELSE <<text[1], Tail(text)>>

ParseStructFields(text) ==
  LET parts == Split(IF text[2] = "(" THEN Content(text, "(", ")") ELSE Content(text, "<", ">"))
  IN  [i \in DOMAIN parts |-> ParseField(parts[i])]

ExtractListElementType(text) ==
  CASE Last(text) = "[]" -> Front(text)
    [] Last(text) # "[]" /\ text[1] \in {"array", "list"} /\ text[2] = "<" -> Content(text, "<", ">")

ExtractMapTypes(text) == Split(Content(text, "(", ")"))

IsList(text) == text[1] \in {"list", "array"} \/ Last(text) = "[]"

ExtractNestedFields(text) ==
  CASE text[1] = "struct" -> ParseStructFields(text)
    [] text[1] # "struct" /\ IsList(text) -> <<<<"element", ExtractListElementType(text)>>>>
    [] text[1] = "map" /\ ~IsList(text) ->
         LET kv == ExtractMapTypes(text) IN <<<<"key", kv[1]>>, <<"value", kv[2]>>>>
    [] OTHER -> <<>>

RECURSIVE FormatTypeForTooltip(_), FormatTypeForBadge(_)

\* The tooltip without its lines and indents.
FormatTypeForTooltip(text) ==
  CASE text[1] = "struct" ->
         LET fields == ParseStructFields(text)
             Line(f) == <<f[1], ":">> \o (IF Len(fields) = 1 /\ ~IsComplexType(f[2]) THEN f[2] ELSE FormatTypeForTooltip(f[2]))
         IN  <<"struct", "(">> \o Joined([i \in DOMAIN fields |-> Line(fields[i])], <<",">>) \o <<")">>
    [] text[1] # "struct" /\ IsList(text) ->
         <<"array", "(">> \o FormatTypeForTooltip(ExtractListElementType(text)) \o <<")">>
    [] text[1] = "map" /\ ~IsList(text) ->
         LET kv == ExtractMapTypes(text)
         IN  <<"map", "(">> \o FormatTypeForTooltip(kv[1]) \o <<",">> \o FormatTypeForTooltip(kv[2]) \o <<")">>
    [] OTHER -> text

\* The badge: kinds, and the number of a struct's fields.
FormatTypeForBadge(text) ==
  CASE text[1] = "struct" -> <<"struct", Len(ParseStructFields(text))>>
    [] text[1] # "struct" /\ IsList(text) -> <<"list", FormatTypeForBadge(ExtractListElementType(text))>>
    [] text[1] = "map" /\ ~IsList(text) ->
         LET kv == ExtractMapTypes(text) IN <<"map", FormatTypeForBadge(kv[1]), FormatTypeForBadge(kv[2])>>
    [] OTHER -> <<"simple", text[1]>>

RECURSIVE TooltipMeant(_, _), BadgeMeant(_, _), ListOfStruct(_)

ChildrenMeant(type, writer) ==
  CASE type[1] = "struct" ->
         [i \in 1 .. Len(type) - 1 |-> <<type[i + 1][1], TextIn(type[i + 1][2], writer)>>]
    [] type[1] = "list" -> <<<<"element", TextIn(type[2], writer)>>>>
    [] type[1] = "map" -> <<<<"key", TextIn(type[2], writer)>>, <<"value", TextIn(type[3], writer)>>>>
    [] OTHER -> <<>>

TooltipMeant(type, writer) ==
  CASE type[1] = "struct" ->
         <<"struct", "(">>
           \o Joined([i \in 1 .. Len(type) - 1 |-> <<type[i + 1][1], ":">> \o TooltipMeant(type[i + 1][2], writer)], <<",">>)
           \o <<")">>
    [] type[1] = "list" -> <<"array", "(">> \o TooltipMeant(type[2], writer) \o <<")">>
    [] type[1] = "map" -> <<"map", "(">> \o TooltipMeant(type[2], writer) \o <<",">> \o TooltipMeant(type[3], writer) \o <<")">>
    [] OTHER -> TextIn(type, writer)

BadgeMeant(type, writer) ==
  CASE type[1] = "struct" -> <<"struct", Len(type) - 1>>
    [] type[1] = "list" -> <<"list", BadgeMeant(type[2], writer)>>
    [] type[1] = "map" -> <<"map", BadgeMeant(type[2], writer), BadgeMeant(type[3], writer)>>
    [] OTHER -> <<"simple", TextIn(type, writer)[1]>>

\* A list of structs as DuckDB and the connector write it begins with STRUCT.
ListOfStruct(type) ==
  \/ type[1] = "list" /\ (type[2][1] = "struct" \/ ListOfStruct(type[2]))
  \/ type[1] = "map" /\ \E i \in {2, 3} : ListOfStruct(type[i])
  \/ type[1] = "struct" /\ \E i \in 2 .. Len(type) : ListOfStruct(type[i][2])

\* The fields in the explorer, the tooltip and the badge are those of the type, with
\* their names, in order and however deep, but for lists of structs as DuckDB writes them.
FieldsFound(type, writer) ==
  LET text == TextIn(type, writer)
  IN  writer = "bigquery" \/ ~ListOfStruct(type) =>
        /\ ExtractNestedFields(text) = ChildrenMeant(type, writer)
        /\ FormatTypeForTooltip(text) = TooltipMeant(type, writer)
        /\ FormatTypeForBadge(text) = BadgeMeant(type, writer)

-----------------------------------------------------------------------------
(* mapToDuckDBType: regular expressions that end at the first closing bracket. *)

RECURSIVE MapToDuckDBType(_)

\* What an expression of the form "from, anything but stop, until" finds.
Until(text, from, stop) ==
  LET ends == {i \in from .. Len(text) : text[i] = stop} IN IF ends = {} THEN <<>> ELSE SubSeq(text, from, Min(ends) - 1)

\* name and type are the first two pieces between colons.
MapField(part) ==
  LET colons == At(part, ":")
      second == IF Cardinality(colons) = 1 THEN Len(part) ELSE Min(colons \ {2}) - 1
  IN  <<part[1]>> \o MapToDuckDBType(SubSeq(part, 3, second))

MapToDuckDBType(text) ==
  LET first == text[1]
      alone == Len(text) = 1
      inner == Until(text, 3, ">")
      content == Until(text, 4, "}")
      parts == Split_AnyComma(content)
      closed == content # <<>> /\ text[3] = "{" /\ Len(text) >= Len(content) + 5 /\ text[Len(content) + 5] = ">"
  IN  CASE StartsWith(text, "struct", {"<"}) ->
             IF closed THEN <<"struct", "(">> \o Joined([i \in DOMAIN parts |-> MapField(parts[i])], <<",">>) \o <<")">>
             ELSE <<"broken">>
        [] StartsWith(text, "list", {"<"}) ->
             IF inner = <<>> THEN <<"varchar", "[]">> ELSE MapToDuckDBType(inner) \o <<"[]">>
        [] alone /\ first = "utf8" -> <<"varchar">>
        [] alone /\ first = "int64" -> <<"bigint">>
        [] first = "decimal" -> <<"double">>
        [] first = "timestamp" -> <<"timestamp">>
        [] OTHER -> <<"varchar">>

RECURSIVE TableType(_)

\* Decimals become doubles, intervals and ENUMs texts.
TableType(type) ==
  CASE type[1] = "decimal" -> <<"double">>
    [] type[1] \in {"interval", "enum"} -> <<"varchar">>
    [] type[1] = "list" -> TableType(type[2]) \o <<"[]">>
    [] type[1] = "struct" ->
         <<"struct", "(">>
           \o Joined([i \in 1 .. Len(type) - 1 |-> <<type[i + 1][1]>> \o TableType(type[i + 1][2])], <<",">>)
           \o <<")">>
    [] OTHER -> DuckDBText(type)

\* The temporary table of an export gets the types of the result's columns, as long as a
\* list holds no brackets and a struct neither a struct nor a comma of its own.
TableTypeRight(type) ==
  LET simple == {<<"int">>, <<"text">>, <<"decimal">>}
      flat == CASE type[1] = "list" -> type[2] \in simple
                [] type[1] = "struct" ->
                     \A i \in 2 .. Len(type) :
                       \/ type[i][2][1] \notin {"struct", "list", "enum"}
                       \/ type[i][2][1] = "list" /\ type[i][2][2] \in simple
                [] OTHER -> TRUE
  IN  flat => MapToDuckDBType(ArrowText(type)) = TableType(type)
==============================================================================
