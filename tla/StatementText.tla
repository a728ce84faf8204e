---------------------------- MODULE StatementText ----------------------------
(***************************************************************************)
(* What is read from the text of a statement.                               *)
(*                                                                           *)
(* Which part of the text in the editor is run: extractQueryAtCursor of     *)
(* queryExtractor.ts.  A text is a sequence of tokens: "x" stands for any   *)
(* that is neither white space nor a separator; strings are left out (the   *)
(* code does not know them, and takes what is in them for separators).      *)
(*                                                                           *)
(* On which engine it is run: queryEngineDetector.ts adds the weights of the  *)
(* signals it finds in the statement, and handleRunQuery follows it, asks the *)
(* user to, or does not, as the settings say.  There a statement is the set   *)
(* of its signals; their patterns are left out.                              *)
(***************************************************************************)
EXTENDS Integers, Sequences, SequencesExt, FiniteSetsExt

Blank == {" ", "newline"}
Tokens == Blank \cup {"x", ";", "--", "/*", "*/"}

Where(s, t) == {i \in DOMAIN s : s[i] = t}
Kept(s, I) == FoldLeft(LAMBDA r, i : IF i \in I THEN Append(r, s[i]) ELSE r, <<>>, [i \in DOMAIN s |-> i])

\* String.trim
Trim(s) ==
  LET ink == {i \in DOMAIN s : s[i] \notin Blank}
  IN IF ink = {} THEN <<>> ELSE SubSeq(s, Min(ink), Max(ink))

\* Without the comments of several lines that are closed: what is left from token k on.
WithoutBlocks(s) ==
  LET from[k \in 1 .. Len(s) + 1] ==
        LET opens == {i \in Where(s, "/*") : i >= k}
            closes == {j \in Where(s, "*/") : opens # {} /\ j > Min(opens)}
        IN  IF closes = {} THEN SubSeq(s, k, Len(s))
            ELSE SubSeq(s, k, Min(opens) - 1) \o from[Min(closes) + 1]
  IN  from[1]

\* A bug that must be noticed: a comment lasts until the end of the text.
WithoutLineComments_ToEnd(s) == Kept(s, {k \in DOMAIN s : \A i \in Where(s, "--") : i > k})

WithoutLineComments(s) ==
  Kept(s, {k \in DOMAIN s : \A i \in Where(s, "--") : i <= k => \E n \in Where(s, "newline") : i < n /\ n <= k})

StripSQLComments(s) == Trim(WithoutLineComments(WithoutBlocks(s)))

\* The statements between the separators, with the positions of the cursor: 0 is
\* before the first token.  `end` is behind the separator.
Queries(text) ==
  LET cuts == Where(text, ";") \cup {Len(text) + 1}
      from(c) == Max({0} \cup {d \in cuts : d < c})
      part(c) == SubSeq(text, from(c) + 1, c - 1)
      ink(c) == {i \in from(c) + 1 .. c - 1 : text[i] \notin Blank}
      query(c) == [textStart |-> Min(ink(c)) - 1, text |-> Trim(part(c)),
                   end |-> IF c > Len(text) THEN Len(text) ELSE c]
  IN [i \in 1 .. Cardinality({c \in cuts : ink(c) # {}}) |->
        query(CHOOSE c \in cuts : ink(c) # {} /\ Cardinality({d \in cuts : d <= c /\ ink(d) # {}}) = i)]

\* The place of the query at the cursor: the first that the cursor is in or at the
\* end of, or that is followed by the white space it is in; else the last.
Chosen(q, cursor) ==
  LET hit == {i \in DOMAIN q : \/ i = 1 /\ cursor < q[1].textStart
                               \/ q[i].textStart <= cursor /\ cursor <= q[i].end
                               \/ i < Len(q) /\ q[i].end < cursor /\ cursor < q[i + 1].textStart}
  IN Min(hit \cup {Len(q)})

ExtractQueryAtCursor(text, cursor, selected) ==
  IF Trim(selected) # <<>> THEN StripSQLComments(Trim(selected))
  ELSE LET q == Queries(text)
       IN IF q = <<>> THEN StripSQLComments(Trim(text))
          ELSE StripSQLComments(q[Chosen(q, cursor)].text)

-----------------------------------------------------------------------------
(* What the user means. *)

\* For every token: is it code, or in a comment of a line or of several lines.
Reading(text) ==
  LET read[i \in 0 .. Len(text)] ==
        IF i = 0 THEN "code"
        ELSE LET before == IF read[i - 1] = "closed" THEN "code" ELSE read[i - 1]
             IN CASE before = "code" /\ text[i] = "--" -> "line"
                  [] before = "code" /\ text[i] = "/*" -> "block"
                  [] before = "line" /\ text[i] = "newline" -> "code"
                  [] before = "block" /\ text[i] = "*/" -> "closed"
                  [] OTHER -> before
  IN read

\* There is no separator and no other comment in a comment, and none is left open.
Plain(text) ==
  LET read == Reading(text)
  IN /\ \A i \in DOMAIN text :
          /\ text[i] \in {";", "--", "/*"} => read[i - 1] \in {"code", "closed"}
          /\ text[i] = "*/" => read[i - 1] = "block"
     /\ read[Len(text)] # "block"

\* What is run is the code of the last statement that begins before the cursor, or
\* right behind it unless the cursor touches the separator of another; if there is
\* none, of the first.  If everything is selected, it is all of the code.
RunsWhatIsMeant(text) ==
  Plain(text) =>
    LET read == Reading(text)
        all == {i \in DOMAIN text : read[i] = "code"}
        cuts == Where(text, ";")
        ink == {i \in DOMAIN text : text[i] \notin Blank \cup {";"}}
        same(i, j) == \A c \in cuts : ~(i <= c /\ c < j) /\ ~(j <= c /\ c < i)
        first == {i \in ink : \A j \in ink : same(i, j) => i <= j}
        touched(cursor) == cursor \in cuts /\ \E j \in ink : j < cursor /\ same(j, cursor)
        begun(cursor) == {i \in first : i <= cursor \/ (i = cursor + 1 /\ ~touched(cursor))}
        one(cursor) == Max(begun(cursor) \cup {Min(ink)})
        code(cursor) == Kept(text, {i \in all \ cuts : same(i, one(cursor))})
    IN /\ ExtractQueryAtCursor(text, 0, text) = Trim(Kept(text, all))
       /\ ink # {} => \A cursor \in 0 .. Len(text) :
            ExtractQueryAtCursor(text, cursor, <<>>) = Trim(code(cursor))

-----------------------------------------------------------------------------
(* What a statement that was executed has changed: handleRunQuery of            *)
(* useQueryExecution.ts looks at its words.  "." and brackets are words, and so  *)
(* is IF NOT EXISTS; a path or a name in quotes is the name.                   *)

Skip(s, words) == IF s # <<>> /\ s[1] \in words THEN Tail(s) ELSE s
Begins(s, words) == s # <<>> /\ s[1] \in words

DDL == {"CREATE", "DROP", "ALTER"}

\* A bug that must be noticed: OR REPLACE is not expected.
AfterVerb_Plain(s) == Tail(s)

AfterVerb(s) == Skip(Tail(s), {"OR REPLACE"})

IsDDLStatement(s) ==
  Begins(s, DDL) /\ Begins(Skip(AfterVerb(s), {"TEMP", "TEMPORARY"}), {"TABLE", "VIEW", "SCHEMA", "INDEX", "MACRO"})

Nowhere == "none"

\* The database before the first dot, if a table or view is meant that is not temporary.
ExtractTargetDatabase(s) ==
  LET object == Skip(AfterVerb(s), {"TEMPORARY"})
      name == Skip(Tail(object), {"IF EXISTS", "IF NOT EXISTS"})
  IN  IF /\ Begins(s, DDL) /\ Begins(object, {"TABLE", "VIEW"})
         /\ Len(name) > 1 /\ name[2] = "." /\ name[1] \notin {"memory", "main"}
      THEN name[1] ELSE Nowhere

IsNonSelectStatement(s) ==
  Begins(s, DDL \cup {"COPY", "INSERT", "UPDATE", "DELETE", "TRUNCATE", "EXPORT", "IMPORT", "ATTACH", "DETACH",
    "INSTALL", "LOAD", "SET", "PRAGMA", "CHECKPOINT", "VACUUM", "ANALYZE", "BEGIN", "COMMIT", "ROLLBACK", "CALL",
    "EXECUTE", "EXPLAIN", "SHOW", "DESCRIBE"})

NoAttach == [path |-> Nowhere, alias |-> Nowhere, readOnly |-> FALSE]

ParseAttachStatement(s) ==
  IF Begins(s, {"ATTACH"}) /\ Len(s) >= 4 /\ s[3] = "AS"
  THEN [path |-> s[2], alias |-> s[4], readOnly |-> IsPrefix(<<"ATTACH", s[2], "AS", s[4], "(", "READ_ONLY", ")">>, s)]
  ELSE NoAttach

ParseDetachStatement(s) ==
  LET alias == Skip(Skip(Tail(s), {"DATABASE"}), {"IF EXISTS"})
  IN  IF Begins(s, {"DETACH"}) /\ Len(alias) = 1 THEN alias[1] ELSE Nowhere

\* What is done after statement s: "session" or a database is refreshed, or one attached or
\* detached.
Noticed(s) ==
  [refreshed |-> IF ~IsDDLStatement(s) THEN Nowhere
                 ELSE IF ExtractTargetDatabase(s) # Nowhere THEN ExtractTargetDatabase(s) ELSE "session",
   attached |-> IF Begins(s, {"ATTACH"}) THEN ParseAttachStatement(s) ELSE NoAttach,
   detached |-> IF Begins(s, {"DETACH"}) THEN ParseDetachStatement(s) ELSE Nowhere]

\* How DuckDB lets a table or a view be created, replaced, changed or dropped; db is an
\* attached database, or Nowhere for one of the session, which has the name of its schema
\* main, or none.
Changes(db) ==
  LET name == IF db = Nowhere THEN {<<"t">>, <<"main", ".", "t">>, <<"memory", ".", "main", ".", "t">>}
              ELSE {<<db, ".", "t">>, <<db, ".", "s", ".", "t">>}
      created == {<<"CREATE">> \o r \o t \o <<o>> \o g :
                    r \in {<<>>, <<"OR REPLACE">>}, t \in (IF db = Nowhere THEN {<<>>, <<"TEMP">>, <<"TEMPORARY">>} ELSE {<<>>}),
                    o \in {"TABLE", "VIEW"}, g \in {<<>>, <<"IF NOT EXISTS">>}}
      others == {<<v, o>> \o g : v \in {"DROP", "ALTER"}, o \in {"TABLE", "VIEW"}, g \in {<<>>, <<"IF EXISTS">>}}
  IN  {begin \o n \o <<"end">> : begin \in created \cup others, n \in name}

Attaching(path, alias) == {<<"ATTACH", path, "AS", alias>> \o o : o \in {<<>>, <<"(", "READ_ONLY", ")">>}}
Detaching(alias) == {<<"DETACH">> \o d \o <<alias>> : d \in {<<>>, <<"DATABASE">>, <<"DATABASE", "IF EXISTS">>}}

\* Whatever changes a table or view has what it changes refreshed, and nothing else, and an
\* attached or detached database is noticed with its name and mode; all of them are run at
\* once, without a count or pages.  (A name like analytics.t is taken for that of a
\* database, also if analytics is a schema of the session; ATTACH without AS, with IF NOT
\* EXISTS or with other options is not noticed.)
ChangesAreNoticed ==
  LET Unchanged == [refreshed |-> Nowhere, attached |-> NoAttach, detached |-> Nowhere]
      notices(s, what) == Noticed(s) = what /\ IsNonSelectStatement(s)
  IN  /\ \A db \in {"sales", Nowhere} : \A s \in Changes(db) :
           notices(s, [Unchanged EXCEPT !.refreshed = IF db = Nowhere THEN "session" ELSE db])
      /\ \A s \in Attaching("x.db", "x") :
           notices(s, [Unchanged EXCEPT !.attached = [path |-> "x.db", alias |-> "x", readOnly |-> Len(s) = 7]])
      /\ \A s \in Detaching("x") : notices(s, [Unchanged EXCEPT !.detached = "x"])
      /\ \A s \in {<<"SELECT", "t">>, <<"WITH", "x", "SELECT">>, <<"FROM", "t">>} :
           Noticed(s) = Unchanged /\ ~IsNonSelectStatement(s)

-----------------------------------------------------------------------------
(* On which engine a statement is run.                                       *)

EngineNames == {"duckdb", "bigquery"}
Modes == {"off", "auto", "suggest"}

\* What each engine is known by, with its weight, in the words the code shows.
DuckDBDetector ==
  {<<10, {"read_csv", "read_parquet", "read_json", "read_json_auto", "read_csv_auto", "file path",
          "ATTACH", "DETACH", "INSTALL", "CREATE MACRO", "ASOF JOIN"}>>,
   <<9, {"S3 path", "COPY TO", "EXCLUDE", "COLUMNS", "glob", "PIVOT", "UNPIVOT"}>>,
   <<8, {"HTTP URL", "USE", "list_*", "LOAD", "QUALIFY", "generate_series", "TRY_CAST"}>>,
   <<7, {"REPLACE", "map_*", "struct_*"}>>,
   <<6, {"unnest"}>>,
   <<5, {"range"}>>}

BigQueryDetector ==
  {<<10, {"project.dataset.table", "SAFE_DIVIDE", "SAFE_CAST", "SAFE_MULTIPLY", "SAFE_NEGATE",
          "SAFE_ADD", "SAFE_SUBTRACT", "FOR SYSTEM_TIME", "_PARTITIONDATE", "_TABLE_SUFFIX",
          "_PARTITIONTIME", "CREATE MODEL", "ML.*"}>>,
   <<9, {"project-id", "GENERATE_ARRAY", "GENERATE_DATE_ARRAY", "GENERATE_TIMESTAMP_ARRAY"}>>,
   <<8, {"dataset.table", "PARSE_DATE", "FORMAT_DATE", "PARSE_TIMESTAMP", "FORMAT_TIMESTAMP",
         "STRUCT<>", "ARRAY<>", "DECLARE"}>>,
   <<6, {"DATE_TRUNC", "ST_*"}>>,
   <<5, {"OPTIONS"}>>}

Detector(e) == IF e = "duckdb" THEN DuckDBDetector ELSE BigQueryDetector
SignalsOf(e) == UNION {d[2] : d \in Detector(e)}
Signals == UNION {SignalsOf(e) : e \in EngineNames}

Score(e, sql) == MapThenSumSet(LAMBDA d : d[1] * Cardinality(sql \cap d[2]), Detector(e))

\* A bug that must be noticed: an engine that does not lead is not counted.
Ahead_TopOnly(best, e, score) ==
  IF score > best.top THEN [engine |-> e, top |-> score, second |-> best.top] ELSE best

Ahead(best, e, score) ==
  IF score > best.top THEN [engine |-> e, top |-> score, second |-> best.top]
  ELSE [best EXCEPT !.second = IF score > @ THEN score ELSE @]

Confidence(score) == CASE score >= 15 -> "high" [] score < 8 -> "low" [] OTHER -> "medium"

\* detectQueryEngine, of the engines in the order they are registered in.
DetectQueryEngine(registered, sql) ==
  LET none == [engine |-> "unknown", top |-> 0, second |-> 0]
      best == FoldLeft(LAMBDA b, e : Ahead(b, e, Score(e, sql)), none, registered)
  IN IF best.top = 0 \/ (best.second > 0 /\ best.top - best.second < 3)
     THEN [engine |-> "unknown", confidence |-> "low"]
     ELSE [engine |-> best.engine, confidence |-> Confidence(best.top)]

Target(detection) ==
  IF detection.engine = "bigquery" /\ detection.confidence # "low" THEN "bigquery" ELSE "duckdb"

\* The engine on which handleRunQuery goes on, or "none": the statement is not run.
EffectiveConnector(mode, current, available, sql) ==
  LET target == Target(DetectQueryEngine(<<"duckdb", "bigquery">>, sql))
  IN IF mode = "off" \/ target = current THEN current
     ELSE IF mode = "suggest" \/ target \notin available THEN "none"
     ELSE target

-----------------------------------------------------------------------------

Other(e) == CHOOSE f \in EngineNames : f # e
Grade(confidence) == CASE confidence = "low" -> 1 [] confidence = "medium" -> 2 [] OTHER -> 3

\* What an engine is found to be meant for does not depend on the order in which the
\* engines were registered; the signals of one engine alone decide for it; and what
\* is written for an engine is not taken from it by one more of its own signals, nor
\* given to it by one more of the other's.
FairlyDetected(sql) ==
  LET found(s) == DetectQueryEngine(<<"duckdb", "bigquery">>, s)
  IN /\ DetectQueryEngine(<<"bigquery", "duckdb">>, sql) = found(sql)
     /\ \A e \in EngineNames : sql \subseteq SignalsOf(e) /\ sql # {} => found(sql).engine = e
     /\ \A more \in Signals :
          LET e == IF more \in SignalsOf("duckdb") THEN "duckdb" ELSE "bigquery"
              then == found(sql \cup {more})
          IN /\ found(sql).engine = e =>
                  then.engine = e /\ Grade(then.confidence) >= Grade(found(sql).confidence)
             /\ then.engine = Other(e) => found(sql).engine = Other(e)

\* If engines are detected, a statement of DuckDB only is never run on BigQuery, one
\* that is surely of BigQuery never on DuckDB, and none on BigQuery that is not
\* connected; if not, it is run where the user says.
SentToItsEngine(sql) ==
  \A mode \in Modes, current \in EngineNames, available \in {EngineNames, {"duckdb"}} :
    LET ran == EffectiveConnector(mode, current, available, sql)
        meant == {e \in EngineNames : Score(e, sql) > 0}
    IN /\ mode = "off" => ran = current
       /\ mode # "off" =>
            /\ meant \subseteq {"duckdb"} => ran # "bigquery"
            /\ meant = {"bigquery"} /\ Score("bigquery", sql) >= 8 => ran # "duckdb"
            /\ ran = "bigquery" => current = "bigquery" \/ ran \in available
            /\ ran = "none" => mode = "suggest" \/ current = "duckdb"
=============================================================================
