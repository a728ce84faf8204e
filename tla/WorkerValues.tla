----------------------------- MODULE WorkerValues -----------------------------
(***************************************************************************)
(* What the worker makes of the values of a row before it sends them           *)
(* (convertBigIntToNumber in worker.ts): JSON has no large integers, decimals,  *)
(* intervals or bytes, so each becomes a number or a text.  The code looks up    *)
(* scales and types by FIELD NAME, also below the top of a value.               *)
(*                                                                           *)
(* A column is [name, type]; types and values are tuples that begin with their   *)
(* kind: <<"int">>, <<"decimal", scale>>, <<"list", type>>,                      *)
(* <<"struct", field, type>>; <<"decimal", unscaled>>, <<"list", <<value>>>>,     *)
(* <<"struct", field, value>>.  A number of JSON is <<"number", value, divisor>>. *)
(* The code's 2^53 is Safe, and its units of time and words are scaled down.     *)
(***************************************************************************)
EXTENDS Integers, Sequences, FiniteSets

CONSTANTS Columns,    \* the names of columns, and of fields
          Safe,       \* the largest number a double holds exactly, and its negative the smallest
          FirstBatch  \* rows in the first batch of a result

Minute == 2
Hour == 4
WordSize == 4  \* bits of a word are scaled: an integer is two words of 0 .. WordSize - 1
Scales == {1, 2}
Leaves == {"int", "bigint", "hugeint", "words", "float", "interval", "enum", "blob"}

LeafTypes == {<<k>> : k \in Leaves} \cup {<<"decimal", s>> : s \in Scales}
Types ==
  LeafTypes \cup {<<"list", t>> : t \in LeafTypes}
            \cup {<<"struct", f, t>> : f \in Columns \cup {"other"}, t \in LeafTypes}

LeafValues(kind) ==
  CASE kind \in {"int", "decimal"} -> {<<kind, n>> : n \in {-1, 6}}
    [] kind \in {"bigint", "hugeint", "words"} -> {<<kind, n>> : n \in {-5, 3, 7}}
    [] kind = "float" -> {<<"float", 1>>, <<"nan">>}
    [] kind = "interval" -> {<<"interval", -13, 1, -6>>, <<"interval", 1, -1, 3>>, <<"interval", 0, 0, -1>>}
    [] kind = "enum" -> {<<"enum", "red">>}
    [] kind = "blob" -> {<<"blob", <<1, 2>>>>}

ValuesOf(type) ==
  {<<"null">>} \cup
  CASE type[1] = "list" -> {<<"list", <<v>>>> : v \in LeafValues(type[2][1])}
    [] type[1] = "struct" -> {<<"struct", type[2], v>> : v \in LeafValues(type[3][1])}
    [] OTHER -> LeafValues(type[1])

Null == <<"null">>
Word(x) == <<"word", x>>
Number(n) == <<"number", n, 1>>
Abs(n) == IF n < 0 THEN -n ELSE n

\* An integer is a number as long as a double holds it, then a text.
Preserved(n) == IF Abs(n) > Safe THEN <<"digits", n>> ELSE Number(n)

\* The words of an integer, low word first, and uint32ArrayToNumeric.
WordsOf(n) == LET m == n % (WordSize * WordSize) IN <<m % WordSize, m \div WordSize>>
\* A bug that must be noticed: the highest bit is not taken for the sign.
Uint32ArrayToNumeric_Unsigned(w) == Preserved(w[1] + w[2] * WordSize)
Uint32ArrayToNumeric(w) ==
  LET whole == w[1] + w[2] * WordSize
      signBit == (WordSize * WordSize) \div 2
  IN  Preserved(IF whole >= signBit THEN whole - WordSize * WordSize ELSE whole)

\* A double beyond Safe holds only even numbers.
Double(n) == IF Abs(n) > Safe THEN 2 * (n \div 2) ELSE n
Scaled(n, scale) == <<"number", Double(n), 10 ^ scale>>

-----------------------------------------------------------------------------
(* Intervals: the parts that are not zero, each with its sign.               *)

Part(amount, unit, negative) == IF amount = 0 THEN <<>> ELSE <<<<unit, amount, negative>>>>

MonthParts(months) ==
  LET years == Abs(months) \div 12
  IN  Part(years, "y", months < 0) \o Part(Abs(months) % 12, "mo", months < 0 /\ years = 0)
TimeParts(nanos) ==
  LET whole == Abs(nanos)
  IN  Part(whole \div Hour, "h", nanos < 0) \o Part((whole % Hour) \div Minute, "m", FALSE)
        \o Part(whole % Minute, "s", FALSE)

\* The nanoseconds are two words, the lower without sign.
FromWords(nanos) == (nanos % WordSize) + (nanos \div WordSize) * WordSize

\* Only the raw values of the first batch are kept, and found by the row's number.
Interval(v, column, row) ==
  LET found == column = <<"interval">> /\ row <= FirstBatch /\ v[1] = "interval"
      parts == IF found THEN MonthParts(v[2]) \o Part(Abs(v[3]), "d", v[3] < 0) \o TimeParts(FromWords(v[4]))
               ELSE <<>>
  IN  <<"span", parts>>

-----------------------------------------------------------------------------
(* convertBigIntToNumber.                                                    *)

RECURSIVE Holds(_, _), Trip(_), Convert(_, _, _, _)

\* The text of a type names what is inside it.
Holds(type, kind) ==
  \/ type[1] = kind
  \/ type[1] = "list" /\ Holds(type[2], kind)
  \/ type[1] = "struct" /\ Holds(type[3], kind)

\* JSON of a row as Arrow writes it: decimals are quoted, bytes and words have keys.
Trip(v) ==
  CASE v[1] \in {"int", "float"} -> Number(v[2])
    [] v[1] \in {"null", "nan"} -> Null
    [] v[1] = "enum" -> Word(v[2])
    [] v[1] \in {"decimal", "hugeint"} -> <<"quoted", v[2]>>
    [] v[1] \in {"words", "blob", "interval"} -> <<"keyed", v>>
    [] v[1] = "list" -> <<"list", <<Trip(v[2][1])>>>>
    [] v[1] = "struct" -> <<"struct", v[2], Trip(v[3])>>

\* types: the type of each column, by name; a field that is no column has none.
Convert(v, field, types, row) ==
  LET type == IF field \in DOMAIN types THEN types[field] ELSE <<"none">>
      plain == v[1] \in {"null", "bigint", "int", "float", "nan", "enum"}
  IN  CASE v[1] \in {"null", "nan"} -> Null
        [] v[1] = "bigint" -> Preserved(v[2])
        [] v[1] \in {"int", "float"} -> Number(v[2])
        [] v[1] = "enum" -> Word(v[2])
        [] ~plain /\ Holds(type, "enum") -> <<"joined", v>>
        [] v[1] \in {"decimal", "hugeint"} /\ ~Holds(type, "enum") ->
             IF type[1] = "decimal" THEN Scaled(v[2], type[2]) ELSE Preserved(v[2])
        [] v[1] = "blob" /\ ~Holds(type, "enum") -> <<"hex", v[2]>>
        [] v[1] = "words" /\ ~Holds(type, "enum") -> Uint32ArrayToNumeric(WordsOf(v[2]))
        [] v[1] \in {"interval", "list", "struct"} /\ ~Holds(type, "enum") /\ Holds(type, "interval") ->
             Interval(v, type, row)
        [] v[1] = "interval" /\ ~Holds(type, "enum") /\ ~Holds(type, "interval") -> <<"keyed", v>>
        [] v[1] = "list" /\ ~Holds(type, "enum") /\ ~Holds(type, "interval") ->
             <<"list", <<Convert(v[2][1], field, types, row)>>>>
        [] v[1] = "struct" /\ ~Holds(type, "enum") /\ ~Holds(type, "interval") ->
             <<"struct", v[2], Convert(v[3], v[2], types, row)>>

Inner(v) == CASE v[1] = "list" -> v[2][1] [] v[1] = "struct" -> v[3] [] OTHER -> v

\* A table with an ENUM goes through JSON, which a large integer makes fail.
ConvertBigIntToNumber(values, types, row) ==
  IF /\ \E c \in DOMAIN types : Holds(types[c], "enum")
     /\ \A c \in DOMAIN values : Inner(values[c])[1] # "bigint"
  THEN [c \in DOMAIN values |-> Trip(values[c])]
  ELSE [c \in DOMAIN values |-> Convert(values[c], c, types, row)]

-----------------------------------------------------------------------------
(* What is meant.                                                            *)

RECURSIVE Meant(_, _)

\* The span that the parts of an interval say: a sign holds for its years and months,
\* its days, or its hours, minutes and seconds.
Says(parts) ==
  LET Of(unit) == LET s == SelectSeq(parts, LAMBDA p : p[1] = unit) IN IF s = <<>> THEN 0 ELSE s[1][2]
      Minus(units) == IF \E i \in DOMAIN parts : parts[i][1] \in units /\ parts[i][3] THEN -1 ELSE 1
  IN  <<Minus({"y", "mo"}) * (12 * Of("y") + Of("mo")),
        Minus({"d"}) * Of("d"),
        Minus({"h", "m", "s"}) * (Hour * Of("h") + Minute * Of("m") + Of("s"))>>

\* By the type of the value itself, wherever it stands.
Meant(v, type) ==
  CASE v[1] \in {"null", "nan"} -> Null
    [] v[1] \in {"int", "float"} -> Number(v[2])
    [] v[1] \in {"bigint", "hugeint", "words"} -> Preserved(v[2])
    [] v[1] = "decimal" -> <<"number", v[2], 10 ^ type[2]>>
    [] v[1] = "enum" -> Word(v[2])
    [] v[1] = "blob" -> <<"hex", v[2]>>
    [] v[1] = "interval" -> <<"span", <<v[2], v[3], v[4]>>>>
    [] v[1] = "list" -> <<"list", <<Meant(v[2][1], type[2])>>>>
    [] v[1] = "struct" -> <<"struct", v[2], Meant(v[3], type[3])>>

Read(j) == IF j[1] = "span" THEN <<"span", Says(j[2])>> ELSE j

\* What the code is known to get wrong.
NotExact(v, type, types, row) ==
  LET in == Inner(v)  \* the leaf
      nested == type[1] \in {"list", "struct"}
      enums == \E c \in DOMAIN types : Holds(types[c], "enum")
  IN  \/ in[1] = "decimal" /\ (nested \/ Abs(in[2]) > Safe)
      \/ in[1] = "hugeint" /\ type[1] = "struct" /\ type[2] \in DOMAIN types /\ types[type[2]][1] = "decimal"
      \/ in[1] = "interval" /\ (nested \/ row > FirstBatch \/ (in[4] < 0 /\ Abs(in[4]) < Hour))
      \/ enums /\ (in[1] \in {"decimal", "hugeint", "words", "blob", "interval"} \/ (nested /\ in[1] = "enum"))

\* Every value of a row arrives in the page as what it is, but for NotExact: wherever in
\* the row and beside whatever columns, a large integer keeps its digits, a decimal its
\* scale, an interval its sign and a byte its hex.
SentAsStored(values, types, row) ==
  LET sent == ConvertBigIntToNumber(values, types, row)
  IN  \A c \in DOMAIN values :
        \/ values[c] = Null /\ sent[c] = Null
        \/ NotExact(values[c], types[c], types, row)
        \/ Read(sent[c]) = Meant(values[c], types[c])
=============================================================================
