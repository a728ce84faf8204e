----------------------------- MODULE NestedValues -----------------------------
(***************************************************************************)
(* Values inside values, on their way through the web client: BigQuery sends    *)
(* every value as a text, wrapped once more in every list and record; the       *)
(* cell unpacks what came packed and reads texts that look like JSON; an export *)
(* to Parquet unpacks vectors and writes values as SQL.                         *)
(*                                                                           *)
(* A value is <<kind, what it holds>>: a number, a text (its characters), a     *)
(* date, a list (a sequence), an object (a function of its keys), "blob", a     *)
(* list packed in the buffers of Arrow, or "json", a text that is the JSON of a *)
(* value; an object without keys is Empty.                                     *)
(***************************************************************************)
EXTENDS Integers, Sequences, FiniteSetsExt
LOCAL INSTANCE SequencesExt

CONSTANTS Exact,   \* the largest integer a number of JavaScript stands for exactly
          MaxDepth \* how deep texts are read as JSON, 10

Null == <<"null">>
Empty == <<"empty">>
Number(n) == <<"number", n>>
Text(s) == <<"text", s>>
List(s) == <<"list", s>>
Object(f) == <<"object", f>>
Date(n) == <<"date", n>>
Json(v) == <<"json", v>>

Each(s, Op(_)) == <<>> \o [i \in 1 .. Len(s) |-> Op(s[i])]

-----------------------------------------------------------------------------
(* BigQuery.  A field is [type, repeated, fields], a record having two fields. *)

Repeated(f) == [f EXCEPT !.repeated = TRUE]
Leaf(t) == [type |-> t, repeated |-> FALSE]
Record(f, g) == [type |-> "STRUCT", repeated |-> FALSE, fields |-> <<f, g>>]
Names == <<"a", "b">>

Wrapped(v) == Object([v |-> v])

RECURSIVE Sent(_, _)
\* How the value x of a field is sent.
Sent(x, f) ==
  CASE x = Null -> Null
    [] f.repeated -> List(Each(x[2], LAMBDA y : Wrapped(Sent(y, [f EXCEPT !.repeated = FALSE]))))
    [] ~f.repeated /\ f.type = "STRUCT" ->
         Object([f |-> List(<<Wrapped(Sent(x[2].a, f.fields[1])), Wrapped(Sent(x[2].b, f.fields[2]))>>)])
    [] f.type = "INT64" -> <<"digits", x[2]>>
    [] f.type = "TIMESTAMP" -> <<"digits", x[2] \div 1000>>
    [] f.type = "BOOL" -> Text(IF x[2] THEN <<"true">> ELSE <<"false">>)
    [] f.type = "JSON" -> Json(x)
    [] OTHER -> x

\* parseInt: a number, to the nearest double.
ParseInt(n) == Number(IF n > Exact THEN 2 * ((n + 1) \div 2) ELSE n)

RECURSIVE ParseValue(_, _)

\* A bug that must be noticed: the items of a list are taken as they are.
ParseItems_Raw(items, f) == List(Each(items, LAMBDA y : y[2].v))

\* Every item is unwrapped and parsed as a field of its type.
ParseItems(items, f) == List(Each(items, LAMBDA y : ParseValue(y[2].v, [f EXCEPT !.repeated = FALSE])))

ParseStruct(parts, f) == Object([k \in {"a", "b"} |-> 
  LET i == IF k = Names[1] THEN 1 ELSE 2 IN ParseValue(parts[i][2].v, f.fields[i])])

\* What a value that was sent is taken for.
ParseValue(raw, f) ==
  CASE raw = Null -> Null
    [] f.repeated /\ raw[1] = "list" -> ParseItems(raw[2], f)
    [] ~f.repeated /\ raw[1] = "list" -> List(Each(raw[2], LAMBDA y : y[2].v))
    [] f.type = "STRUCT" /\ raw[1] = "object" -> ParseStruct(raw[2].f[2], f)
    [] f.type = "INT64" -> ParseInt(raw[2])
    [] f.type = "TIMESTAMP" -> Date(1000 * raw[2])
    [] f.type = "BOOL" -> <<"bool", raw[2] = <<"true">> >>
    [] f.type = "JSON" -> IF raw[1] = "json" THEN raw[2] ELSE raw
    [] OTHER -> raw

\* Rows by the names of their columns; without a schema they stay as they are.
ParseRows(rows, fields) ==
  IF fields = <<>> THEN rows
  ELSE Each(rows, LAMBDA row : [k \in {"a", "b"} |->
         LET i == IF k = Names[1] THEN 1 ELSE 2 IN ParseValue(row.f[i].v, fields[i])])

-----------------------------------------------------------------------------
(* A cell. *)

RECURSIVE DeepDecodeArrowJson(_)
\* Lists in buffers are unpacked wherever they are; a date is an object without keys.
DeepDecodeArrowJson(v) ==
  CASE v[1] \in {"blob", "list"} -> List(Each(v[2], DeepDecodeArrowJson))
    [] v[1] = "object" -> Object([k \in DOMAIN v[2] |-> DeepDecodeArrowJson(v[2][k])])
    [] v[1] = "date" -> Empty
    [] OTHER -> v

\* A text is read as JSON if it begins like an object or a text.
LooksLikeJson(v) == v[1] = "json" /\ v[2][1] \in {"object", "text", "json"}

RECURSIVE Unwrapped(_, _)
\* A bug that must be noticed: what was read is read again.
Inner_Again(v, depth) == Unwrapped(v, depth)

\* What is read: an object's parts are unwrapped, a text is left as it is.
Inner(v, depth) == IF v[1] = "object" THEN Unwrapped(v, depth) ELSE v

Unwrapped(v, depth) ==
  IF depth > MaxDepth THEN v
  ELSE CASE LooksLikeJson(v) -> Inner(v[2], depth)
         [] v[1] = "list" -> List(Each(v[2], LAMBDA y : Unwrapped(y, depth + 1)))
         [] v[1] = "object" -> Object([k \in DOMAIN v[2] |-> Unwrapped(v[2][k], depth + 1)])
         [] v[1] = "date" -> Empty
         [] OTHER -> v

\* Only what a value holds is unwrapped, not the value.
UnwrapStringifiedValues(v) == IF v[1] \in {"list", "object", "date"} THEN Unwrapped(v, -1) ELSE v

\* What the text of a cell says.  Texts are read as JSON inside a record only; in a list
\* each item is written as it is.
FormatComplex(v, kind) ==
  LET w == DeepDecodeArrowJson(v)
  IN  CASE kind = "list" -> IF w[1] = "json" /\ w[2][1] = "list" THEN w[2] ELSE w
        [] w[1] = "json" -> w[2]
        [] kind = "struct" -> UnwrapStringifiedValues(w)
        [] OTHER -> w

\* Numbers in hundredths.  Bigints, and texts but for a DOUBLE, keep their digits, a DECIMAL
\* that comes as a number is rounded, a DOUBLE close to zero or large is given five digits
\* and an exponent.
Round(n, unit) == IF n >= 0 THEN ((n + unit \div 2) \div unit) * unit ELSE -(((unit \div 2 - n) \div unit) * unit)
Magnitude(n) == Max({k \in 0 .. 9 : k = 0 \/ 10 ^ k <= (IF n < 0 THEN -n ELSE n)})
FormatNumeric(form, type, n, unit, tiny, huge) ==
  LET size == IF n < 0 THEN -n ELSE n
  IN  IF form = "bigint" \/ (form = "text" /\ type # "DOUBLE") THEN [shown |-> n, exponent |-> FALSE]
      ELSE CASE type = "DECIMAL" -> [shown |-> Round(n, unit), exponent |-> FALSE]
             [] type = "DOUBLE" /\ n # 0 /\ (size < tiny \/ size > huge) ->
                  [shown |-> Round(n, 10 ^ Max({0, Magnitude(n) - 4})), exponent |-> TRUE]
             [] OTHER -> [shown |-> n, exponent |-> FALSE]

\* The first eight bytes, and how many there are.
FormatBinary(bytes) == [hex |-> SubSeq(bytes, 1, Min({8, Len(bytes)})), more |-> Len(bytes) > 8, count |-> Len(bytes)]

-----------------------------------------------------------------------------
(* Typed arrays of Arrow: what an element is turned into. *)

BigInt64ToNumeric(n) == IF n > Exact \/ n < -Exact THEN <<"numeral", n>> ELSE Number(n)
BigUint64ToNumeric(n) == IF n > Exact THEN <<"numeral", n>> ELSE Number(n)
FloatToNumber(x) == IF x[1] \in {"NaN", "infinite"} THEN Null ELSE x

\* elements is what an array holds, or one integer in words; index is counted from 1.
ConvertTypedArrayValue(array, elements, index) ==
  IF array = "Uint32Array" THEN BigInt64ToNumeric(elements[1])
  ELSE IF index > Len(elements) THEN Null
  ELSE CASE array = "BigInt64Array" -> BigInt64ToNumeric(elements[index])
         [] array = "BigUint64Array" -> BigUint64ToNumeric(elements[index])
         [] array \in {"Float32Array", "Float64Array"} -> FloatToNumber(elements[index])
         [] OTHER -> Number(elements[index])

-----------------------------------------------------------------------------
(* Big integers, on their way out of the service. *)

RECURSIVE ConvertBigIntToNumber(_)
\* The numbers they are, wherever they are; a date stays what it is.
ConvertBigIntToNumber(v) ==
  CASE v[1] = "bigint" -> Number(v[2])
    [] v[1] = "list" -> List(Each(v[2], ConvertBigIntToNumber))
    [] v[1] = "object" -> Object([k \in DOMAIN v[2] |-> ConvertBigIntToNumber(v[2][k])])
    [] OTHER -> v

-----------------------------------------------------------------------------
(* Vectors on their way into a Parquet file. *)

IndexKeys == <<"0", "1", "2">>
Indices(f) == SelectSeq(IndexKeys, LAMBDA k : k \in DOMAIN f)
ArrowFields == {"type", "offset", "length", "nullCount", "nullBitmap", "values", "valueOffsets",
                "_offsets", "stride", "numChildren", "children", "data"}

\* A list, or an object with the indices for keys.
ArrayOf(v) == IF v[1] = "list" THEN v[2] ELSE IF v[1] = "object" THEN Each(Indices(v[2]), LAMBDA k : v[2][k]) ELSE <<>>

Held(f, k) == IF k \in DOMAIN f THEN ArrayOf(f[k]) ELSE <<>>

\* Texts are bytes in one buffer, cut at the offsets.
TextsOf(bytes, offsets) ==
  [i \in 1 .. Len(offsets) - 1 |-> Text(SubSeq(bytes, offsets[i][2] + 1, offsets[i + 1][2]))]

RECURSIVE CleanArrowMetadata(_)
\* A vector becomes the list of its values, found under data, values or the indices; an
\* object loses its indices; nothing is left of an empty one.
CleanArrowMetadata(v) ==
  IF v[1] = "list" THEN List(Each(v[2], CleanArrowMetadata))
  ELSE IF v[1] = "empty" THEN Null
  ELSE IF v[1] # "object" THEN v
  ELSE LET f == v[2]
           data == Held(f, "data")
           found == IF data # <<>> THEN data
                    ELSE IF Held(f, "values") # <<>> THEN Held(f, "values")
                    ELSE Each(Indices(f), LAMBDA k : f[k])
           kept == DOMAIN f \ Range(IndexKeys)
       IN  IF DOMAIN f \cap ArrowFields # {}
           THEN IF data # <<>> /\ Len(Held(f, "_offsets")) > 1
                THEN List(TextsOf(data, Held(f, "_offsets")))
                ELSE IF found = <<>> THEN Null ELSE List(Each(found, CleanArrowMetadata))
           ELSE IF kept = {} THEN Null
           ELSE Object([k \in kept |-> CleanArrowMetadata(f[k])])

\* A bug that must be noticed: a quote ends the text it is in.
Quoted_Plain(s) == <<"'">> \o s \o <<"'">>

\* A quote in a text is doubled.
Quoted(s) == <<"'">> \o FlattenSeq(Each(s, LAMBDA c : IF c = "'" THEN <<c, c>> ELSE <<c>>)) \o <<"'">>

Joined(texts) == FlattenSeq([i \in 1 .. Len(texts) |-> (IF i > 1 THEN <<",">> ELSE <<>>) \o texts[i]])

RECURSIVE SerializeValueForSQL(_)
SerializeValueForSQL(v) ==
  CASE v[1] = "null" -> <<"NULL">>
    [] v[1] = "text" -> Quoted(v[2])
    [] v[1] = "bool" -> IF v[2] THEN <<"TRUE">> ELSE <<"FALSE">>
    [] v[1] = "list" -> <<"[">> \o Joined(Each(v[2], SerializeValueForSQL)) \o <<"]">>
    [] v[1] = "object" ->
         <<"{">> \o Joined([i \in 1 .. Cardinality(DOMAIN v[2]) |->
                      LET k == SetToSortSeq(DOMAIN v[2], LAMBDA x, y : x = "a" /\ y # "a")[i]
                      IN  <<"'", k, "'", ":">> \o SerializeValueForSQL(v[2][k])]) \o <<"}">>
    [] OTHER -> <<IF v[2] = 0 THEN "0" ELSE "1">>

-----------------------------------------------------------------------------
(* Values and fields to look at. *)

Lists(S, n) == {List(s) : s \in UNION {[1 .. k -> S] : k \in 0 .. n}}
LeafTypes == {"INT64", "STRING", "TIMESTAMP", "BOOL", "JSON"}
LeafFields == {Leaf(t) : t \in LeafTypes} \cup {Repeated(Leaf(t)) : t \in LeafTypes}
RecordFields == {Record(f, g) : f, g \in LeafFields}
Fields == LeafFields \cup RecordFields \cup {Repeated(f) : f \in RecordFields}

LeafValues(t) ==
  CASE t = "INT64" -> {Number(0), Number(Exact)}
    [] t = "STRING" -> {Text(<<"x">>), Json(Object([c |-> Number(1)]))}
    [] t = "TIMESTAMP" -> {Date(0), Date(-2000)}
    [] t = "BOOL" -> {<<"bool", TRUE>>, <<"bool", FALSE>>}
    [] t = "JSON" -> {Object([c |-> Text(<<"x">>)]), List(<<Number(1)>>)}

RECURSIVE ValuesOf(_)
ValuesOf(f) ==
  IF f.repeated THEN Lists(ValuesOf([f EXCEPT !.repeated = FALSE]) \ {Null}, IF f.type = "STRUCT" THEN 1 ELSE 2)
  ELSE {Null} \cup
       IF f.type = "STRUCT"
       THEN {Object([a |-> x, b |-> y]) : x \in ValuesOf(f.fields[1]), y \in ValuesOf(f.fields[2])}
       ELSE LeafValues(f.type)

Kind(f) == IF f.repeated THEN "list" ELSE IF f.type = "STRUCT" THEN "struct" ELSE "json"

\* What a cell is known to show of a value in a list or record: an object without keys for
\* a date, and in a record what a text that is the JSON of an object stands for.
RECURSIVE AsShown(_, _)
AsShown(v, kind) ==
  CASE v[1] = "date" -> Empty
    [] v[1] = "json" /\ kind = "struct" -> v[2]
    [] v[1] = "list" -> List(Each(v[2], LAMBDA y : AsShown(y, kind)))
    [] v[1] = "object" -> Object([k \in DOMAIN v[2] |-> AsShown(v[2][k], kind)])
    [] OTHER -> v

\* A value of BigQuery is taken for itself, in lists and records too, and so is a row; a
\* cell shows a record or a list with all its parts, but for dates, and in a record for
\* texts that look like JSON.
BigQueryShown(f) ==
  \A x \in ValuesOf(f) :
    LET v == ParseValue(Sent(x, f), f)
    IN  /\ v = x
        /\ ParseRows(<<[f |-> <<[v |-> Sent(x, f)], [v |-> Null]>>]>>, <<f, f>>) = <<[a |-> x, b |-> Null]>>
        /\ (f.repeated \/ f.type \in {"STRUCT", "JSON"}) => FormatComplex(v, Kind(f)) = AsShown(x, Kind(f))

Leaves == {Null, Number(1), Text(<<"x">>), Text(<<>>), Text(<<"'", ",", "'">>), <<"bool", TRUE>>}
Flat == Leaves \cup Lists(Leaves, 2) \cup {Object([a |-> x, b |-> y]) : x, y \in Leaves}

\* Lists in buffers are unpacked however deep they are, with the same items in the same places.
BlobsGone ==
  \A s \in Lists(Leaves, 2) :
    LET blob == <<"blob", s[2]>>
    IN  /\ DeepDecodeArrowJson(Object([a |-> blob, b |-> List(<<blob>>)])) = Object([a |-> s, b |-> List(<<s>>)])
        /\ DeepDecodeArrowJson(<<"blob", <<blob>> >>) = List(<<s>>)

\* A text that is the JSON of a text is read once.
ReadOnce ==
  \A x \in Leaves \cup {Json(Text(<<"x">>)), Json(Object([c |-> Null]))} :
    UnwrapStringifiedValues(Object([a |-> Json(Json(x))])) = Object([a |-> Json(x)])

Bytes == Each(<<1, 2, 3>>, Number)
VectorOf(s, shape) ==
  LET keyed == Object([k \in {IndexKeys[i] : i \in 1 .. Len(s)} |-> s[SelectInSeq(IndexKeys, LAMBDA x : x = k)]])
  IN  CASE shape = "data" -> Object([data |-> List(s), length |-> Number(Len(s))])
        [] shape = "data by index" -> Object([data |-> keyed, stride |-> Number(1)])
        [] shape = "values" -> Object([data |-> Null, values |-> List(s)])
        [] shape = "values by index" -> Object([values |-> keyed])

\* A vector becomes the list of its values, whatever it is packed in, and its texts are cut
\* at their offsets; values without vectors stay as they are; and no two values are written
\* in the same way.
ParquetAsStored ==
  /\ \A shape \in {"data", "data by index", "values", "values by index"} :
       \A s \in Lists(Leaves, 2) : s[2] # <<>> => CleanArrowMetadata(VectorOf(s[2], shape)) = s
  /\ \A cut \in 0 .. 3 :
       CleanArrowMetadata(Object([data |-> List(Bytes), _offsets |-> List(<<Number(0), Number(cut), Number(3)>>)]))
         = List(<<Text(SubSeq(Bytes, 1, cut)), Text(SubSeq(Bytes, cut + 1, 3))>>)
  /\ \A x \in Flat : CleanArrowMetadata(x) = x
  /\ \A x, y \in Flat : SerializeValueForSQL(x) = SerializeValueForSQL(y) => x = y

\* No digit of a text or a bigint is lost, and of a number no more than the places or the
\* five digits say; an element of a typed array is itself, as a number only if exact.
NumbersShown ==
  /\ \A n \in {-123456, -1005, -149, -1, 0, 1, 4, 5, 149, 151, 99999, 123456}, t \in {"INTEGER", "DECIMAL", "DOUBLE"} :
       /\ \A form \in {"bigint", "text"} :
            (form = "text" => t # "DOUBLE") => FormatNumeric(form, t, n, 10, 5, 100000).shown = n
       /\ LET d == FormatNumeric("number", t, n, 10, 5, 100000).shown - n IN -5 <= d /\ d <= 5
  /\ \A n \in -2 * Exact .. 2 * Exact, a \in {"Uint32Array", "BigInt64Array", "BigUint64Array"} :
       LET v == ConvertTypedArrayValue(a, <<n>>, 1)
       IN  (n >= 0 \/ a # "BigUint64Array") => v[2] = n /\ (v[1] = "number" <=> -Exact <= n /\ n <= Exact)
  /\ \A x \in {Number(1), <<"NaN">>, <<"infinite">>}, a \in {"Float32Array", "Float64Array"}, i \in 1 .. 3 :
       ConvertTypedArrayValue(a, <<Number(0), x>>, i) = IF i = 1 THEN Number(0) ELSE IF i = 2 /\ x = Number(1) THEN x ELSE Null
  /\ \A k \in 0 .. 9 : FormatBinary([i \in 1 .. k |-> i]).count = k

\* No bigint is left in a value, and it is the same in all else.
BigIntsGone ==
  LET leaf == {<<"bigint", 3>>, Number(3), Date(3), Null}
      flat == leaf \cup {List(<<x, y>>) : x, y \in leaf} \cup {Object([a |-> x]) : x \in leaf}
      is(v, w) == w = IF v[1] = "bigint" THEN Number(v[2]) ELSE v
  IN  /\ \A x \in leaf : is(x, ConvertBigIntToNumber(x))
      /\ \A x, y \in flat :
           LET c == ConvertBigIntToNumber(List(<<x, Object([b |-> y])>>))[2]
           IN  c[1] = ConvertBigIntToNumber(x) /\ c[2][2].b = ConvertBigIntToNumber(y)
      /\ \A x, y \in leaf :
           \A i \in 1 .. 2 : is(<<x, y>>[i], ConvertBigIntToNumber(List(<<x, y>>))[2][i])
===============================================================================
