---------------------------- MODULE HttpDecoding ----------------------------
(***************************************************************************)
(* From the answer of a DuckDB server to the rows of a query.                  *)
(*                                                                           *)
(* The server sends a result as columns in chunks; a column of a chunk is a    *)
(* vector of all its values, nested as its type is: the elements of all lists   *)
(* are one vector, and so are those of all arrays, and each field of all        *)
(* structures.  readVector turns the stream into vectors, extractValue finds a  *)
(* row in one, and query cuts the rows into chunks of its own.  Here a result   *)
(* has the numbers of its rows in one column and the values in another.         *)
(*                                                                           *)
(* A stream is a sequence of fields [id, it], an object ends with the field End.  *)
(* Lengths are variable-length integers, the digits of which come lowest first.  *)
(* A value is Value(n), Blob(b), Items(sequence) or Null; what is read may be     *)
(* a quotient, the parts of a time or an interval, digits of bytes, or Binary.   *)
(* Dates, 128-bit integers, UUIDs and TIME_TZ are left out.                      *)
(***************************************************************************)
EXTENDS Integers, Sequences
LOCAL INSTANCE SequencesExt

CONSTANTS
  Types,        \* types of a column
  Atoms,        \* values of a column that is not nested, as "int" or text
  Numbers,      \* those of a BIGINT, and the scaled integers of a DECIMAL
  Safe,         \* the largest integer all digits of which a double keeps
  Blobs,        \* those of a BLOB, sequences of bytes
  Times,        \* those of a TIME, in fractions of a second
  Intervals,    \* those of an INTERVAL: <<months, days, seconds>>
  Stamps,       \* those of a TIMESTAMP, in its unit
  Thousand,     \* milliseconds in a second, and so on
  Fractions,    \* fractions of a second in TIME, 1000000
  MaxItems,     \* bound: elements of a list
  MaxRows,      \* bound: rows of the result
  ByteBits,     \* bits of a byte that carry an integer, 7
  WordBits      \* bits of the operands of << in JavaScript, 32

VARIABLES
  sent,      \* [type, rows, gap: unused elements before those of the lists, size, fails]
  got        \* chunks that query yields: [rows, done, schema, error], or none yet

decodeVars == <<sent, got>>

Null == <<"null">>
Value(n) == <<"value", n>>
Items(s) == <<"items", s>>
Blob(b) == <<"bytes", b>>
Wrong == <<"wrong">>
Binary == <<"binary">>

End == [id |-> 65535]
Field(id, it) == <<[id |-> id, it |-> it]>>

\* Types: "bytes" is the width of an element, by which a row is found, "as" says
\* what is made of it.
Fixed(w, as) == [kind |-> "data", bytes |-> w, as |-> as]
Decimal(digits, scale) == [kind |-> "decimal", digits |-> digits, scale |-> scale]
Enum(w) == [kind |-> "enum", bytes |-> w]
Bytes == [kind |-> "bytes"]
Text == [kind |-> "string"]
List(t) == [kind |-> "list", of |-> t]
Array(t, n) == [kind |-> "array", of |-> t, size |-> n]
Struct(ts) == [kind |-> "struct", fields |-> ts]

-----------------------------------------------------------------------------
(* Numbers. *)

Pow2(k) == 2 ^ k

\* readVarInt: each byte is shifted by ByteBits more than the one before and or-ed
\* to the result.  The shift counts modulo the word, the result has its sign.
RECURSIVE VarIntFrom(_, _)
VarIntFrom(bytes, shift) ==
  IF bytes = << >> THEN 0
  ELSE Head(bytes) * Pow2(shift % WordBits) + VarIntFrom(Tail(bytes), shift + ByteBits)

ReadVarInt(bytes) ==
  LET n == VarIntFrom(bytes, 0) % Pow2(WordBits)
  IN IF n >= Pow2(WordBits - 1) THEN n - Pow2(WordBits) ELSE n

\* How a server writes it.
RECURSIVE VarInt(_)
VarInt(n) ==
  IF n < Pow2(ByteBits) THEN <<n>>
  ELSE <<n % Pow2(ByteBits)>> \o VarInt(n \div Pow2(ByteBits))

\* A bug that must be noticed: the most digits of a width are read with the next.
DecimalBytes_Less(digits) ==
  IF digits < 4 THEN 2 ELSE IF digits < 9 THEN 4 ELSE IF digits < 18 THEN 8 ELSE 16

\* The bytes of the scaled integer of a decimal.
DecimalBytes(digits) ==
  IF digits <= 4 THEN 2 ELSE IF digits <= 9 THEN 4 ELSE IF digits <= 18 THEN 8 ELSE 16

\* JavaScript's remainder has the sign of the dividend.
Rem(n, d) == IF n >= 0 THEN n % d ELSE -((-n) % d)

Abs(n) == IF n < 0 THEN -n ELSE n

\* Number(): a double beyond Safe holds only even integers.
Double(n) == IF Abs(n) > Safe THEN 2 * (n \div 2) ELSE n

\* A bug that must be noticed: the scale is left to the reader.
Unscaled_Raw(n, scale) == Value(Double(n))

\* The scale of a decimal is applied to whole numbers, then to doubles.
Unscaled(n, scale) ==
  LET divisor == 10 ^ scale
  IN  IF Rem(n, divisor) = 0
      THEN Value(Double(IF n < 0 THEN -((-n) \div divisor) ELSE n \div divisor))
      ELSE <<"quotient", Double(n), divisor>>

\* Each byte of a BLOB, BIT or BIGNUM as two digits.
Hex(bytes) == <<"hex", FlattenSeq([i \in 1 .. Len(bytes) |-> <<bytes[i] \div 16, bytes[i] % 16>>])>>

\* A TIME: hours, minutes, seconds, rest.
TimeParts(n) ==
  LET seconds == n \div Fractions
  IN <<"time", seconds \div 3600, (seconds % 3600) \div 60, seconds % 60, n % Fractions>>

\* An INTERVAL: years, months, days, hours, minutes and seconds, rounded down and
\* with JavaScript's remainders, which do not go together below zero.
IntervalParts(v) ==
  <<"interval", v[1] \div 12, Rem(v[1], 12), v[2],
    v[3] \div 3600, Rem(v[3], 3600) \div 60, Rem(v[3], 60)>>

\* A TIMESTAMP in seconds (-1), milliseconds (0), micro- (1) or nanoseconds (2) becomes an
\* instant in whole milliseconds, a Date being rounded towards 1970.
Instant(n, unit) ==
  LET per == Thousand ^ unit
  IN  IF unit < 0 THEN n * Thousand ELSE IF n >= 0 THEN n \div per ELSE -((-n) \div per)

\* What the parts of a time or an interval and the digits of bytes amount to.
Amount(v) ==
  CASE v[1] = "hex" -> Blob([i \in 1 .. Len(v[2]) \div 2 |-> 16 * v[2][2 * i - 1] + v[2][2 * i]])
    [] v[1] = "time" -> Value(((v[2] * 60 + v[3]) * 60 + v[4]) * Fractions + v[5])
    [] v[1] = "interval" -> Value(<<v[2] * 12 + v[3], v[4], (v[5] * 60 + v[6]) * 60 + v[7]>>)
    [] OTHER -> v

-----------------------------------------------------------------------------
(* The server: columns written as the vectors that readVector expects. *)

PhysicalBytes(digits) ==
  CASE digits \in 1 .. 4 -> 2 [] digits \in 5 .. 9 -> 4
    [] digits \in 10 .. 18 -> 8 [] OTHER -> 16

Bits(vals) == [k \in 1 .. 8 * ((Len(vals) + 7) \div 8) |->
                 IF k <= Len(vals) /\ vals[k] = Null THEN 0 ELSE 1]

Validity(vals) ==
  IF \E k \in 1 .. Len(vals) : vals[k] = Null
  THEN Field(100, 1) \o Field(101, Bits(vals)) ELSE Field(100, 0)

ItemsOf(v) == IF v = Null THEN << >> ELSE v[2]

RECURSIVE Write(_, _, _)
Write(vals, t, gap) ==
  Validity(vals) \o
  (CASE t.kind \in {"data", "enum"} -> Field(102, [bytes |-> t.bytes, at |-> vals])
     [] t.kind = "decimal" -> Field(102, [bytes |-> PhysicalBytes(t.digits), at |-> vals])
     [] t.kind \in {"string", "bytes"} -> Field(102, vals)
     [] t.kind = "struct" ->
          Field(103, VarInt(Len(t.fields)))
          \o FlattenSeq([f \in 1 .. Len(t.fields) |->
               Write([k \in 1 .. Len(vals) |-> IF vals[k] = Null THEN Null ELSE vals[k][2][f]],
                     t.fields[f], gap)])
     [] t.kind = "array" ->
          Field(103, VarInt(t.size)) \o Field(104, 0)
          \o Write(FlattenSeq([k \in 1 .. Len(vals) |->
               IF vals[k] = Null THEN [i \in 1 .. t.size |-> Null] ELSE vals[k][2]]), t.of, gap)
     [] t.kind = "list" ->
          LET all == FlattenSeq([k \in 1 .. Len(vals) |-> ItemsOf(vals[k])])
              before(k) == Len(FlattenSeq([i \in 1 .. k - 1 |-> ItemsOf(vals[i])]))
          IN Field(104, VarInt(gap + Len(all)))
             \o Field(105, [k \in 1 .. Len(vals) |->
                  Field(100, VarInt(gap + before(k)))
                  \o Field(101, VarInt(Len(ItemsOf(vals[k])))) \o <<End>>])
             \o Field(106, 0)
             \o Write([i \in 1 .. gap |-> Null] \o all, t.of, gap))
  \o <<End>>

RowNumber == Fixed(4, "int")

WriteChunk(rows, from, t, gap) ==
  Field(100, VarInt(Len(rows)))
  \o Field(101, Write([k \in 1 .. Len(rows) |-> Value(from + k)], RowNumber, gap) \o Write(rows, t, gap))
  \o <<End>>

\* The first row in a chunk and the others in another.
WriteChunks(rows, t, gap) ==
  IF Len(rows) > 1 THEN <<WriteChunk(SubSeq(rows, 1, 1), 0, t, gap), WriteChunk(SubSeq(rows, 2, Len(rows)), 1, t, gap)>>
  ELSE <<WriteChunk(rows, 0, t, gap)>>

\* A result, or the error of a statement.
WriteResult(rows, t, gap, fails) ==
  IF fails THEN Field(100, 0) \o Field(101, <<"no such table">>)
  ELSE Field(100, 1) \o Field(101, Field(100, <<"n", "v">>) \o Field(101, <<RowNumber, t>>) \o <<End>>)
       \o Field(102, WriteChunks(rows, t, gap))

-----------------------------------------------------------------------------
(* readVector. *)

\* readProperty: the field must be the next one.
Next1(s, id) == s # << >> /\ Head(s).id = id
It(s) == Head(s).it

\* Reading yields the vector and what is left of the stream.
Broken(s) == [vector |-> [kind |-> "broken"], rest |-> << >>]

\* readListEntryList.
Entries(list) ==
  [k \in 1 .. Len(list) |->
     [offset |-> ReadVarInt(list[k][1].it), length |-> ReadVarInt(list[k][2].it)]]

\* The end of the object is checked, and the vector gets its validity.
Whole(vector, s, valid) ==
  IF Next1(s, 65535) THEN [vector |-> [valid |-> valid] @@ vector, rest |-> Tail(s)]
  ELSE Broken(s)

RECURSIVE ReadVector(_, _), ReadVectorList(_, _)
ReadVector(s, t) ==
  IF ~Next1(s, 100) THEN Broken(s)
  ELSE LET marked == It(s) # 0
           valid == IF marked THEN It(Tail(s)) ELSE << >>
           body == IF marked THEN Tail(Tail(s)) ELSE Tail(s)
       IN CASE marked /\ ~Next1(Tail(s), 101) -> Broken(s)
            [] t.kind \in {"data", "decimal", "enum"} /\ Next1(body, 102) ->
                 Whole([kind |-> "data", data |-> It(body)], Tail(body), valid)
            [] t.kind = "string" /\ Next1(body, 102) ->
                 Whole([kind |-> "string", data |-> It(body)], Tail(body), valid)
            [] t.kind = "bytes" /\ Next1(body, 102) ->
                 Whole([kind |-> "datalist", data |-> It(body)], Tail(body), valid)
            [] t.kind = "struct" /\ Next1(body, 103) ->
                 LET r == ReadVectorList(Tail(body), SubSeq(t.fields, 1, ReadVarInt(It(body))))
                 IN Whole([kind |-> "vectorlist", data |-> r.vectors], r.rest, valid)
            [] t.kind = "array" /\ Next1(body, 103) /\ Next1(Tail(body), 104) ->
                 LET r == ReadVector(Tail(Tail(body)), t.of)
                 IN Whole([kind |-> "array", arraySize |-> ReadVarInt(It(body)),
                           child |-> r.vector], r.rest, valid)
            [] t.kind = "list" /\ Next1(body, 104) /\ Next1(Tail(body), 105)
                 /\ Next1(Tail(Tail(body)), 106) ->
                 LET r == ReadVector(Tail(Tail(Tail(body))), t.of)
                 IN Whole([kind |-> "list", listSize |-> ReadVarInt(It(body)),
                           entries |-> Entries(It(Tail(body))), child |-> r.vector],
                          r.rest, valid)
            [] OTHER -> Broken(s)

ReadVectorList(s, ts) ==
  IF ts = << >> THEN [vectors |-> << >>, rest |-> s]
  ELSE LET first == ReadVector(s, Head(ts))
           others == ReadVectorList(first.rest, Tail(ts))
       IN [vectors |-> <<first.vector>> \o others.vectors, rest |-> others.rest]

\* The fields come in this order.
Has(s, ids) == Len(s) >= Len(ids) /\ \A i \in 1 .. Len(ids) : s[i].id = ids[i]

ReadColumnNamesAndTypes(s) ==
  IF Has(s, <<100, 101, 65535>>) THEN [names |-> s[1].it, types |-> s[2].it] ELSE [names |-> <<>>, types |-> <<>>]

ReadChunk(s, types) ==
  IF Has(s, <<100, 101, 65535>>)
  THEN [rowCount |-> ReadVarInt(s[1].it), vectors |-> ReadVectorList(s[2].it, types).vectors]
  ELSE [rowCount |-> 0, vectors |-> <<>>]

\* A bug that must be noticed: only the first chunk is read.
ReadSuccess_First(s) ==
  LET c == ReadColumnNamesAndTypes(s[1].it)
  IN  [columns |-> c, chunks |-> <<ReadChunk(s[2].it[1], c.types)>>]

ReadSuccess(s) ==
  LET c == ReadColumnNamesAndTypes(s[1].it)
  IN  [columns |-> c, chunks |-> [k \in 1 .. Len(s[2].it) |-> ReadChunk(s[2].it[k], c.types)]]

\* Whether the statement was executed, and then its result, or its error.
ReadQueryResult(s) ==
  IF Next1(s, 100) /\ It(s) # 0 /\ Has(Tail(s), <<101, 102>>)
  THEN [success |-> TRUE, result |-> ReadSuccess(Tail(s))]
  ELSE [success |-> FALSE, error |-> IF Has(s, <<100, 101>>) THEN s[2].it ELSE <<"broken">>]

-----------------------------------------------------------------------------
(* extractValue.  Rows are counted from 0. *)

IsNull(vector, row) == row < Len(vector.valid) /\ vector.valid[row + 1] = 0

\* safeRead of an element of so many bytes: null beyond the data, and something
\* else if the elements have another width.
SafeRead(data, bytes, row) ==
  IF bytes * (row + 1) > data.bytes * Len(data.at) THEN Null
  ELSE IF bytes = data.bytes THEN data.at[row + 1] ELSE Wrong

\* The switch over the types of fixed width; ENUM is not among them.
FixedValue(data, t, row) ==
  LET v == SafeRead(data, IF t.kind = "decimal" THEN DecimalBytes(t.digits) ELSE t.bytes, row)
  IN CASE t.kind = "enum" -> Binary
       [] t.kind = "decimal" /\ v[1] = "value" -> Unscaled(v[2], t.scale)
       [] t.kind = "data" /\ t.as = "bigint" /\ v # Null -> Value(Double(v[2]))
       [] t.kind = "data" /\ t.as = "time" /\ v # Null -> TimeParts(v[2])
       [] t.kind = "data" /\ t.as = "interval" /\ v # Null -> IntervalParts(v[2])
       [] t.kind = "data" /\ t.as = "timestamp" /\ v # Null -> Value(Instant(v[2], t.unit))
       [] OTHER -> v

RECURSIVE ExtractValue(_, _, _)
ExtractValue(vector, t, row) ==
  CASE vector.kind = "broken" -> Wrong
    [] vector.kind # "broken" /\ IsNull(vector, row) -> Null
    [] OTHER ->
       CASE vector.kind = "data" -> FixedValue(vector.data, t, row)
         [] vector.kind = "string" ->
              IF row < Len(vector.data) THEN vector.data[row + 1] ELSE Null
         [] vector.kind = "datalist" ->
              IF row < Len(vector.data) THEN Hex(vector.data[row + 1][2]) ELSE Null
         [] vector.kind = "list" ->
              Items(IF row >= Len(vector.entries) THEN << >>
                    ELSE LET e == vector.entries[row + 1]
                         IN [i \in 1 .. e.length |->
                               ExtractValue(vector.child, t.of, e.offset + i - 1)])
         [] vector.kind = "array" ->
              Items([i \in 1 .. vector.arraySize |->
                       ExtractValue(vector.child, t.of, row * vector.arraySize + i - 1)])
         [] vector.kind = "vectorlist" ->
              Items([f \in 1 .. Len(t.fields) |->
                       IF f > Len(vector.data) THEN Null
                       ELSE ExtractValue(vector.data[f], t.fields[f], row)])

\* Of columns of one name the last one stays.
ChunksToRows(result) ==
  LET names == result.columns.names
      column(name) == CHOOSE c \in 1 .. Len(names) : names[c] = name /\ \A d \in c + 1 .. Len(names) : names[d] # name
      row(chunk, i) == [name \in {names[c] : c \in 1 .. Len(names)} |->
        IF column(name) > Len(chunk.vectors) THEN Null
        ELSE ExtractValue(chunk.vectors[column(name)], result.columns.types[column(name)], i - 1)]
  IN  FlattenSeq([k \in 1 .. Len(result.chunks) |->
        [i \in 1 .. result.chunks[k].rowCount |-> row(result.chunks[k], i)]])

-----------------------------------------------------------------------------
(* query. *)

\* Rows in chunks of so many, all in one by default; without rows an empty one.
QueryChunks(rows, size) ==
  IF rows = << >> THEN <<[rows |-> << >>, done |-> TRUE, schema |-> TRUE, error |-> << >>]>>
  ELSE [c \in 1 .. (Len(rows) + size - 1) \div size |->
          [rows |-> SubSeq(rows, (c - 1) * size + 1, IF c * size < Len(rows) THEN c * size ELSE Len(rows)),
           done |-> c * size >= Len(rows), schema |-> c = 1, error |-> << >>]]

\* A query that fails yields nothing.
Thrown(error) == <<[rows |-> << >>, done |-> FALSE, schema |-> FALSE, error |-> error]>>

RECURSIVE Values(_)
Values(t) ==
  {Null} \cup
  (CASE t.kind = "data" -> {Value(n) : n \in CASE t.as = "time" -> Times
                                               [] t.as = "interval" -> Intervals
                                               [] t.as = "timestamp" -> Stamps
                                               [] t.as = "bigint" -> Numbers
                                               [] OTHER -> Atoms}
     [] t.kind = "decimal" -> {Value(n) : n \in Numbers}
     [] t.kind = "bytes" -> {Blob(b) : b \in Blobs}
     [] t.kind \in {"enum", "string"} -> {Value(n) : n \in Atoms}
     [] t.kind = "list" -> {Items(s) : s \in UNION {[1 .. n -> Values(t.of)] : n \in 0 .. MaxItems}}
     [] t.kind = "array" -> {Items(s) : s \in [1 .. t.size -> Values(t.of)]}
     [] t.kind = "struct" ->
          {Items(s) : s \in {f \in [1 .. Len(t.fields) -> UNION {Values(t.fields[k]) : k \in 1 .. Len(t.fields)}] :
                               \A k \in 1 .. Len(t.fields) : f[k] \in Values(t.fields[k])}})

DecodeInit ==
  /\ \E t \in Types : \E n \in 0 .. MaxRows : \E rows \in [1 .. n -> Values(t)] : \E fails \in BOOLEAN :
       /\ fails => n = 0
       /\ sent = [type |-> t, rows |-> rows, gap |-> n % 2, size |-> (n + 1) \div 2, fails |-> fails]
  /\ got = << >>

Answered ==
  /\ got = << >>
  /\ LET answer == ReadQueryResult(WriteResult(sent.rows, sent.type, sent.gap, sent.fails))
     IN got' = IF answer.success
               THEN QueryChunks(ChunksToRows(answer.result), IF sent.size = 0 THEN Len(sent.rows) ELSE sent.size)
               ELSE Thrown(answer.error)
  /\ UNCHANGED sent

-----------------------------------------------------------------------------
RECURSIVE Means(_, _, _)

\* The value x as it was sent.  A timestamp may lose less than a millisecond; a BIGINT
\* or DECIMAL beyond Safe its last digits; an ENUM is not read at all.
Means(shown, x, t) ==
  CASE x = Null -> shown = Null
    [] x # Null /\ t.kind = "enum" -> shown = Binary
    [] x # Null /\ t.kind = "data" /\ t.as = "timestamp" ->
         LET per == IF t.unit < 0 THEN 1 ELSE Thousand ^ t.unit
             off == shown[2] * per - x[2] * (IF t.unit < 0 THEN Thousand ELSE 1)
         IN  -per < off /\ off < per
    [] x # Null /\ t.kind = "decimal" ->
         \/ Abs(x[2]) > Safe
         \/ shown[1] \in {"value", "quotient"} /\ shown[2] * 10 ^ t.scale = x[2] * (IF shown[1] = "quotient" THEN shown[3] ELSE 1)
    [] x # Null /\ t.kind = "data" /\ t.as = "bigint" -> Abs(x[2]) > Safe \/ shown = x
    [] x # Null /\ t.kind \in {"list", "array"} ->
         shown[1] = "items" /\ Len(shown[2]) = Len(x[2]) /\ \A i \in 1 .. Len(x[2]) : Means(shown[2][i], x[2][i], t.of)
    [] x # Null /\ t.kind = "struct" ->
         shown[1] = "items" /\ \A f \in 1 .. Len(t.fields) : Means(shown[2][f], x[2][f], t.fields[f])
    [] OTHER -> Amount(shown) = x

\* What query yields are the values the server has sent, each in its row and column,
\* whatever their nesting and wherever a null is, in their order, and only the last chunk
\* is the last; a statement that failed yields its error.  Means says what is lost.
DecodedAsSent ==
  got # << >> =>
    LET rows == FlattenSeq([c \in 1 .. Len(got) |-> got[c].rows])
    IN  /\ sent.fails <=> got[1].error # << >>
        /\ Len(rows) = Len(sent.rows)
        /\ \A k \in 1 .. Len(rows) : rows[k].n = Value(k) /\ Means(rows[k].v, sent.rows[k], sent.type)
        /\ sent.fails \/ \A c \in 1 .. Len(got) : got[c].done = (c = Len(got)) /\ got[c].schema = (c = 1)
==============================================================================
