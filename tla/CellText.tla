------------------------------- MODULE CellText -------------------------------
(***************************************************************************)
(* How the table shows dates, times, integers and lists (formatters.ts), and    *)
(* the explorer its row counts.                                              *)
(*                                                                           *)
(* A time comes as a number in an unknown unit, or a text, becomes an instant,  *)
(* and the instant a date, a time and a zone, each read from the clock by a      *)
(* call of its own.  An instant is a number of hours, a day has Day of them and  *)
(* a zone is an offset in hours.  The units of the code are 1000 apart and told  *)
(* apart by two limits; here they are Ratio apart.  A second has Fine parts.     *)
(*                                                                           *)
(* A large integer comes as a text and gets its separators by hand, a list      *)
(* comes in many shapes of Arrow's and is cut after MaxItems.  A number is a     *)
(* sequence of digits; an item of a list is a digit.                           *)
(***************************************************************************)
EXTENDS Integers, Sequences, SequencesExt

CONSTANTS Ratio, Limit, \* between the units of time, and between their sizes
          MaxDigits,    \* bound: digits of an integer
          MaxItems      \* the code's 100 items of a list

Day == 24
Fine == 100

Stamps == {"TIMESTAMP", "TIMESTAMP_S", "TIMESTAMP_MS", "TIMESTAMP_NS", "TIMESTAMPTZ"}
Formats == {"iso", "short", "medium", "long", "full"}
Settings == [dateFormat : Formats, timestampTimezone : {"auto", "utc", "local"},
             timezoneFormat : {"offset", "none"}]

Abs(n) == IF n < 0 THEN -n ELSE n
DayOf(i) == i \div Day
HourOf(i) == i % Day

-----------------------------------------------------------------------------
(* From a value to an instant in milliseconds.                               *)

\* The units in which a connector may send a time, and an instant in one of them.
Units == {"s", "ms", "us", "ns"}
Sent(instant, unit) ==
  CASE unit = "s" -> instant \div Ratio
    [] unit = "ms" -> instant
    [] unit = "us" -> instant * Ratio
    [] unit = "ns" -> instant * Ratio * Ratio

\* A bug that must be noticed: dates before 1970 are negative.
ToInstant_NoAbs(value, type) ==
  CASE type = "DATE" -> value
    [] type = "TIMESTAMP_S" \/ (type # "DATE" /\ value < Limit) -> value * Ratio
    [] OTHER -> IF type = "TIMESTAMP_MS" \/ value < Limit * Ratio THEN value
                ELSE IF type = "TIMESTAMP_NS" THEN value \div (Ratio * Ratio) ELSE value \div Ratio

ToInstant(value, type) ==
  CASE type = "DATE" -> value
    [] type = "TIMESTAMP_S" \/ (type # "DATE" /\ Abs(value) < Limit) -> value * Ratio
    [] OTHER -> IF type = "TIMESTAMP_MS" \/ Abs(value) < Limit * Ratio THEN value
                ELSE IF type = "TIMESTAMP_NS" THEN value \div (Ratio * Ratio) ELSE value \div Ratio

\* The unit each type comes in.
UnitOf(type) ==
  CASE type = "TIMESTAMP_S" -> "s" [] type = "TIMESTAMP_NS" -> "ns"
    [] type \in {"DATE", "TIMESTAMP_MS"} -> "ms" [] OTHER -> "us"

\* A date or time is found back in the unit of its type, but for a time so near to 1970
\* that its number is taken for that of a coarser unit.
InstantFound(instant, type) ==
  LET sent == Sent(instant, UnitOf(type))
      coarser == Abs(sent) < Limit * Ratio
      exact == UnitOf(type) # "s" \/ instant % Ratio = 0
  IN  type \in Stamps \cup {"DATE"} /\ exact =>
        \/ ToInstant(sent, type) = instant
        \/ UnitOf(type) \in {"us", "ns"} /\ coarser
        \/ type = "TIMESTAMP_MS" /\ Abs(sent) < Limit

-----------------------------------------------------------------------------
(* From an instant to a text: a day, an hour, a label.                       *)

\* "auto" is the zone of the database, "local" that of the browser.
ResolveTimezone(setting, browser, database) ==
  CASE setting = "utc" -> <<"utc", 0>>
    [] setting = "local" -> <<"local", browser>>
    [] OTHER -> IF database = 0 THEN <<"utc", 0>> ELSE <<"named", database>>

\* Formats other than ISO print noon of the day: of the day in UTC, also in a named zone.
FormatDate(instant, format, zone) ==
  LET day == DayOf(instant + zone[2])
      noon == day * Day + Day \div 2
  IN  IF format = "iso" \/ zone[1] \in {"utc", "local"} THEN day ELSE DayOf(noon + zone[2])

FormatTime(instant, zone) == HourOf(instant + zone[2])

\* getTimezoneOffset counts minutes the other way; the label has a sign, hours and minutes.
Offset(minutes) ==
  LET tzOffset == -minutes
  IN  [minus |-> tzOffset < 0, h |-> Abs(tzOffset) \div 60, m |-> Abs(tzOffset) % 60]
FormatTimezoneLabel(zone, format) == IF format = "none" THEN <<>> ELSE <<Offset(-60 * zone[2])>>

FormatTimestamp(instant, s, browser, database) ==
  LET zone == ResolveTimezone(s.timestampTimezone, browser, database)
  IN  [day |-> FormatDate(instant, s.dateFormat, zone), hour |-> FormatTime(instant, zone),
       label |-> FormatTimezoneLabel(zone, s.timezoneFormat)]

\* A wall clock time without zone, which the code parses as the browser's and of which
\* it takes the day in UTC and the hour in the browser's zone.
FormatDatetime(wall, browser) ==
  LET instant == wall - browser
  IN  [day |-> FormatDate(instant, "iso", <<"utc", 0>>), hour |-> FormatTime(instant, <<"local", browser>>)]

\* A timestamp with a label says its instant, whatever the zone of the browser, that of
\* the database and the settings: day, hour and label belong together.  A format other
\* than ISO is a day ahead in a named zone 12 hours or more east.
InstantShown(instant, s, browser, database) ==
  LET t == FormatTimestamp(instant, s, browser, database)
      zone == ResolveTimezone(s.timestampTimezone, browser, database)
      said == IF t.label = <<>> THEN zone[2]
              ELSE (IF t.label[1].minus THEN -1 ELSE 1) * (t.label[1].h + t.label[1].m)
  IN  \/ t.day * Day + t.hour - said = instant
      \/ zone[1] = "named" /\ zone[2] >= Day \div 2 /\ s.dateFormat # "iso"

\* A wall clock time is shown as it is, if its day in the browser's zone is that of UTC.
WallShown(wall, browser) ==
  LET t == FormatDatetime(wall, browser)
  IN  t.day * Day + t.hour = wall \/ DayOf(wall) # DayOf(wall - browser)

-----------------------------------------------------------------------------
(* A TIME is a number of parts of a second since midnight.                   *)

\* The fraction's digits, with leading zeros and without trailing ones.
Digits(parts) == IF parts % 10 = 0 THEN <<parts \div 10>> ELSE <<parts \div 10, parts % 10>>

FormatTimeOfDay(total) ==
  LET seconds == total \div Fine
  IN  [h |-> seconds \div 3600, m |-> (seconds % 3600) \div 60, s |-> seconds % 60,
       fraction |-> IF total % Fine > 0 THEN Digits(total % Fine) ELSE <<>>]

\* A time of day, with its fraction, is shown to the last digit.
TimeShown(total) ==
  LET t == FormatTimeOfDay(total)
      f == t.fraction
      read == IF f = <<>> THEN 0 ELSE f[1] * 10 + (IF Len(f) = 2 THEN f[2] ELSE 0)
  IN  ((t.h * 60 + t.m) * 60 + t.s) * Fine + read = total

-----------------------------------------------------------------------------
(* Integers and lists.                                                       *)

Comma == -1

-----------------------------------------------------------------------------
(* Integers.                                                                 *)

\* From right to left, a separator before every third digit but the first.
FormatLargeIntString(digits) ==
  FoldRight(LAMBDA d, text : LET n == Len(SelectSeq(text, LAMBDA x : x # Comma))
                             IN  <<d>> \o (IF n > 0 /\ n % 3 = 0 THEN <<Comma>> ELSE <<>>) \o text,
            digits, <<>>)

\* The digits are those of the number, and every separator has a digit before it and a
\* multiple of three behind it.
IntegerShown(digits) ==
  LET text == FormatLargeIntString(digits)
      separators == {i \in DOMAIN text : text[i] = Comma}
      Behind(i) == {j \in DOMAIN text : j > i /\ j \notin separators}
  IN  /\ SelectSeq(text, LAMBDA x : x # Comma) = digits
      /\ \A i \in separators : 1 \notin separators /\ Cardinality(Behind(i)) % 3 = 0 /\ Behind(i) # {}
      /\ Cardinality(separators) = (Len(digits) - 1) \div 3

\* A count in thousands, millions or billions: <<tenths, unit>>.
Rounded(n, d) == (n + d \div 2) \div d
In(n, unit) == IF n \div unit >= 100 THEN <<10 * Rounded(n, unit), unit>> ELSE <<Rounded(n, unit \div 10), unit>>

FormatCompactNumber(n) ==
  CASE n < 10000 -> <<10 * n, 1>>
    [] n >= 10000 /\ n < 1000000 -> In(n, 1000)
    [] n >= 1000000 /\ n < 1000000000 -> In(n, 1000000)
    [] n >= 1000000000 -> In(n, 1000000000)

\* A count differs from what is shown by a twentieth of it at most.
CountShown(n) ==
  LET c == FormatCompactNumber(n)
      difference == IF c[2] = 1 THEN c[1] \div 10 - n ELSE c[1] * (c[2] \div 10) - n
  IN  20 * (IF difference < 0 THEN -difference ELSE difference) <= n

-----------------------------------------------------------------------------
(* Lists.  An item is a digit, or in records a digit and a text.             *)

\* The shapes in which a list reaches the formatter: a list or its JSON, a list in an
\* object, an object with a key for each index, and the buffers of a vector: the offsets
\* of the lists of a column into the values of their items, texts being bytes with
\* offsets of their own, and records having a buffer for each field.
Shapes == {"list", "data", "keys", "vector", "bytes", "records"}

\* A text stands for a digit and has one or two bytes.
TextOf(d) == IF d % 2 = 0 THEN <<d>> ELSE <<d, d>>
Offsets(texts) == FoldLeft(LAMBDA o, t : Append(o, Last(o) + Len(t)), <<0>>, texts)

Packed(items, shape) ==
  LET texts == [i \in DOMAIN items |-> TextOf(items[i])]
      half == Len(items) \div 2
  IN  [items |-> items,
       keys |-> {<<i, items[i]>> : i \in DOMAIN items},
       offsets |-> IF shape = "vector" THEN <<0, Len(items)>> ELSE <<0, half, Len(items)>>,
       valueOffsets |-> Offsets(texts), values |-> FlattenSeq(texts)]

\* A bug that must be noticed: the last byte of a text is lost.
DecodeUtf8FromOffsets_OffByOne(offsets, bytes) ==
  [i \in 1 .. Len(offsets) - 1 |-> SubSeq(bytes, offsets[i] + 1, offsets[i + 1] - 1)]
DecodeUtf8FromOffsets(offsets, bytes) ==
  [i \in 1 .. Len(offsets) - 1 |-> SubSeq(bytes, offsets[i] + 1, offsets[i + 1])]

\* The rows from each offset of the lists to the next, all in one list.
DecodeArrowJsonListStruct(p, shape) ==
  LET texts == DecodeUtf8FromOffsets(p.valueOffsets, p.values)
      all == IF shape = "bytes" THEN texts ELSE [i \in DOMAIN texts |-> <<p.items[i], texts[i]>>]
  IN  FlattenSeq([r \in 1 .. Len(p.offsets) - 1 |-> SubSeq(all, p.offsets[r] + 1, p.offsets[r + 1])])

\* The items the formatter finds in what it is given; nothing in an object without keys.
Extracted(p, shape) ==
  CASE shape \in {"list", "data", "vector"} -> p.items
    [] shape = "keys" -> [i \in 1 .. Cardinality(p.keys) |-> CHOOSE x \in Range(p.items) : <<i, x>> \in p.keys]
    [] shape \in {"bytes", "records"} -> DecodeArrowJsonListStruct(p, shape)

\* The first MaxItems, and the number of the others.
FormatComplex(p, shape) ==
  LET items == Extracted(p, shape)
  IN  IF items = <<>> /\ shape = "keys" THEN [object |-> TRUE, items |-> <<>>, more |-> 0]
      ELSE [object |-> FALSE, items |-> SubSeq(items, 1, Min({MaxItems, Len(items)})),
            more |-> Max({0, Len(items) - MaxItems})]

\* However a list is packed, its items are shown in order, each as its own text or
\* record, and those that are not shown are counted.
ListShown(items, shape) ==
  LET text == FormatComplex(Packed(items, shape), shape)
      Item(i) == CASE shape = "bytes" -> TextOf(items[i])
                   [] shape = "records" -> <<items[i], TextOf(items[i])>>
                   [] OTHER -> items[i]
  IN  \/ /\ ~text.object /\ Len(text.items) + text.more = Len(items)
         /\ \A i \in DOMAIN text.items : text.items[i] = Item(i)
      \/ text.object /\ items = <<>>

-----------------------------------------------------------------------------

Integers10 == UNION {[1 .. n -> {0, 7}] : n \in 1 .. MaxDigits}
Counts == UNION {{k * u - 1, k * u, k * u + 1} : k \in {1, 10, 999, 1000}, u \in {1, 50, 1000}}
          \cup {999499, 999500, 999999, 1000000, 1049999, 99949999, 999999999, 1000000000, 2000000000}
Lists == UNION {[1 .. n -> {1, 2}] : n \in 0 .. MaxItems + 1}
==============================================================================
