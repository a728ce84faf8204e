---------------------------- MODULE StorageTools ----------------------------
(***************************************************************************)
(* What the stores of imported tables compute: the chunks in which a file is   *)
(* written and the slices in which it is read, the files that are cleaned up,  *)
(* the paths and sizes of files (opfs-persistence.ts), the jobs that are       *)
(* cleaned up, the dates of a record and the totals by connection              *)
(* (persistence-metadata-store.ts), and what the storage panel and the list    *)
(* of tables show of them.  A file's bytes, a path's parts and the members of  *)
(* a record are sequences.                                                     *)
(***************************************************************************)
EXTENDS Integers, Sequences, SequencesExt, FiniteSetsExt

\* writeFile: the chunks, cut from the buffer until its length is reached.
ChunkEnds(total, size) == {n \in 1 .. total : n % size = 0 \/ n = total}

\* A bug that must be noticed: a chunk begins after the first byte of its range.
WriteFile_SkipsOne(buffer, size) ==
  LET ends == SetToSortSeq(ChunkEnds(Len(buffer), size), <)
      from(i) == IF i = 1 THEN 1 ELSE ends[i - 1] + 2
  IN [i \in 1 .. Len(ends) |-> SubSeq(buffer, from(i), ends[i])]

WriteFile(buffer, size) ==
  LET ends == SetToSortSeq(ChunkEnds(Len(buffer), size), <)
      from(i) == IF i = 1 THEN 1 ELSE ends[i - 1] + 1
  IN [i \in 1 .. Len(ends) |-> SubSeq(buffer, from(i), ends[i])]

\* readFile, with no length for -1; Blob.slice cuts at the end of the file.
ReadFile(file, offset, length) ==
  IF length # -1 THEN SubSeq(file, offset + 1, Min({offset + length, Len(file)}))
  ELSE IF offset > 0 THEN SubSeq(file, offset + 1, Len(file))
  ELSE file

\* parsePath, of the parts between slashes; the first is empty before a leading slash.
ParsePath(parts) ==
  LET normalized == IF Len(parts) > 1 /\ parts[1] = "" THEN Tail(parts) ELSE parts
  IN [dir |-> Front(normalized), filename |-> Last(normalized)]

\* The directories getDirectory goes through.
DirectoryOf(dir) == SelectSeq(dir, LAMBDA p : p # "")

\* cleanup: the files at least so old and so large; a criterion of 0 is none.
Cleanup(files, olderThan, maxSize) ==
  {f \in files : ~(olderThan # 0 /\ f.age < olderThan) /\ ~(maxSize # 0 /\ f.size < maxSize)}

\* cleanupOldJobs: the jobs that ended before, however they ended but by cancellation.
CleanupOldJobs(jobs, olderThan) ==
  {j \in jobs : j.status \in {"completed", "failed"} /\ j.ended # -1 /\ j.ended > olderThan}

\* serializeTable and its inverse: a date that is there becomes its text.
Serialize(record) ==
  [f \in DOMAIN record |-> IF record[f] = <<>> THEN <<>> ELSE <<"iso", record[f][2]>>]
Deserialize(data) ==
  [f \in DOMAIN data |-> IF data[f] = <<>> THEN <<>> ELSE <<"date", data[f][2]>>]

\* getStorageSummary: the totals by connection, and the tables by status.
ByConnection(tables) ==
  LET add(by, t) ==
        LET c == t.connection
            old == IF c \in DOMAIN by THEN by[c] ELSE [bytes |-> 0, count |-> 0, cost |-> 0]
            new == [bytes |-> old.bytes + t.bytes, count |-> old.count + 1,
                    cost |-> old.cost + t.cost]
        IN [d \in DOMAIN by \cup {c} |-> IF d = c THEN new ELSE by[d]]
  IN FoldLeft(add, <<>>, tables)

CountOf(tables, status) == Len(SelectSeq(tables, LAMBDA t : t.status = status))
TotalCost(tables) == FoldLeft(LAMBDA sum, t : sum + t.cost, 0, tables)

\* The groups of the list of tables: the available ones, by connection, in the order of
\* their first table.
TablesByConnection(tables) ==
  LET shown == SelectSeq(tables, LAMBDA t : t.status = "available")
      add(groups, t) ==
        IF \E i \in DOMAIN groups : groups[i][1] = t.connection
        THEN [i \in DOMAIN groups |->
               IF groups[i][1] = t.connection THEN <<t.connection, Append(groups[i][2], t)>>
               ELSE groups[i]]
        ELSE Append(groups, <<t.connection, <<t>>>>)
  IN FoldLeft(add, <<>>, shown)

\* formatBytes of the panel: the unit, and the value in it before rounding, as a fraction.
\* Here a unit is Unit times the one before and there are Units of them.
FormatBytes(bytes, Unit, Units) ==
  LET fits(i) == i = Units \/ bytes < Unit ^ i
      i == CHOOSE i \in 1 .. Units : fits(i) /\ \A j \in 1 .. i - 1 : ~fits(j)
  IN [unit |-> i, over |-> Unit ^ (i - 1)]

\* formatRelativeTime, of seconds: the largest unit of which one has passed.
FormatRelativeTime(seconds) ==
  LET minutes == seconds \div 60
      hours == minutes \div 60
      days == hours \div 24
  IN IF days > 0 THEN <<days, "d">> ELSE IF hours > 0 THEN <<hours, "h">>
     ELSE IF minutes > 0 THEN <<minutes, "m">> ELSE <<seconds, "s">>

-----------------------------------------------------------------------------

Buffers == UNION {[1 .. n -> {1, 2}] : n \in 0 .. 4}

\* A file has the bytes it was given, whatever the size of the chunks, and reading it in
\* two parts gives all of it.
FilesAreWhole ==
  \A b \in Buffers :
    /\ \A size \in 1 .. 5 :
         /\ FlattenSeq(WriteFile(b, size)) = b
         /\ \A c \in ToSet(WriteFile(b, size)) : Len(c) \in 1 .. size
    /\ \A n \in 0 .. 5 : ReadFile(b, 0, n) \o ReadFile(b, n, -1) = b

\* A path with a leading slash and one without lead to the same file, which is not a
\* directory.
PathsLeadToFiles ==
  \A dir \in UNION {[1 .. n -> {"d", "e"}] : n \in 0 .. 2} :
    LET plain == ParsePath(Append(dir, "f"))
        slashed == ParsePath(<<"">> \o Append(dir, "f"))
    IN plain.filename = "f" /\ DirectoryOf(plain.dir) = dir
         /\ slashed.filename = "f" /\ DirectoryOf(slashed.dir) = dir

TableValues ==
  {[connection |-> c, status |-> s, bytes |-> n, cost |-> n - 1] :
     c \in {"c1", "c2"}, s \in {"available", "importing"}, n \in {1, 2}}

\* No byte, table or cost is lost or counted twice in the totals, and every available
\* table is in one group of the list, its connection's.
TotalsAddUp ==
  \A tables \in UNION {[1 .. n -> TableValues] : n \in 0 .. 3} :
    LET by == ByConnection(tables)
        groups == TablesByConnection(tables)
        sum(f) == MapThenSumSet(LAMBDA c : by[c][f], DOMAIN by)
    IN /\ sum("count") = Len(tables) /\ sum("cost") = TotalCost(tables)
       /\ sum("bytes") = FoldLeft(LAMBDA n, t : n + t.bytes, 0, tables)
       /\ CountOf(tables, "available") + CountOf(tables, "importing") = Len(tables)
       /\ FoldLeft(LAMBDA n, g : n + Len(g[2]), 0, groups) = CountOf(tables, "available")
       /\ \A g \in ToSet(groups) :
            \A i \in DOMAIN g[2] : g[2][i].connection = g[1] /\ g[2][i].status = "available"

\* A cleanup with stricter criteria deletes fewer files; a job still at work, and one that
\* was cancelled, stays; a record's dates come back as they were.
CleanupsAreCareful ==
  LET files == [age : 0 .. 2, size : 0 .. 2]
      jobs == [status : {"running", "completed", "failed", "cancelled"}, ended : -1 .. 2]
  IN /\ \A a, m \in 0 .. 2 : \A f \in Cleanup(files, a, m) :
          f.age >= a /\ f.size >= m /\ f \in Cleanup(files, 0, 0)
     /\ \A d \in 0 .. 2 : \A j \in CleanupOldJobs(jobs, d) :
          j.status \notin {"running", "cancelled"} /\ j.ended > d
     /\ \A r \in [{"createdAt", "lastRefreshedAt"} -> {<<>>, <<"date", 1>>}] :
          Deserialize(Serialize(r)) = r

\* A size is shown in the largest unit that fits, a time ago in the largest that has passed.
SizesAreShown ==
  /\ \A n \in 0 .. 40 :
       LET s == FormatBytes(n, 3, 3)
       IN (s.unit > 1 => n >= s.over) /\ (s.unit < 3 => n < 3 * s.over)
  /\ \A n \in {0, 59, 60, 3599, 3600, 86399, 86400, 90000} :
       LET r == FormatRelativeTime(n)
           unit == CASE r[2] = "s" -> 1 [] r[2] = "m" -> 60 [] r[2] = "h" -> 3600 [] OTHER -> 86400
       IN r[1] * unit <= n /\ n < (r[1] + 1) * unit /\ (r[1] = 0 => r[2] = "s")
=============================================================================
