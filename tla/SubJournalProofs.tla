------------------------ MODULE SubJournalProofs ------------------------
(* Proofs about SubJournal: that it implements RecordLog for all pages,   *)
(* chunks and spills, and that the assertions of memjournal.c hold.       *)
(*                                                                        *)
(* The invariant says where the file ends: after nSubRec records, and in  *)
(* memory exactly there.  The first sections are about the file: offsets, *)
(* writes, reads and the records that a file holds; then each action      *)
(* keeps the invariant and is a step of the log.                          *)
EXTENDS SubJournal, TLAPS, SequenceTheorems

--------------------------------------------------------------------------
(* Offsets, and chunks of a file.                                         *)

\* Records follow one another, in the order of their numbers.
LEMMA OffsetMonotone ==
    ASSUME NEW i \in Nat, NEW j \in Nat, i <= j
    PROVE  /\ Offset(i) \in Nat
           /\ Offset(i) <= Offset(j)
           /\ Offset(i + 1) = Offset(i) + RecordSize
           /\ RecordSize \in Nat
           /\ i < j => Offset(i + 1) <= Offset(j)
BY SubJournalAssumption DEF Offset, RecordSize

\* A record begins where the one before it ends.
LEMMA OffsetStep ==
    ASSUME NEW i \in Nat
    PROVE  /\ Offset(i) \in Nat
           /\ Offset(i + 1) = Offset(i) + RecordSize
           /\ RecordSize \in Nat
BY SubJournalAssumption DEF Offset, RecordSize

\* Division of natural numbers.
LEMMA DivFacts ==
    ASSUME NEW a \in Nat, NEW n \in Nat \ {0}
    PROVE  /\ a \div n \in Nat
           /\ a % n \in 0 .. n - 1
           /\ a = ((a \div n) * n) + (a % n)
  OBVIOUS

\* The quotient is the only number between these bounds.
LEMMA DivUnique ==
    ASSUME NEW a \in Nat, NEW n \in Nat \ {0}, NEW q \in Nat,
           q * n <= a, a < (q + 1) * n
    PROVE  a \div n = q
  OBVIOUS

\* Adding a multiple of the divisor adds to the quotient.
LEMMA DivPlus ==
    ASSUME NEW a \in Nat, NEW n \in Nat \ {0}, NEW q \in Nat
    PROVE  (q * n + a) \div n = q + (a \div n)
<1> DEFINE d == a \div n
           r == a % n
<1>1. d \in Nat /\ r \in 0 .. n - 1 /\ a = d * n + r
  BY DivFacts
<1> HIDE DEF d, r
<1>2. q * n + a = (q + d) * n + r
  BY <1>1
<1>3. (q + d + 1) * n = (q + d) * n + n
  BY <1>1
<1>4. (q + d) * n \in Nat /\ q * n + a \in Nat /\ q + d \in Nat
  BY <1>1
<1>5. (q + d) * n <= q * n + a /\ q * n + a < (q + d + 1) * n
  BY <1>1, <1>2, <1>3, <1>4
<1>6. (q * n + a) \div n = q + d
  BY <1>4, <1>5, DivUnique
<1> QED
  BY <1>6 DEF d

--------------------------------------------------------------------------
\* A unit of a record; a cursor; a file.
Unit == Record \X (0 .. PageSize)

Points == [iOffset : Nat, chunk : Nat]

Files == [kind : {"closed", "memory", "file"}, nSpill : Int,
          content : Seq(Unit), readpoint : Points]

\* The cursor of memjrnlRead is in the chunk of its offset.
PointInList(f) ==
    f.readpoint.iOffset # 0 =>
        /\ f.readpoint.chunk = f.readpoint.iOffset \div nChunkSize(f)
        /\ f.readpoint.chunk * nChunkSize(f) < Len(f.content)

\* A chunk holds something (memjournal.c:367-372).
LEMMA ChunkSizePositive ==
    ASSUME NEW f \in Files
    PROVE  nChunkSize(f) \in Nat \ {0}
BY SubJournalAssumption DEF nChunkSize, Files

(* What a file g holds after a write of data at iOfst to the file f.      *)
Written(f, data, iOfst, g, ok) ==
    /\ g \in Files
    /\ g.kind \in {"memory", "file"}
    /\ PointInList(g)
    /\ iOfst <= Len(g.content)
    /\ \A k \in 1 .. iOfst : g.content[k] = f.content[k]
    /\ ok => /\ iOfst + Len(data) <= Len(g.content)
             /\ \A k \in 1 .. Len(data) : g.content[iOfst + k] = data[k]
    /\ ok /\ g.kind = "memory" => Len(g.content) = iOfst + Len(data)

\* What is written at iOfst is there, and what was before iOfst still is.
LEMMA OverlayProperties ==
    ASSUME NEW content \in Seq(Unit), NEW data \in Seq(Unit),
           NEW iOfst \in 0 .. Len(content)
    PROVE  /\ Overlay(content, data, iOfst) \in Seq(Unit)
           /\ Len(Overlay(content, data, iOfst)) >= Len(content)
           /\ Len(Overlay(content, data, iOfst)) >= iOfst + Len(data)
           /\ \A k \in 1 .. iOfst : Overlay(content, data, iOfst)[k] = content[k]
           /\ \A k \in 1 .. Len(data) :
                 Overlay(content, data, iOfst)[iOfst + k] = data[k]
<1> DEFINE n == IF Len(content) > iOfst + Len(data) THEN Len(content) ELSE iOfst + Len(data)
           v(k) == IF k \in iOfst + 1 .. iOfst + Len(data) THEN data[k - iOfst] ELSE content[k]
           o == [k \in 1 .. n |-> v(k)]
<1>1. /\ n \in Nat /\ n >= Len(content) /\ n >= iOfst + Len(data)
      /\ n = Len(content) \/ n = iOfst + Len(data)
  BY LenProperties
<1>2. Overlay(content, data, iOfst) = o
  BY DEF Overlay
<1>3. \A k \in 1 .. n : v(k) \in Unit
  <2> SUFFICES ASSUME NEW k \in 1 .. n
               PROVE  v(k) \in Unit
    OBVIOUS
  <2>1. CASE k \in iOfst + 1 .. iOfst + Len(data)
    <3>1. k - iOfst \in 1 .. Len(data)
      BY <2>1, LenProperties
    <3> QED
      BY <2>1, <3>1, ElementOfSeq
  <2>2. CASE k \notin iOfst + 1 .. iOfst + Len(data)
    <3>1. k \in 1 .. Len(content)
      BY <1>1, <2>2, LenProperties
    <3> QED
      BY <2>2, <3>1, ElementOfSeq
  <2> QED
    BY <2>1, <2>2
<1>4. o \in Seq(Unit) /\ Len(o) = n
  <2> HIDE DEF n, v
  <2> QED
    BY <1>1, <1>3
<1>5. ASSUME NEW k \in 1 .. iOfst
      PROVE  o[k] = content[k]
  <2>1. k \in 1 .. n /\ k \notin iOfst + 1 .. iOfst + Len(data)
    BY <1>1, LenProperties
  <2> QED
    BY <2>1
<1>6. ASSUME NEW k \in 1 .. Len(data)
      PROVE  o[iOfst + k] = data[k]
  <2>1. /\ iOfst + k \in 1 .. n /\ iOfst + k \in iOfst + 1 .. iOfst + Len(data)
        /\ (iOfst + k) - iOfst = k
    BY <1>1, LenProperties
  <2> QED
    BY <2>1
<1> QED
  BY <1>1, <1>2, <1>4, <1>5, <1>6

\* The first n units of what is to be written.
LEMMA PrefixProperties ==
    ASSUME NEW data \in Seq(Unit), NEW n \in 0 .. Len(data)
    PROVE  /\ SubSeq(data, 1, n) \in Seq(Unit)
           /\ Len(SubSeq(data, 1, n)) = n
           /\ n = Len(data) => SubSeq(data, 1, n) = data
<1>1. Len(data) \in Nat /\ n \in Nat
  BY LenProperties
<1>2. \A i \in 1 .. n : data[i] \in Unit
  BY <1>1, ElementOfSeq
<1>3. /\ SubSeq(data, 1, n) \in Seq(Unit)
      /\ Len(SubSeq(data, 1, n)) = IF 1 <= n THEN n - 1 + 1 ELSE 0
  BY <1>1, <1>2, SubSeqProperties
<1> QED
  BY <1>1, <1>3, SubSeqFull

\* A write to a temporary file, in whole or in part.
LEMMA FileWriteProperties ==
    ASSUME NEW f \in Files, f.kind = "file", PointInList(f),
           NEW data \in Seq(Unit), NEW iOfst \in 0 .. Len(f.content),
           NEW w \in FileWrite(f, data, iOfst)
    PROVE  Written(f, data, iOfst, w.file, w.ok) /\ w.ok \in BOOLEAN
<1>1. PICK n \in 0 .. Len(data) :
         w = [file |-> [f EXCEPT !.content = Overlay(@, SubSeq(data, 1, n), iOfst)],
              ok |-> n = Len(data)]
  BY DEF FileWrite
<1> DEFINE part == SubSeq(data, 1, n)
           new == Overlay(f.content, part, iOfst)
           g == w.file
<1>2. /\ f.content \in Seq(Unit) /\ f.kind = "file" /\ f.nSpill \in Int
      /\ f.readpoint \in Points
      /\ Len(f.content) \in Nat /\ iOfst \in Nat
  BY LenProperties DEF Files
<1>3. part \in Seq(Unit) /\ Len(part) = n /\ (n = Len(data) => part = data)
  BY PrefixProperties
<1>4. /\ new \in Seq(Unit)
      /\ Len(new) >= Len(f.content)
      /\ Len(new) >= iOfst + Len(part)
      /\ \A k \in 1 .. iOfst : new[k] = f.content[k]
      /\ \A k \in 1 .. Len(part) : new[iOfst + k] = part[k]
  <2> HIDE DEF part
  <2> QED
    BY <1>2, <1>3, OverlayProperties
<1>5. /\ g = [f EXCEPT !.content = new]
      /\ w.ok = (n = Len(data))
  BY <1>1
<1> HIDE DEF new, part
<1>6. /\ g \in Files /\ g.kind = "file" /\ g.content = new
      /\ g.nSpill = f.nSpill /\ g.readpoint = f.readpoint
  BY <1>2, <1>4, <1>5 DEF Files
<1>7. Len(new) \in Nat
  BY <1>4, LenProperties
<1>8. PointInList(g)
  <2>1. nChunkSize(g) = nChunkSize(f)
    BY <1>6 DEF nChunkSize
  <2>2. nChunkSize(f) \in Nat
    BY ChunkSizePositive
  <2>3. f.readpoint.chunk \in Nat
    BY <1>2 DEF Points
  <2> QED
    BY <1>2, <1>4, <1>6, <1>7, <2>1, <2>2, <2>3 DEF PointInList
<1>9. w.ok => iOfst + Len(data) <= Len(new) /\ \A k \in 1 .. Len(data) : new[iOfst + k] = data[k]
  BY <1>3, <1>4, <1>5, <1>7
<1> QED
  BY <1>2, <1>4, <1>5, <1>6, <1>7, <1>8, <1>9 DEF Written

\* A write by memjrnlWrite, with and without a spill.
LEMMA MemoryWriteProperties ==
    ASSUME NEW f \in Files, f.kind = "memory", PointInList(f),
           NEW data \in Seq(Unit), NEW iOfst \in Nat, iOfst = Len(f.content),
           NEW w \in memjrnlWrite(f, data, iOfst)
    PROVE  Written(f, data, iOfst, w.file, w.ok) /\ w.ok \in BOOLEAN
<1>1. CASE w = [file |-> f, ok |-> FALSE]
  BY <1>1 DEF Written
<1>2. CASE w \in FileWrite(memjrnlCreateFile(f), data, iOfst)
  <2> DEFINE g == memjrnlCreateFile(f)
  <2>1. f.content \in Seq(Unit)
    BY DEF Files
  <2>2. /\ g = [kind |-> "file", nSpill |-> 0, content |-> f.content, readpoint |-> NoPoint]
        /\ NoPoint \in Points
    BY DEF memjrnlCreateFile, NewFile, NoPoint, Points
  <2>3. g \in Files /\ g.kind = "file" /\ g.content = f.content /\ PointInList(g)
    BY <2>1, <2>2 DEF Files, PointInList, NoPoint
  <2>4. iOfst \in 0 .. Len(g.content)
    BY <2>3
  <2> HIDE DEF g
  <2>5. Written(g, data, iOfst, w.file, w.ok) /\ w.ok \in BOOLEAN
    BY <1>2, <2>3, <2>4, FileWriteProperties DEF g
  <2> QED
    BY <2>3, <2>5 DEF Written
<1>3. CASE w \in {[file |-> [f EXCEPT !.content = @ \o SubSeq(data, 1, n)],
                   ok |-> n = Len(data)] : n \in Allocated(f, data)}
  <2>1. PICK n \in 0 .. Len(data) :
           w = [file |-> [f EXCEPT !.content = @ \o SubSeq(data, 1, n)], ok |-> n = Len(data)]
    BY <1>3 DEF Allocated
  <2> DEFINE part == SubSeq(data, 1, n)
             new == f.content \o part
  <2>2. /\ f.content \in Seq(Unit) /\ f.nSpill \in Int /\ f.readpoint \in Points
        /\ Len(f.content) \in Nat /\ Len(data) \in Nat
    BY LenProperties DEF Files
  <2>3. part \in Seq(Unit) /\ Len(part) = n /\ (n = Len(data) => part = data)
    BY PrefixProperties
  <2> HIDE DEF part
  <2>4. /\ new \in Seq(Unit)
        /\ Len(new) = iOfst + n
        /\ \A k \in 1 .. iOfst + n :
              new[k] = IF k <= iOfst THEN f.content[k] ELSE part[k - iOfst]
    BY <2>2, <2>3, ConcatProperties
  <2>5. w.file = [f EXCEPT !.content = new] /\ w.ok = (n = Len(data))
    BY <2>1 DEF part
  <2> HIDE DEF new
  <2>6. /\ w.file \in Files /\ w.file.kind = "memory" /\ w.file.content = new
        /\ w.file.nSpill = f.nSpill /\ w.file.readpoint = f.readpoint
    BY <2>2, <2>4, <2>5 DEF Files
  <2>7. PointInList(w.file)
    <3>1. nChunkSize(w.file) = nChunkSize(f)
      BY <2>6 DEF nChunkSize
    <3>2. nChunkSize(f) \in Nat
      BY ChunkSizePositive
    <3>3. f.readpoint.chunk \in Nat
      BY <2>2 DEF Points
    <3> QED
      BY <2>2, <2>4, <2>6, <3>1, <3>2, <3>3 DEF PointInList
  <2>8. \A k \in 1 .. iOfst : new[k] = f.content[k]
    BY <2>4
  <2>9. ASSUME w.ok, NEW k \in 1 .. Len(data)
        PROVE  new[iOfst + k] = data[k]
    <3>1. n = Len(data) /\ part = data
      BY <2>3, <2>5, <2>9
    <3>2. iOfst + k \in 1 .. iOfst + n /\ ~(iOfst + k <= iOfst) /\ (iOfst + k) - iOfst = k
      BY <2>2, <3>1
    <3> QED
      BY <2>4, <3>1, <3>2
  <2>10. w.ok => Len(new) = iOfst + Len(data)
    BY <2>4, <2>5
  <2>11. iOfst <= Len(new)
    BY <2>4
  <2> QED
    BY <2>2, <2>5, <2>6, <2>7, <2>8, <2>9, <2>10, <2>11 DEF Written
<1> QED
  BY <1>1, <1>2, <1>3 DEF memjrnlWrite

\* A write to either kind of file.
LEMMA WriteProperties ==
    ASSUME NEW f \in Files, f.kind \in {"memory", "file"}, PointInList(f),
           NEW data \in Seq(Unit), NEW iOfst \in Nat, iOfst <= Len(f.content),
           f.kind = "memory" => iOfst = Len(f.content),
           NEW w \in sqlite3OsWrite(f, data, iOfst)
    PROVE  Written(f, data, iOfst, w.file, w.ok) /\ w.ok \in BOOLEAN
<1>1. iOfst \in 0 .. Len(f.content)
  BY LenProperties DEF Files
<1> QED
  BY <1>1, FileWriteProperties, MemoryWriteProperties DEF sqlite3OsWrite

(* What a read of iAmt units at iOfst from the file f returns.            *)
LEMMA ReadProperties ==
    ASSUME NEW f \in Files, f.kind \in {"memory", "file"}, PointInList(f),
           NEW iAmt \in Nat, NEW iOfst \in Nat, iOfst + iAmt <= Len(f.content)
    PROVE  LET read == sqlite3OsRead(f, iAmt, iOfst)
           IN  /\ read.data = SubSeq(f.content, iOfst + 1, iOfst + iAmt)
               /\ read.file \in Files
               /\ read.file.kind = f.kind
               /\ read.file.content = f.content
               /\ PointInList(read.file)
<1>1. CASE f.kind = "file"
  BY <1>1 DEF sqlite3OsRead
<1>2. CASE f.kind = "memory"
  <2> DEFINE n == nChunkSize(f)
             chunk == ReadChunk(f, iOfst)
             within == iOfst % n
             first == chunk * n + within
             last == chunk + ((within + iAmt) \div n)
             point == IF last * n < Len(f.content)
                      THEN [iOffset |-> iOfst + iAmt, chunk |-> last]
                      ELSE NoPoint
             read == sqlite3OsRead(f, iAmt, iOfst)
  <2>1. n \in Nat \ {0}
    BY ChunkSizePositive
  <2>2. f.readpoint.iOffset \in Nat /\ f.readpoint.chunk \in Nat
    BY DEF Files, Points
  <2> HIDE DEF n
  <2>3. chunk = iOfst \div n
    BY <2>2 DEF ReadChunk, PointInList, n
  <2> HIDE DEF chunk
  <2>4. chunk \in Nat /\ within \in 0 .. n - 1 /\ iOfst = chunk * n + within
    BY <2>1, <2>3, DivFacts
  <2> HIDE DEF within
  <2>5. within + iAmt \in Nat /\ chunk * n \in Nat
    BY <2>1, <2>4
  <2>6. (within + iAmt) \div n \in Nat
    BY <2>1, <2>5, DivFacts
  <2>7. (chunk * n + (within + iAmt)) \div n = chunk + ((within + iAmt) \div n)
    BY <2>1, <2>4, <2>5, DivPlus
  <2>8. chunk * n + (within + iAmt) = iOfst + iAmt
    BY <2>1, <2>4, <2>5
  <2>9. last = (iOfst + iAmt) \div n /\ last \in Nat
    BY <2>4, <2>6, <2>7, <2>8
  <2>10. /\ read.data = SubSeq(f.content, first + 1, first + iAmt)
         /\ read.file = [f EXCEPT !.readpoint = point]
    BY <1>2 DEF sqlite3OsRead, memjrnlRead, n, chunk, within
  <2> HIDE DEF last, read
  <2>11. point \in Points
    BY <2>9 DEF Points, NoPoint
  <2> HIDE DEF point
  <2>12. /\ read.file \in Files /\ read.file.kind = f.kind
         /\ read.file.content = f.content /\ read.file.nSpill = f.nSpill
         /\ read.file.readpoint = point
    BY <2>10, <2>11 DEF Files
  <2>13. nChunkSize(read.file) = n
    BY <2>12 DEF nChunkSize, n
  <2>14. PointInList(read.file)
    <3>1. CASE last * n < Len(f.content)
      <4>1. point.iOffset = iOfst + iAmt /\ point.chunk = last
        BY <3>1 DEF point
      <4> QED
        BY <2>9, <2>12, <2>13, <3>1, <4>1 DEF PointInList
    <3>2. CASE ~(last * n < Len(f.content))
      <4>1. point.iOffset = 0
        BY <3>2 DEF point, NoPoint
      <4> QED
        BY <2>12, <4>1 DEF PointInList
    <3> QED
      BY <3>1, <3>2
  <2>15. first = iOfst
    BY <2>4
  <2> QED
    BY <2>10, <2>12, <2>14, <2>15 DEF read
<1> QED
  BY <1>1, <1>2

--------------------------------------------------------------------------
(* The inductive invariant.                                               *)
Calls == {Idle, [op |-> "playback"]} \cup [op : {"page"}, record : Record]

TypeOK ==
    /\ sjfd \in Files
    /\ nSubRec \in Nat
    /\ aSavepoint \in Seq(Nat)
    /\ call \in Calls
    /\ ii \in Nat
    /\ asserted \in BOOLEAN
    /\ cutShort \in BOOLEAN

(* The file holds nSubRec records, and the page number of the one that is *)
(* being written.  In memory nothing follows them, unless a record was    *)
(* cut short.                                                             *)
RecordsHeld ==
    /\ Offset(nSubRec) <= Len(sjfd.content)
    /\ sjfd.kind = "closed" => nSubRec = 0
    /\ sjfd.kind = "memory" /\ call.op # "page" /\ ~cutShort =>
          Len(sjfd.content) = Offset(nSubRec)
    /\ call.op = "page" =>
          /\ sjfd.kind # "closed"
          /\ Offset(nSubRec) + 1 <= Len(sjfd.content)
          /\ sjfd.content[Offset(nSubRec) + 1] = <<call.record, 0>>
          /\ sjfd.kind = "memory" => Len(sjfd.content) = Offset(nSubRec) + 1

\* No savepoint and no rollback is ahead of the records.
MarksHeld ==
    /\ \A i \in 1 .. Len(aSavepoint) : aSavepoint[i] <= nSubRec
    /\ call.op = "playback" => ii <= nSubRec
    /\ call.op = "page" => aSavepoint # <<>>

Inv ==
    /\ TypeOK
    /\ RecordsHeld
    /\ MarksHeld
    /\ PointInList(sjfd)
    /\ AssertionsHold

\* The file is closed and the transaction has no savepoint.
LEMMA InitInv == Init => Inv
<1> SUFFICES ASSUME Init PROVE Inv
  OBVIOUS
<1>1. sjfd = [kind |-> "closed", nSpill |-> 0, content |-> <<>>, readpoint |-> NoPoint]
  BY DEF Init, Closed, NewFile
<1>2. <<>> \in Seq(Unit) /\ <<>> \in Seq(Nat) /\ Len(<<>>) = 0
  OBVIOUS
<1>3. sjfd \in Files /\ PointInList(sjfd)
  BY <1>1, <1>2 DEF Files, Points, NoPoint, PointInList
<1>4. Offset(0) = 0
  BY SubJournalAssumption DEF Offset, RecordSize
<1>5. TypeOK
  BY <1>2, <1>3 DEF Init, TypeOK, Calls
<1>6. RecordsHeld
  BY <1>1, <1>2, <1>4 DEF Init, RecordsHeld, Idle
<1>7. MarksHeld
  BY <1>2 DEF Init, MarksHeld, Idle
<1> QED
  BY <1>3, <1>5, <1>6, <1>7 DEF Init, Inv, AssertionsHold

--------------------------------------------------------------------------
(* The records of a file with the content c, of which n count, from i on. *)
Rec(c, i) == SubSeq(c, Offset(i) + 1, Offset(i + 1))
Recs(c, n, i) == [k \in 1 .. n - i |-> Rec(c, i + k - 1)]

\* A record of the file c.
LEMMA RecAt ==
    ASSUME NEW c \in Seq(Unit), NEW i \in Nat, Offset(i + 1) <= Len(c)
    PROVE  /\ Rec(c, i) \in Seq(Unit)
           /\ Len(Rec(c, i)) = RecordSize
           /\ \A k \in 1 .. RecordSize : Rec(c, i)[k] = c[Offset(i) + k]
<1> DEFINE a == Offset(i) + 1
           b == Offset(i + 1)
<1>1. /\ Offset(i) \in Nat /\ b = Offset(i) + RecordSize /\ RecordSize \in Nat
  BY OffsetStep
<1>2. Len(c) \in Nat
  BY LenProperties
<1>3. \A k \in a .. b : c[k] \in Unit
  BY <1>1, <1>2, ElementOfSeq
<1>4. a \in Int /\ b \in Int
  BY <1>1
<1>5. /\ a <= b /\ b - a + 1 = RecordSize
      /\ \A k \in 1 .. RecordSize : a + k - 1 = Offset(i) + k
  BY <1>1, SubJournalAssumption DEF RecordSize
<1> HIDE DEF a, b
<1>6. /\ SubSeq(c, a, b) \in Seq(Unit)
      /\ Len(SubSeq(c, a, b)) = (IF a <= b THEN b - a + 1 ELSE 0)
      /\ \A k \in 1 .. b - a + 1 : SubSeq(c, a, b)[k] = c[a + k - 1]
  BY <1>3, <1>4, SubSeqProperties
<1>7. Rec(c, i) = SubSeq(c, a, b)
  BY DEF Rec, a, b
<1>8. /\ Rec(c, i) \in Seq(Unit) /\ Len(Rec(c, i)) = RecordSize
      /\ \A k \in 1 .. RecordSize : Rec(c, i)[k] = c[a + k - 1]
  BY <1>5, <1>6, <1>7
<1> QED
  BY <1>5, <1>8

\* A record among those that count.
LEMMA RecProperties ==
    ASSUME NEW c \in Seq(Unit), NEW n \in Nat, NEW i \in 0 .. n - 1, Offset(n) <= Len(c)
    PROVE  /\ Rec(c, i) \in Seq(Unit)
           /\ Len(Rec(c, i)) = RecordSize
           /\ \A k \in 1 .. RecordSize : Rec(c, i)[k] = c[Offset(i) + k]
           /\ Offset(i) \in Nat /\ Offset(i) + RecordSize <= Offset(n)
<1> DEFINE lo == Offset(i)
           hi == Offset(i + 1)
           top == Offset(n)
<1>1. i \in Nat /\ i < n /\ i <= n
  OBVIOUS
<1>2. lo \in Nat /\ hi = lo + RecordSize /\ RecordSize \in Nat
  BY <1>1, OffsetStep
<1>3. hi <= top
  BY <1>1, OffsetMonotone
<1>4. top \in Nat
  BY OffsetStep
<1>5. Offset(i + 1) <= Len(c)
  BY <1>2, <1>3, <1>4, LenProperties
<1>6. /\ Rec(c, i) \in Seq(Unit) /\ Len(Rec(c, i)) = RecordSize
      /\ \A k \in 1 .. RecordSize : Rec(c, i)[k] = c[Offset(i) + k]
  BY <1>1, <1>5, RecAt
<1> QED
  BY <1>2, <1>3, <1>6

\* Files with the same units have the same records,
LEMMA RecKept ==
    ASSUME NEW c \in Seq(Unit), NEW d \in Seq(Unit), NEW n \in Nat, NEW i \in 0 .. n - 1,
           Offset(n) <= Len(c), Offset(n) <= Len(d),
           \A k \in 1 .. Offset(n) : d[k] = c[k]
    PROVE  Rec(d, i) = Rec(c, i)
<1>1. /\ Rec(c, i) \in Seq(Unit) /\ Rec(d, i) \in Seq(Unit)
      /\ Len(Rec(c, i)) = RecordSize /\ Len(Rec(d, i)) = RecordSize
      /\ \A k \in 1 .. RecordSize : Rec(c, i)[k] = c[Offset(i) + k]
      /\ \A k \in 1 .. RecordSize : Rec(d, i)[k] = d[Offset(i) + k]
      /\ Offset(i) \in Nat /\ Offset(i) + RecordSize <= Offset(n)
  BY RecProperties
<1>2. RecordSize \in Nat /\ Offset(n) \in Nat
  BY OffsetMonotone
<1>3. \A k \in 1 .. RecordSize : Offset(i) + k \in 1 .. Offset(n)
  BY <1>1, <1>2
<1>4. \A k \in 1 .. Len(Rec(d, i)) : Rec(d, i)[k] = Rec(c, i)[k]
  BY <1>1, <1>3
<1> QED
  BY <1>1, <1>4, SeqEqual

\* The records from i on.
LEMMA RecsType ==
    ASSUME NEW c \in Seq(Unit), NEW n \in Nat, NEW i \in 0 .. n, Offset(n) <= Len(c)
    PROVE  /\ Recs(c, n, i) \in Seq(Seq(Unit))
           /\ Len(Recs(c, n, i)) = n - i
           /\ \A k \in 1 .. n - i : Recs(c, n, i)[k] = Rec(c, i + k - 1)
<1>1. \A k \in 1 .. n - i : Rec(c, i + k - 1) \in Seq(Unit)
  <2> SUFFICES ASSUME NEW k \in 1 .. n - i PROVE Rec(c, i + k - 1) \in Seq(Unit)
    OBVIOUS
  <2>1. i + k - 1 \in 0 .. n - 1
    OBVIOUS
  <2> QED
    BY <2>1, RecProperties
<1>2. n - i \in Nat
  OBVIOUS
<1> QED
  BY <1>1, <1>2 DEF Recs

\* and the same sequences of records.
LEMMA RecsKept ==
    ASSUME NEW c \in Seq(Unit), NEW d \in Seq(Unit), NEW n \in Nat, NEW i \in 0 .. n,
           Offset(n) <= Len(c), Offset(n) <= Len(d),
           \A k \in 1 .. Offset(n) : d[k] = c[k]
    PROVE  Recs(d, n, i) = Recs(c, n, i)
<1>1. \A k \in 1 .. n - i : i + k - 1 \in 0 .. n - 1
  OBVIOUS
<1>2. \A k \in 1 .. n - i : Rec(d, i + k - 1) = Rec(c, i + k - 1)
  BY <1>1, RecKept
<1> QED
  BY <1>2 DEF Recs

\* All records.
LEMMA RecsFromFirst ==
    ASSUME NEW c \in Seq(Unit), NEW n \in Nat, Offset(n) <= Len(c)
    PROVE  /\ Recs(c, n, 0) \in Seq(Seq(Unit)) /\ Len(Recs(c, n, 0)) = n
           /\ \A k \in 1 .. n : Recs(c, n, 0)[k] = Rec(c, k - 1)
<1>1. 0 \in 0 .. n /\ n - 0 = n /\ \A k \in 1 .. n : 0 + k - 1 = k - 1
  OBVIOUS
<1>2. /\ Recs(c, n, 0) \in Seq(Seq(Unit))
      /\ Len(Recs(c, n, 0)) = n - 0
      /\ \A k \in 1 .. n - 0 : Recs(c, n, 0)[k] = Rec(c, 0 + k - 1)
  BY <1>1, RecsType
<1> QED
  BY <1>1, <1>2

\* One more record counts.
LEMMA RecsAppend ==
    ASSUME NEW c \in Seq(Unit), NEW d \in Seq(Unit), NEW n \in Nat,
           Offset(n) <= Len(c), Offset(n + 1) <= Len(d),
           \A k \in 1 .. Offset(n) : d[k] = c[k]
    PROVE  Recs(d, n + 1, 0) = Append(Recs(c, n, 0), Rec(d, n))
<1>0. n + 1 \in Nat /\ n <= n + 1 /\ 0 \in 0 .. n
  OBVIOUS
<1>1. /\ Offset(n) \in Nat /\ Offset(n + 1) \in Nat /\ Offset(n) <= Offset(n + 1)
      /\ Len(d) \in Nat /\ Offset(n) <= Len(d)
  <2>1. Offset(n) \in Nat /\ Offset(n + 1) \in Nat /\ Offset(n) <= Offset(n + 1)
    BY <1>0, OffsetMonotone
  <2> QED
    BY <2>1, LenProperties
<1>2. Recs(d, n, 0) = Recs(c, n, 0)
  BY <1>0, <1>1, RecsKept
<1>3. /\ Recs(d, n, 0) \in Seq(Seq(Unit)) /\ Len(Recs(d, n, 0)) = n
      /\ \A k \in 1 .. n : Recs(d, n, 0)[k] = Rec(d, k - 1)
  BY <1>1, RecsFromFirst
<1>4. /\ Recs(d, n + 1, 0) \in Seq(Seq(Unit)) /\ Len(Recs(d, n + 1, 0)) = n + 1
      /\ \A k \in 1 .. n + 1 : Recs(d, n + 1, 0)[k] = Rec(d, k - 1)
  BY <1>0, RecsFromFirst
<1>5. Rec(d, n) \in Seq(Unit)
  BY RecProperties
<1> DEFINE a == Append(Recs(d, n, 0), Rec(d, n))
<1>6. /\ a \in Seq(Seq(Unit)) /\ Len(a) = n + 1
      /\ \A k \in 1 .. n : a[k] = Recs(d, n, 0)[k]
      /\ a[n + 1] = Rec(d, n)
  BY <1>3, <1>5, AppendProperties
<1> HIDE DEF a
<1>7. ASSUME NEW k \in 1 .. n + 1
      PROVE  Recs(d, n + 1, 0)[k] = a[k]
  <2>1. CASE k = n + 1
    <3>1. k - 1 = n
      BY <2>1
    <3> QED
      BY <1>4, <1>6, <2>1, <3>1
  <2>2. CASE k \in 1 .. n
    BY <1>3, <1>4, <1>6, <2>2
  <2> QED
    BY <2>1, <2>2
<1>8. Recs(d, n + 1, 0) = a
  BY <1>4, <1>6, <1>7, SeqEqual
<1> QED
  BY <1>2, <1>8 DEF a

\* The first of the records from i on, and the rest.
LEMMA RecsTail ==
    ASSUME NEW c \in Seq(Unit), NEW n \in Nat, NEW i \in 0 .. n - 1, Offset(n) <= Len(c)
    PROVE  /\ Recs(c, n, i) # <<>>
           /\ Head(Recs(c, n, i)) = Rec(c, i)
           /\ Tail(Recs(c, n, i)) = Recs(c, n, i + 1)
<1> DEFINE s == Recs(c, n, i)
           t == Recs(c, n, i + 1)
<1>0. i \in 0 .. n /\ i + 1 \in 0 .. n
  OBVIOUS
<1>1. /\ s \in Seq(Seq(Unit)) /\ Len(s) = n - i
      /\ \A k \in 1 .. n - i : s[k] = Rec(c, i + k - 1)
  BY <1>0, RecsType
<1>2. /\ t \in Seq(Seq(Unit)) /\ Len(t) = n - (i + 1)
      /\ \A k \in 1 .. n - (i + 1) : t[k] = Rec(c, (i + 1) + k - 1)
  BY <1>0, RecsType
<1> HIDE DEF s, t
<1>3. s # <<>>
  BY <1>1
<1>4. Head(s) = s[1] /\ 1 \in 1 .. n - i /\ i + 1 - 1 = i
  BY <1>1, <1>3
<1>5. /\ Tail(s) \in Seq(Seq(Unit)) /\ Len(Tail(s)) = n - i - 1
      /\ \A k \in 1 .. n - i - 1 : Tail(s)[k] = s[k + 1]
  BY <1>1, <1>3, HeadTailProperties
<1>6. ASSUME NEW k \in 1 .. n - i - 1
      PROVE  Tail(s)[k] = t[k]
  <2>1. k + 1 \in 1 .. n - i /\ i + (k + 1) - 1 = (i + 1) + k - 1 /\ k \in 1 .. n - (i + 1)
    OBVIOUS
  <2> QED
    BY <1>1, <1>2, <1>5, <2>1
<1>7. Len(Tail(s)) = Len(t) /\ \A k \in 1 .. Len(Tail(s)) : Tail(s)[k] = t[k]
  BY <1>2, <1>5, <1>6
<1>8. Tail(s) = t
  BY <1>2, <1>5, <1>7, SeqEqual
<1> QED
  BY <1>1, <1>3, <1>4, <1>8 DEF s, t

\* The records from i on are the last of all records.
LEMMA RecsSuffix ==
    ASSUME NEW c \in Seq(Unit), NEW n \in Nat, NEW i \in 0 .. n, Offset(n) <= Len(c)
    PROVE  SubSeq(Recs(c, n, 0), i + 1, Len(Recs(c, n, 0))) = Recs(c, n, i)
<1> DEFINE s == Recs(c, n, 0)
           t == Recs(c, n, i)
           u == SubSeq(s, i + 1, n)
<1>1. /\ s \in Seq(Seq(Unit)) /\ Len(s) = n
      /\ \A k \in 1 .. n : s[k] = Rec(c, 0 + k - 1)
  BY RecsType
<1>2. /\ t \in Seq(Seq(Unit)) /\ Len(t) = n - i
      /\ \A k \in 1 .. n - i : t[k] = Rec(c, i + k - 1)
  BY RecsType
<1> HIDE DEF s, t
<1>3. \A k \in i + 1 .. n : s[k] \in Seq(Unit)
  BY <1>1, ElementOfSeq
<1>4. /\ u \in Seq(Seq(Unit)) /\ Len(u) = (IF i + 1 <= n THEN n - (i + 1) + 1 ELSE 0)
      /\ \A k \in 1 .. n - (i + 1) + 1 : u[k] = s[(i + 1) + k - 1]
  BY <1>3, SubSeqProperties
<1> HIDE DEF u
<1>5. ASSUME NEW k \in 1 .. n - i
      PROVE  u[k] = t[k]
  <2>1. /\ k \in 1 .. n - (i + 1) + 1 /\ (i + 1) + k - 1 \in 1 .. n
        /\ 0 + ((i + 1) + k - 1) - 1 = i + k - 1
    OBVIOUS
  <2> QED
    BY <1>1, <1>2, <1>4, <2>1
<1>6. Len(u) = n - i
  BY <1>4
<1>7. u = t
  BY <1>2, <1>4, <1>5, <1>6, SeqEqual
<1> QED
  BY <1>1, <1>7 DEF s, t, u

\* No record follows the last.
LEMMA RecsNone ==
    ASSUME NEW c, NEW n \in Nat
    PROVE  Recs(c, n, n) = <<>>
BY DEF Recs


--------------------------------------------------------------------------
(* The log that the sub-journal holds, in both states of a step.          *)
LEMMA Records ==
    /\ \A i : RecordsFrom(i) = Recs(sjfd.content, nSubRec, i)
    /\ RecordsFrom(0)' = Recs(sjfd'.content, nSubRec', 0)
    /\ RecordsFrom(ii)' = Recs(sjfd'.content, nSubRec', ii')
BY DEF RecordsFrom, Units, Recs, Rec

(* A step that keeps the records and the marks, outside of a rollback.    *)
Stutters ==
    /\ RecordsFrom(0)' = RecordsFrom(0)
    /\ aSavepoint' = aSavepoint
    /\ call.op # "playback" /\ (call.op # "playback")'
    /\ played' = played

\* Such a step does not change the log.
LEMMA Stutter == Stutters => UNCHANGED Log!logVars
BY DEF Stutters, Log!logVars

\* The units of a record.
LEMMA RecordUnits ==
    ASSUME NEW r \in Record
    PROVE  /\ PageNumber(r) \in Seq(Unit) /\ Len(PageNumber(r)) = 1
           /\ PageNumber(r)[1] = <<r, 0>>
           /\ PageData(r) \in Seq(Unit) /\ Len(PageData(r)) = PageSize
<1>1. <<r, 0>> \in Unit
  BY SubJournalAssumption DEF Unit
<1>2. \A k \in 1 .. PageSize : <<r, k>> \in Unit
  BY SubJournalAssumption DEF Unit
<1> HIDE DEF Unit
<1> QED
  BY <1>1, <1>2, SubJournalAssumption DEF PageNumber, PageData

\* The first record is at the beginning of the file.
LEMMA OffsetZero == Offset(0) = 0
BY SubJournalAssumption DEF Offset, RecordSize

\* What the invariant says of the file,
LEMMA FileFacts ==
    ASSUME Inv
    PROVE  /\ sjfd \in Files /\ sjfd.content \in Seq(Unit) /\ Len(sjfd.content) \in Nat
           /\ sjfd.kind \in {"closed", "memory", "file"}
           /\ nSubRec \in Nat /\ Offset(nSubRec) \in Nat
           /\ Offset(nSubRec) <= Len(sjfd.content)
           /\ RecordSize \in Nat /\ Offset(nSubRec + 1) = Offset(nSubRec) + RecordSize
<1>1. sjfd \in Files /\ nSubRec \in Nat /\ Offset(nSubRec) <= Len(sjfd.content)
  BY DEF Inv, TypeOK, RecordsHeld
<1>2. sjfd.content \in Seq(Unit) /\ sjfd.kind \in {"closed", "memory", "file"}
  BY <1>1 DEF Files
<1>3. /\ Offset(nSubRec) \in Nat /\ RecordSize \in Nat
      /\ Offset(nSubRec + 1) = Offset(nSubRec) + RecordSize
  BY <1>1, OffsetStep
<1> QED
  BY <1>1, <1>2, <1>3, LenProperties


--------------------------------------------------------------------------
(* The steps.                                                             *)

(* The file that openSubJournal leaves takes a record at its end.         *)
LEMMA OpenedFile ==
    ASSUME Inv, call = Idle, ~cutShort, NEW f \in openSubJournal
    PROVE  /\ f \in Files /\ f.kind \in {"memory", "file"} /\ PointInList(f)
           /\ Offset(nSubRec) <= Len(f.content)
           /\ f.kind = "memory" => Offset(nSubRec) = Len(f.content)
           /\ \A k \in 1 .. Offset(nSubRec) : f.content[k] = sjfd.content[k]
<1>1. CASE sjfd.kind = "closed"
  <2>1. PICK n \in Spills :
           f = [kind |-> IF n = 0 THEN "file" ELSE "memory", nSpill |-> n,
                content |-> <<>>, readpoint |-> NoPoint]
    BY <1>1 DEF openSubJournal, NewFile
  <2>2. <<>> \in Seq(Unit) /\ Len(<<>>) = 0 /\ n \in Int
    BY SubJournalAssumption
  <2>3. NoPoint \in Points /\ NoPoint.iOffset = 0
    BY DEF NoPoint, Points
  <2>4. /\ f.kind \in {"memory", "file"} /\ f.nSpill \in Int
        /\ f.content = <<>> /\ f.readpoint = NoPoint
    BY <2>1, <2>2
  <2>5. f \in Files
    BY <2>1, <2>2, <2>3 DEF Files
  <2>6. nSubRec = 0
    BY <1>1 DEF Inv, RecordsHeld
  <2>7. PointInList(f)
    BY <2>3, <2>4 DEF PointInList
  <2> QED
    BY <2>2, <2>4, <2>5, <2>6, <2>7, OffsetZero
<1>2. CASE sjfd.kind # "closed"
  <2>1. f = sjfd
    BY <1>2 DEF openSubJournal
  <2>2. sjfd.kind = "memory" => Offset(nSubRec) = Len(sjfd.content)
    BY DEF Inv, RecordsHeld, Idle
  <2> QED
    BY <1>2, <2>1, <2>2, FileFacts DEF Inv
<1> QED
  BY <1>1, <1>2

\* The page number is written, in whole, in part or not at all.
LEMMA SubjournalPage ==
    ASSUME Inv, ~RetryFailed, NEW r \in Record, subjournalPage(r)
    PROVE  Inv' /\ Stutters
<1>1. /\ call = Idle /\ aSavepoint # <<>> /\ ~cutShort
      /\ nSubRec' = nSubRec /\ aSavepoint' = aSavepoint /\ ii' = ii /\ played' = played
  BY DEF subjournalPage
<1>2. Idle.op = "none" /\ Idle \in Calls
  BY DEF Idle, Calls
<1>3. CASE UNCHANGED <<sjfd, call, asserted, cutShort>>
  <2>1. RecordsFrom(0)' = RecordsFrom(0)
    BY <1>1, <1>3, Records
  <2>2. Inv'
    BY <1>1, <1>3 DEF Inv, TypeOK, RecordsHeld, MarksHeld, PointInList, AssertionsHold
  <2> QED
    BY <1>1, <1>2, <1>3, <2>1, <2>2 DEF Stutters
<1>4. CASE \E f \in openSubJournal :
              \E w \in sqlite3OsWrite(f, PageNumber(r), Offset(nSubRec)) :
                 /\ sjfd' = w.file
                 /\ call' = IF w.ok THEN [op |-> "page", record |-> r] ELSE Idle
                 /\ asserted' = (asserted
                                 \/ ~WriteAsserts(f, PageNumber(r), Offset(nSubRec)))
                 /\ cutShort' = (cutShort \/ CutShort(w))
  <2>0. PICK f \in openSubJournal :
           \E w \in sqlite3OsWrite(f, PageNumber(r), Offset(nSubRec)) :
              /\ sjfd' = w.file
              /\ call' = IF w.ok THEN [op |-> "page", record |-> r] ELSE Idle
              /\ asserted' = (asserted \/ ~WriteAsserts(f, PageNumber(r), Offset(nSubRec)))
              /\ cutShort' = (cutShort \/ CutShort(w))
    BY <1>4
  <2>1. PICK w \in sqlite3OsWrite(f, PageNumber(r), Offset(nSubRec)) :
           /\ sjfd' = w.file
           /\ call' = IF w.ok THEN [op |-> "page", record |-> r] ELSE Idle
           /\ asserted' = (asserted \/ ~WriteAsserts(f, PageNumber(r), Offset(nSubRec)))
           /\ cutShort' = (cutShort \/ CutShort(w))
    BY <2>0
  <2> DEFINE end == Offset(nSubRec)
             number == PageNumber(r)
  <2>2. /\ f \in Files /\ f.kind \in {"memory", "file"} /\ PointInList(f)
        /\ end <= Len(f.content)
        /\ f.kind = "memory" => end = Len(f.content)
        /\ \A k \in 1 .. end : f.content[k] = sjfd.content[k]
    BY <1>1, OpenedFile
  <2>3. number \in Seq(Unit) /\ Len(number) = 1 /\ number[1] = <<r, 0>>
    BY RecordUnits
  <2>4. end \in Nat
    BY FileFacts
  <2>5. Offset(nSubRec)' = end
    BY <1>1
  <2>6. asserted' = FALSE
    BY <2>1, <2>2 DEF WriteAsserts, Inv, AssertionsHold
  <2> HIDE DEF end, number
  <2>7. Written(f, number, end, w.file, w.ok) /\ w.ok \in BOOLEAN
    BY <2>1, <2>2, <2>3, <2>4, WriteProperties DEF number, end
  <2>8. /\ sjfd' \in Files /\ sjfd'.kind \in {"memory", "file"} /\ PointInList(sjfd')
        /\ end <= Len(sjfd'.content)
        /\ \A k \in 1 .. end : sjfd'.content[k] = sjfd.content[k]
    BY <2>1, <2>2, <2>7 DEF Written
  <2>9. w.ok => /\ end + 1 <= Len(sjfd'.content)
                /\ sjfd'.content[end + 1] = <<r, 0>>
                /\ sjfd'.kind = "memory" => Len(sjfd'.content) = end + 1
    BY <2>1, <2>3, <2>7 DEF Written
  <2>10. /\ call' \in Calls
         /\ (call'.op = "page") <=> w.ok
         /\ w.ok => call'.record = r
         /\ call'.op # "playback"
    BY <1>2, <2>1, <2>7 DEF Calls
  <2>11. cutShort' \in BOOLEAN /\ (sjfd'.kind = "memory" /\ ~w.ok /\ ~cutShort' =>
                                       Len(sjfd'.content) = end)
    BY <1>1, <2>1 DEF CutShort, end
  <2>12. TypeOK'
    BY <1>1, <2>6, <2>8, <2>10, <2>11 DEF Inv, TypeOK
  <2>13. RecordsHeld'
    BY <2>5, <2>8, <2>9, <2>10, <2>11 DEF RecordsHeld
  <2>14. MarksHeld'
    BY <1>1, <2>10 DEF Inv, MarksHeld
  <2>15. Inv'
    BY <2>6, <2>8, <2>12, <2>13, <2>14 DEF Inv, AssertionsHold
  <2>16. RecordsFrom(0)' = RecordsFrom(0)
    <3>1. /\ sjfd.content \in Seq(Unit) /\ sjfd'.content \in Seq(Unit)
          /\ nSubRec \in Nat /\ 0 \in 0 .. nSubRec
          /\ Offset(nSubRec) <= Len(sjfd.content)
      BY <2>8, FileFacts DEF Files
    <3>2. Recs(sjfd'.content, nSubRec, 0) = Recs(sjfd.content, nSubRec, 0)
      BY <2>8, <3>1, RecsKept DEF end
    <3> QED
      BY <1>1, <3>2, Records
  <2> QED
    BY <1>1, <1>2, <2>10, <2>15, <2>16 DEF Stutters
<1> QED
  BY <1>1, <1>3, <1>4 DEF subjournalPage


(* A record whose two parts are in the file is that record.               *)
LEMMA RecordWritten ==
    ASSUME NEW c \in Seq(Unit), NEW n \in Nat, NEW r \in Record,
           Offset(n + 1) <= Len(c), c[Offset(n) + 1] = <<r, 0>>,
           \A k \in 1 .. PageSize : c[Offset(n) + 1 + k] = PageData(r)[k]
    PROVE  Rec(c, n) = PageNumber(r) \o PageData(r)
<1> DEFINE number == PageNumber(r)
           page == PageData(r)
           rec == number \o page
           end == Offset(n)
<1>1. /\ number \in Seq(Unit) /\ Len(number) = 1 /\ number[1] = <<r, 0>>
      /\ page \in Seq(Unit) /\ Len(page) = PageSize
  BY RecordUnits
<1> HIDE DEF number, page
<1>2. /\ rec \in Seq(Unit) /\ Len(rec) = RecordSize
      /\ \A k \in 1 .. RecordSize : rec[k] = IF k <= 1 THEN number[k] ELSE page[k - 1]
  <2>1. /\ rec \in Seq(Unit) /\ Len(rec) = Len(number) + Len(page)
        /\ \A k \in 1 .. Len(number) + Len(page) :
              rec[k] = IF k <= Len(number) THEN number[k] ELSE page[k - Len(number)]
    BY <1>1, ConcatProperties
  <2>2. Len(number) + Len(page) = RecordSize
    BY <1>1 DEF RecordSize
  <2> QED
    BY <1>1, <2>1, <2>2
<1>3. /\ Rec(c, n) \in Seq(Unit) /\ Len(Rec(c, n)) = RecordSize
      /\ \A k \in 1 .. RecordSize : Rec(c, n)[k] = c[end + k]
  BY RecAt
<1>4. end \in Nat
  BY OffsetStep
<1>5. ASSUME NEW k \in 1 .. RecordSize
      PROVE  Rec(c, n)[k] = rec[k]
  <2>1. CASE k = 1
    <3>1. Rec(c, n)[1] = c[end + 1]
      BY <1>3, <2>1
    <3>2. rec[1] = number[1]
      BY <1>2, <2>1
    <3> QED
      BY <1>1, <2>1, <3>1, <3>2
  <2>2. CASE k # 1
    <3>1. k - 1 \in 1 .. PageSize /\ end + 1 + (k - 1) = end + k /\ ~(k <= 1)
      BY <1>4, <2>2, SubJournalAssumption DEF RecordSize
    <3>2. c[end + 1 + (k - 1)] = page[k - 1]
      BY <3>1 DEF page
    <3> QED
      BY <1>2, <1>3, <3>1, <3>2
  <2> QED
    BY <2>1, <2>2
<1> HIDE DEF rec
<1>6. Rec(c, n) = rec
  BY <1>2, <1>3, <1>5, SeqEqual
<1> QED
  BY <1>6 DEF rec, number, page

\* The page is written: the record counts, or not.
LEMMA SubjournalData ==
    ASSUME Inv, subjournalData
    PROVE  Inv' /\ (Stutters \/ Log!Next)
<1> DEFINE r == call.record
           end == Offset(nSubRec) + 1
           page == PageData(r)
<1>1. /\ call.op = "page" /\ call' = Idle /\ aSavepoint' = aSavepoint
      /\ ii' = ii /\ played' = played
      /\ asserted' = (asserted \/ ~WriteAsserts(sjfd, page, end))
  BY DEF subjournalData
<1>2. PICK w \in sqlite3OsWrite(sjfd, page, end) :
         /\ sjfd' = w.file
         /\ nSubRec' = IF w.ok THEN nSubRec + 1 ELSE nSubRec
         /\ cutShort' = (cutShort \/ CutShort(w))
  BY DEF subjournalData
<1>3. r \in Record
  <2>1. call \in Calls /\ call.op = "page"
    BY <1>1 DEF Inv, TypeOK
  <2>2. call \in [op : {"page"}, record : Record]
    BY <2>1 DEF Calls, Idle
  <2> QED
    BY <2>2
<1>4. page \in Seq(Unit) /\ Len(page) = PageSize
  BY <1>3, RecordUnits
<1>5. /\ sjfd \in Files /\ sjfd.kind \in {"memory", "file"} /\ PointInList(sjfd)
      /\ end <= Len(sjfd.content)
      /\ sjfd.kind = "memory" => end = Len(sjfd.content)
      /\ sjfd.content[end] = <<r, 0>>
  BY <1>1, FileFacts DEF Inv, RecordsHeld
<1>6. end \in Nat /\ Offset(nSubRec) \in Nat /\ end = Offset(nSubRec) + 1
  BY FileFacts
<1>7. Idle.op = "none" /\ Idle \in Calls
  BY DEF Idle, Calls
<1>8. asserted' = FALSE
  BY <1>1, <1>5 DEF WriteAsserts, Inv, AssertionsHold
<1>9. Offset(nSubRec + 1) = end + PageSize
  BY FileFacts, SubJournalAssumption DEF RecordSize
<1> HIDE DEF end, page, r
<1>10. Written(sjfd, page, end, w.file, w.ok) /\ w.ok \in BOOLEAN
  BY <1>2, <1>4, <1>5, <1>6, WriteProperties
<1>11. /\ sjfd' \in Files /\ sjfd'.kind \in {"memory", "file"} /\ PointInList(sjfd')
       /\ end <= Len(sjfd'.content)
       /\ \A k \in 1 .. end : sjfd'.content[k] = sjfd.content[k]
  BY <1>2, <1>10 DEF Written
<1>12. w.ok => /\ end + PageSize <= Len(sjfd'.content)
               /\ \A k \in 1 .. PageSize : sjfd'.content[end + k] = page[k]
               /\ sjfd'.kind = "memory" => Len(sjfd'.content) = end + PageSize
  BY <1>2, <1>4, <1>10 DEF Written
<1>13. nSubRec \in Nat /\ nSubRec' \in Nat /\ nSubRec <= nSubRec'
  BY <1>2, <1>10, FileFacts
<1>14. Len(sjfd'.content) \in Nat /\ sjfd'.content \in Seq(Unit)
  BY <1>11, LenProperties DEF Files
<1>15. Offset(nSubRec') <= Len(sjfd'.content)
  BY <1>2, <1>6, <1>9, <1>10, <1>11, <1>12, <1>14
<1>16. Inv'
  <2>1. TypeOK'
    BY <1>1, <1>2, <1>7, <1>8, <1>11, <1>13 DEF Inv, TypeOK
  <2>2. RecordsHeld'
    <3>1. CASE w.ok
      BY <1>1, <1>2, <1>7, <1>9, <1>11, <1>12, <1>15, <3>1 DEF RecordsHeld
    <3>2. CASE ~w.ok
      <4>1. sjfd'.kind = "memory" /\ ~cutShort' => Len(sjfd'.content) = Offset(nSubRec')
        BY <1>2, <3>2 DEF CutShort
      <4> QED
        BY <1>1, <1>7, <1>11, <1>15, <4>1 DEF RecordsHeld
    <3> QED
      BY <1>10, <3>1, <3>2
  <2>3. MarksHeld'
    <3>1. \A i \in 1 .. Len(aSavepoint) : aSavepoint[i] \in Nat /\ aSavepoint[i] <= nSubRec
      BY ElementOfSeq DEF Inv, TypeOK, MarksHeld
    <3> QED
      BY <1>1, <1>7, <1>13, <3>1 DEF MarksHeld
  <2> QED
    BY <1>8, <1>11, <2>1, <2>2, <2>3 DEF Inv, AssertionsHold
<1>17. /\ \A k \in 1 .. Offset(nSubRec) : sjfd'.content[k] = sjfd.content[k]
       /\ sjfd.content \in Seq(Unit) /\ Offset(nSubRec) <= Len(sjfd.content)
       /\ 0 \in 0 .. nSubRec /\ Offset(nSubRec) <= Len(sjfd'.content)
  BY <1>6, <1>11, <1>13, <1>14, FileFacts
<1>18. CASE ~w.ok
  <2>1. Recs(sjfd'.content, nSubRec, 0) = Recs(sjfd.content, nSubRec, 0)
    BY <1>13, <1>14, <1>17, RecsKept
  <2>2. RecordsFrom(0)' = RecordsFrom(0)
    BY <1>2, <1>18, <2>1, Records
  <2> QED
    BY <1>1, <1>7, <1>16, <2>2 DEF Stutters
<1>19. CASE w.ok
  <2>1. nSubRec' = nSubRec + 1 /\ Offset(nSubRec + 1) <= Len(sjfd'.content)
    BY <1>2, <1>15, <1>19
  <2>2. sjfd'.content[Offset(nSubRec) + 1] = <<r, 0>>
    BY <1>5, <1>6, <1>11
  <2>3. \A k \in 1 .. PageSize : sjfd'.content[Offset(nSubRec) + 1 + k] = PageData(r)[k]
    BY <1>6, <1>12, <1>19 DEF page
  <2>4. Rec(sjfd'.content, nSubRec) = PageNumber(r) \o PageData(r)
    BY <1>3, <1>13, <1>14, <2>1, <2>2, <2>3, RecordWritten
  <2>5. Recs(sjfd'.content, nSubRec + 1, 0)
           = Append(Recs(sjfd.content, nSubRec, 0), Rec(sjfd'.content, nSubRec))
    BY <1>13, <1>14, <1>17, <2>1, RecsAppend
  <2>6. RecordsFrom(0)' = Append(RecordsFrom(0), PageNumber(r) \o PageData(r))
    BY <2>1, <2>4, <2>5, Records
  <2>7. aSavepoint # <<>>
    BY <1>1 DEF Inv, MarksHeld
  <2>8. call.op # "playback" /\ (call.op # "playback")'
    BY <1>1, <1>7
  <2>9. Log!Save(PageNumber(r) \o PageData(r))
    BY <1>1, <2>6, <2>7, <2>8 DEF Log!Save, Log!Resting
  <2> QED
    BY <1>3, <1>16, <2>9 DEF Log!Next
<1> QED
  BY <1>10, <1>18, <1>19


\* and of the savepoints.
LEMMA MarkFacts ==
    ASSUME Inv
    PROVE  /\ aSavepoint \in Seq(Nat) /\ Len(aSavepoint) \in Nat
           /\ \A i \in 1 .. Len(aSavepoint) : aSavepoint[i] \in Nat /\ aSavepoint[i] <= nSubRec
BY ElementOfSeq, LenProperties DEF Inv, TypeOK, MarksHeld

(* Releasing and rolling back to savepoint i keeps the first of them.     *)
LEMMA FirstMarks ==
    ASSUME Inv, NEW i \in 0 .. Len(aSavepoint)
    PROVE  LET kept == SubSeq(aSavepoint, 1, i)
           IN  /\ kept \in Seq(Nat) /\ Len(kept) = i
               /\ \A k \in 1 .. Len(kept) : kept[k] <= nSubRec
<1> DEFINE kept == SubSeq(aSavepoint, 1, i)
<1>1. /\ aSavepoint \in Seq(Nat) /\ Len(aSavepoint) \in Nat
      /\ \A k \in 1 .. Len(aSavepoint) : aSavepoint[k] \in Nat /\ aSavepoint[k] <= nSubRec
  BY MarkFacts
<1>2. \A k \in 1 .. i : aSavepoint[k] \in Nat
  BY <1>1
<1>3. /\ kept \in Seq(Nat) /\ Len(kept) = (IF 1 <= i THEN i - 1 + 1 ELSE 0)
      /\ \A k \in 1 .. i - 1 + 1 : kept[k] = aSavepoint[1 + k - 1]
  BY <1>1, <1>2, SubSeqProperties
<1> HIDE DEF kept
<1>4. Len(kept) = i
  BY <1>3
<1>5. ASSUME NEW k \in 1 .. i
      PROVE  kept[k] <= nSubRec
  <2>1. k \in 1 .. i - 1 + 1 /\ 1 + k - 1 = k /\ k \in 1 .. Len(aSavepoint)
    BY <1>1
  <2> QED
    BY <1>1, <1>3, <2>1
<1> QED
  BY <1>3, <1>4, <1>5 DEF kept

\* A savepoint is opened.
LEMMA Opened ==
    ASSUME Inv, sqlite3PagerOpenSavepoint
    PROVE  Inv' /\ Log!Next
<1>1. /\ call = Idle /\ aSavepoint' = Append(aSavepoint, nSubRec)
      /\ UNCHANGED <<sjfd, nSubRec, call, ii, played, asserted, cutShort>>
  BY DEF sqlite3PagerOpenSavepoint
<1>2. Idle.op = "none"
  BY DEF Idle
<1>3. /\ aSavepoint \in Seq(Nat) /\ nSubRec \in Nat /\ Len(aSavepoint) \in Nat
      /\ \A i \in 1 .. Len(aSavepoint) : aSavepoint[i] <= nSubRec
  BY MarkFacts, FileFacts
<1>4. /\ aSavepoint' \in Seq(Nat) /\ Len(aSavepoint') = Len(aSavepoint) + 1
      /\ \A i \in 1 .. Len(aSavepoint) : aSavepoint'[i] = aSavepoint[i]
      /\ aSavepoint'[Len(aSavepoint) + 1] = nSubRec
  BY <1>1, <1>3, AppendProperties
<1>5. \A i \in 1 .. Len(aSavepoint') : aSavepoint'[i] <= nSubRec
  BY <1>3, <1>4
<1>6. Inv'
  BY <1>1, <1>2, <1>4, <1>5
     DEF Inv, TypeOK, RecordsHeld, MarksHeld, PointInList, AssertionsHold
<1>7. Len(RecordsFrom(0)) = nSubRec
  BY FileFacts, RecsFromFirst, Records
<1>8. RecordsFrom(0)' = RecordsFrom(0)
  BY <1>1, Records
<1>9. Log!Open
  BY <1>1, <1>2, <1>7, <1>8 DEF Log!Open, Log!Resting
<1> QED
  BY <1>6, <1>9 DEF Log!Next

\* A savepoint is released; with the first one go the records.
LEMMA Released ==
    ASSUME Inv, NEW i \in 1 .. Len(aSavepoint), ReleaseSavepoint(i)
    PROVE  Inv' /\ Log!Next
<1>1. /\ call = Idle /\ aSavepoint' = SubSeq(aSavepoint, 1, i - 1)
      /\ cutShort' = (cutShort /\ i # 1)
      /\ UNCHANGED <<call, ii, played, asserted>>
  BY DEF ReleaseSavepoint
<1>2. Idle.op = "none"
  BY DEF Idle
<1>3. i - 1 \in 0 .. Len(aSavepoint) /\ i \in Nat
  BY MarkFacts
<1>4. /\ aSavepoint' \in Seq(Nat) /\ Len(aSavepoint') = i - 1
      /\ \A k \in 1 .. Len(aSavepoint') : aSavepoint'[k] <= nSubRec
  BY <1>1, <1>3, FirstMarks
<1>5. CASE i # 1
  <2>1. sjfd' = sjfd /\ nSubRec' = nSubRec
    BY <1>5 DEF ReleaseSavepoint
  <2>2. cutShort' = cutShort
    BY <1>1, <1>5 DEF Inv, TypeOK
  <2>3. Inv'
    BY <1>1, <1>2, <1>4, <2>1, <2>2
       DEF Inv, TypeOK, RecordsHeld, MarksHeld, PointInList, AssertionsHold
  <2>4. RecordsFrom(0)' = RecordsFrom(0)
    BY <2>1, Records
  <2>5. Log!Release(i)
    BY <1>1, <1>2, <1>5, <2>4 DEF Log!Release, Log!Resting
  <2> QED
    BY <2>3, <2>5 DEF Log!Next
<1>6. CASE i = 1
  <2>1. /\ nSubRec' = 0
        /\ sjfd' = IF sjfd.kind = "memory" THEN memjrnlTruncate(sjfd) ELSE sjfd
    BY <1>6 DEF ReleaseSavepoint
  <2>2. /\ sjfd' \in Files /\ PointInList(sjfd')
    <3>1. CASE sjfd.kind = "memory"
      <4>1. sjfd' = [sjfd EXCEPT !.content = <<>>, !.readpoint = NoPoint]
        BY <2>1, <3>1 DEF memjrnlTruncate
      <4>2. <<>> \in Seq(Unit) /\ NoPoint \in Points /\ NoPoint.iOffset = 0
        BY DEF NoPoint, Points
      <4>3. sjfd' \in Files /\ sjfd'.readpoint = NoPoint
        BY <4>1, <4>2, FileFacts DEF Files
      <4> QED
        BY <4>2, <4>3 DEF PointInList
    <3>2. CASE sjfd.kind # "memory"
      BY <2>1, <3>2 DEF Inv, TypeOK
    <3> QED
      BY <3>1, <3>2
  <2>3. /\ Offset(nSubRec') <= Len(sjfd'.content)
        /\ sjfd'.kind = "memory" => Len(sjfd'.content) = Offset(nSubRec')
    <3>1. Offset(nSubRec') <= Len(sjfd'.content)
      BY <2>1, <2>2, OffsetZero, LenProperties DEF Files
    <3>2. CASE sjfd.kind = "memory"
      <4>1. Len(sjfd'.content) = 0
        BY <2>1, <3>2, FileFacts DEF memjrnlTruncate, Files
      <4> QED
        BY <2>1, <3>1, <4>1, OffsetZero
    <3>3. CASE sjfd.kind # "memory"
      BY <2>1, <3>1, <3>3
    <3> QED
      BY <3>2, <3>3
  <2>4. aSavepoint' = <<>>
    BY <1>4, <1>6, EmptySeq
  <2>5. TypeOK'
    BY <1>1, <1>4, <2>1, <2>2 DEF Inv, TypeOK
  <2>6. RecordsHeld'
    BY <1>1, <1>2, <2>1, <2>3 DEF RecordsHeld
  <2>7. MarksHeld'
    BY <1>1, <1>2, <2>4 DEF MarksHeld
  <2>8. Inv'
    BY <1>1, <2>2, <2>5, <2>6, <2>7 DEF Inv, AssertionsHold
  <2>9. RecordsFrom(0)' = <<>>
    BY <2>1, Records, RecsNone
  <2>10. Log!Release(i)
    BY <1>1, <1>2, <1>6, <2>9 DEF Log!Release, Log!Resting
  <2> QED
    BY <2>8, <2>10 DEF Log!Next
<1> QED
  BY <1>5, <1>6

\* The rollback to a savepoint begins.
LEMMA RolledBack ==
    ASSUME Inv, NEW i \in 1 .. Len(aSavepoint), RollbackSavepoint(i)
    PROVE  Inv' /\ Log!Next
<1>1. /\ call = Idle /\ aSavepoint' = SubSeq(aSavepoint, 1, i)
      /\ ii' = aSavepoint[i] /\ call' = [op |-> "playback"] /\ played' = <<>>
      /\ UNCHANGED <<sjfd, nSubRec, asserted, cutShort>>
  BY DEF RollbackSavepoint
<1>2. Idle.op = "none" /\ call'.op = "playback" /\ call' \in Calls
  BY <1>1 DEF Idle, Calls
<1>3. i \in 0 .. Len(aSavepoint) /\ i \in Nat
  BY MarkFacts
<1>4. /\ aSavepoint' \in Seq(Nat) /\ Len(aSavepoint') = i
      /\ \A k \in 1 .. Len(aSavepoint') : aSavepoint'[k] <= nSubRec
  BY <1>1, <1>3, FirstMarks
<1>5. ii' \in Nat /\ ii' <= nSubRec /\ nSubRec \in Nat
  BY <1>1, MarkFacts, FileFacts
<1>6. Inv'
  BY <1>1, <1>2, <1>4, <1>5
     DEF Inv, TypeOK, RecordsHeld, MarksHeld, PointInList, AssertionsHold
<1>7. RecordsFrom(0)' = RecordsFrom(0)
  BY <1>1, Records
<1>8. RecordsFrom(ii)' = SubSeq(RecordsFrom(0), ii' + 1, Len(RecordsFrom(0)))
  <2>1. ii' \in 0 .. nSubRec
    BY <1>5
  <2>2. SubSeq(Recs(sjfd.content, nSubRec, 0), ii' + 1, Len(Recs(sjfd.content, nSubRec, 0)))
           = Recs(sjfd.content, nSubRec, ii')
    BY <2>1, FileFacts, RecsSuffix
  <2> QED
    BY <1>1, <2>2, Records
<1>9. Log!Rollback(i)
  BY <1>1, <1>2, <1>7, <1>8 DEF Log!Rollback, Log!Resting
<1> QED
  BY <1>6, <1>9 DEF Log!Next


\* The whole transaction is rolled back.
LEMMA RolledBackAll ==
    ASSUME Inv, RollbackAll
    PROVE  Inv' /\ Log!Next
<1>1. /\ call = Idle /\ aSavepoint' = <<>>
      /\ UNCHANGED <<sjfd, nSubRec, call, ii, played, asserted, cutShort>>
  BY DEF RollbackAll
<1>2. Idle.op = "none" /\ <<>> \in Seq(Nat) /\ Len(<<>>) = 0
  BY DEF Idle
<1>3. Inv'
  BY <1>1, <1>2 DEF Inv, TypeOK, RecordsHeld, MarksHeld, PointInList, AssertionsHold
<1>4. RecordsFrom(0)' = RecordsFrom(0)
  BY <1>1, Records
<1>5. Log!Forget
  BY <1>1, <1>2, <1>4 DEF Log!Forget, Log!Resting
<1> QED
  BY <1>3, <1>5 DEF Log!Next

\* The transaction ends.
LEMMA AllReleased ==
    ASSUME Inv, releaseAllSavepoints
    PROVE  Inv' /\ Log!Next
<1>1. /\ call = Idle /\ aSavepoint' = <<>> /\ nSubRec' = 0
      /\ sjfd' = Closed \/ (sjfd' = sjfd /\ sjfd.kind = "file")
      /\ cutShort' = FALSE
      /\ UNCHANGED <<call, ii, played, asserted>>
  BY DEF releaseAllSavepoints
<1>2. Idle.op = "none" /\ <<>> \in Seq(Nat) /\ <<>> \in Seq(Unit) /\ Len(<<>>) = 0
  BY DEF Idle
<1>3. sjfd' \in Files /\ PointInList(sjfd')
  <2>1. CASE sjfd' = Closed
    <3>1. NoPoint \in Points /\ NoPoint.iOffset = 0
      BY DEF NoPoint, Points
    <3>2. Closed \in Files /\ Closed.readpoint = NoPoint
      BY <1>2, <3>1 DEF Closed, NewFile, Files
    <3> QED
      BY <2>1, <3>1, <3>2 DEF PointInList
  <2>2. CASE sjfd' = sjfd
    BY <2>2 DEF Inv, TypeOK
  <2> QED
    BY <1>1, <2>1, <2>2
<1>4. Offset(nSubRec') <= Len(sjfd'.content)
  BY <1>1, <1>3, OffsetZero, LenProperties DEF Files
<1>5. TypeOK'
  BY <1>1, <1>2, <1>3 DEF Inv, TypeOK
<1>6. RecordsHeld'
  <2>1. sjfd'.kind # "memory"
    BY <1>1 DEF Closed, NewFile
  <2> QED
    BY <1>1, <1>2, <1>4, <2>1 DEF RecordsHeld
<1>7. MarksHeld'
  BY <1>1, <1>2 DEF MarksHeld
<1>8. Inv'
  BY <1>1, <1>3, <1>5, <1>6, <1>7 DEF Inv, AssertionsHold
<1>9. RecordsFrom(0)' = <<>>
  BY <1>1, Records, RecsNone
<1>10. Log!Forget
  BY <1>1, <1>2, <1>9 DEF Log!Forget, Log!Resting
<1> QED
  BY <1>8, <1>10 DEF Log!Next

\* A record is read back, with the cursor of memjrnlRead.
LEMMA Played ==
    ASSUME Inv, PlaybackRecord
    PROVE  Inv' /\ Log!Next
<1> DEFINE c == sjfd.content
           a == Offset(ii)
           number == sqlite3OsRead(sjfd, 1, a)
           page == sqlite3OsRead(number.file, PageSize, a + 1)
<1>1. /\ call.op = "playback" /\ ii < nSubRec
      /\ sjfd' = page.file /\ played' = Append(played, number.data \o page.data)
      /\ ii' = ii + 1
      /\ asserted' = (asserted \/ (/\ sjfd.kind = "memory"
                                   /\ Offset(ii + 1) > Len(c)))
      /\ UNCHANGED <<nSubRec, aSavepoint, call, cutShort>>
  BY DEF PlaybackRecord
<1>2. ii \in Nat /\ nSubRec \in Nat /\ ii \in 0 .. nSubRec - 1 /\ ii + 1 \in Nat
  BY <1>1 DEF Inv, TypeOK
<1>3. /\ a \in Nat /\ Offset(ii + 1) = a + 1 + PageSize
      /\ Offset(ii + 1) <= Offset(nSubRec) /\ Offset(nSubRec) \in Nat
  <2>1. a \in Nat /\ Offset(ii + 1) = a + RecordSize /\ RecordSize \in Nat
    BY <1>2, OffsetStep
  <2>2. Offset(ii + 1) <= Offset(nSubRec)
    BY <1>1, <1>2, OffsetMonotone
  <2> QED
    BY <2>1, <2>2, FileFacts, SubJournalAssumption DEF RecordSize
<1>4. /\ c \in Seq(Unit) /\ Len(c) \in Nat /\ Offset(nSubRec) <= Len(c)
      /\ a + 1 + PageSize <= Len(c) /\ a + 1 <= Len(c) /\ PageSize \in Nat
  BY <1>3, FileFacts, SubJournalAssumption
<1>5. asserted' = FALSE
  <2>1. ~(Offset(ii + 1) > Len(c))
    BY <1>3, <1>4
  <2> QED
    BY <1>1, <2>1 DEF Inv, AssertionsHold
<1>6. sjfd \in Files /\ sjfd.kind \in {"memory", "file"} /\ PointInList(sjfd)
  BY <1>1, <1>2, FileFacts DEF Inv, RecordsHeld
<1> HIDE DEF a
<1>7. /\ number.data = SubSeq(c, a + 1, a + 1)
      /\ number.file \in Files /\ number.file.kind = sjfd.kind
      /\ number.file.content = c /\ PointInList(number.file)
  <2>1. 1 \in Nat /\ a \in Nat /\ a + 1 <= Len(sjfd.content)
    BY <1>3, <1>4
  <2> QED
    BY ONLY <1>6, <2>1, ReadProperties
<1>8. number.file.kind \in {"memory", "file"} /\ (a + 1) + PageSize <= Len(number.file.content)
  BY <1>3, <1>4, <1>6, <1>7
<1> HIDE DEF number
<1>9. /\ page.data = SubSeq(number.file.content, (a + 1) + 1, (a + 1) + PageSize)
      /\ page.file \in Files /\ page.file.kind = number.file.kind
      /\ page.file.content = number.file.content /\ PointInList(page.file)
  <2>1. PageSize \in Nat /\ a + 1 \in Nat
    BY <1>3, <1>4
  <2> QED
    BY ONLY <1>7, <1>8, <2>1, ReadProperties
<1> HIDE DEF page
<1>10. /\ sjfd' \in Files /\ sjfd'.kind = sjfd.kind /\ sjfd'.content = c
       /\ PointInList(sjfd')
  BY <1>1, <1>7, <1>9
<1>11. Inv'
  <2>1. TypeOK'
    BY <1>1, <1>2, <1>5, <1>10 DEF Inv, TypeOK
  <2>2. RecordsHeld'
    BY <1>1, <1>10 DEF Inv, RecordsHeld
  <2>3. MarksHeld'
    BY <1>1, <1>2 DEF Inv, MarksHeld
  <2> QED
    BY <1>5, <1>10, <2>1, <2>2, <2>3 DEF Inv, AssertionsHold
<1>12. number.data \o page.data = Rec(c, ii)
  <2>1. /\ a + 1 \in 1 .. Len(c) + 1 /\ a + 1 \in (a + 1) - 1 .. Len(c)
        /\ (a + 1) + PageSize \in a + 1 .. Len(c)
    BY <1>3, <1>4
  <2>2. SubSeq(c, a + 1, a + 1) \o SubSeq(c, (a + 1) + 1, (a + 1) + PageSize)
           = SubSeq(c, a + 1, (a + 1) + PageSize)
    BY ONLY <1>4, <2>1, ConcatAdjacentSubSeq
  <2>3. Offset(ii + 1) = (a + 1) + PageSize
    BY <1>3
  <2> QED
    BY <1>7, <1>9, <2>2, <2>3 DEF Rec, a
<1>13. /\ Recs(c, nSubRec, ii) # <<>>
       /\ Head(Recs(c, nSubRec, ii)) = Rec(c, ii)
       /\ Tail(Recs(c, nSubRec, ii)) = Recs(c, nSubRec, ii + 1)
  BY <1>2, <1>4, RecsTail
<1>14. /\ RecordsFrom(ii) = Recs(c, nSubRec, ii)
       /\ RecordsFrom(ii)' = Recs(c, nSubRec, ii + 1)
       /\ RecordsFrom(0)' = RecordsFrom(0)
  BY <1>1, <1>10, Records
<1>15. Log!Give
  BY <1>1, <1>12, <1>13, <1>14 DEF Log!Give, Log!Resting
<1> QED
  BY <1>11, <1>15 DEF Log!Next

\* The rollback ends.
LEMMA PlayedToTheEnd ==
    ASSUME Inv, PlaybackEnds
    PROVE  Inv' /\ Log!Next
<1>1. /\ call.op = "playback" /\ call' = Idle
      /\ UNCHANGED <<sjfd, nSubRec, aSavepoint, ii, played, asserted, cutShort>>
  BY DEF PlaybackEnds
<1>2. Idle.op = "none" /\ Idle \in Calls
  BY DEF Idle, Calls
<1>3. Inv'
  BY <1>1, <1>2 DEF Inv, TypeOK, RecordsHeld, MarksHeld, PointInList, AssertionsHold
<1>4. RecordsFrom(0)' = RecordsFrom(0)
  BY <1>1, Records
<1>5. Log!Break
  BY <1>1, <1>2, <1>4 DEF Log!Break
<1> QED
  BY <1>3, <1>5 DEF Log!Next

--------------------------------------------------------------------------
(* The theorems.                                                          *)
\* Every step keeps the invariant and is a step of the log.
LEMMA Step ==
    ASSUME Inv, ~RetryFailed, [Next]_vars
    PROVE  Inv' /\ [Log!Next]_Log!logVars
<1>1. CASE sqlite3PagerOpenSavepoint
  BY <1>1, Opened
<1>2. ASSUME NEW r \in Record, subjournalPage(r)
      PROVE  Inv' /\ [Log!Next]_Log!logVars
  BY <1>2, SubjournalPage, Stutter
<1>3. CASE subjournalData
  BY <1>3, SubjournalData, Stutter
<1>4. ASSUME NEW i \in 1 .. Len(aSavepoint), ReleaseSavepoint(i)
      PROVE  Inv' /\ [Log!Next]_Log!logVars
  BY <1>4, Released
<1>5. ASSUME NEW i \in 1 .. Len(aSavepoint), RollbackSavepoint(i)
      PROVE  Inv' /\ [Log!Next]_Log!logVars
  BY <1>5, RolledBack
<1>6. CASE RollbackAll
  BY <1>6, RolledBackAll
<1>7. CASE PlaybackRecord
  BY <1>7, Played
<1>8. CASE PlaybackEnds
  BY <1>8, PlayedToTheEnd
<1>9. CASE releaseAllSavepoints
  BY <1>9, AllReleased
<1>10. CASE UNCHANGED vars
  <2>1. Inv'
    BY <1>10 DEF vars, Inv, TypeOK, RecordsHeld, MarksHeld, PointInList, AssertionsHold
  <2>2. /\ RecordsFrom(0)' = RecordsFrom(0) /\ RecordsFrom(ii)' = RecordsFrom(ii)
        /\ aSavepoint' = aSavepoint /\ call' = call /\ played' = played
    BY <1>10, Records DEF vars
  <2> QED
    BY <2>1, <2>2 DEF Log!logVars
<1> QED
  BY <1>1, <1>2, <1>3, <1>4, <1>5, <1>6, <1>7, <1>8, <1>9, <1>10 DEF Next

\* The log is empty at first.
LEMMA InitialLog == Init => Log!Init
<1> SUFFICES ASSUME Init PROVE Log!Init
  OBVIOUS
<1>1. nSubRec = 0 /\ aSavepoint = <<>> /\ call.op = "none" /\ played = <<>>
  BY DEF Init, Idle
<1>2. RecordsFrom(0) = <<>>
  BY <1>1, Records, RecsNone
<1> QED
  BY <1>1, <1>2 DEF Log!Init

(* As long as no record is written after one that was cut short, the      *)
(* sub-journal is a log: whatever is cut short, spilled, truncated or     *)
(* written again, pagerPlaybackSavepoint reads back the records that      *)
(* subjournalPage wrote since the savepoint was opened, in their order.   *)
THEOREM Refinement == ~RetryFailed /\ Spec => ImplementsLog
<1> SUFFICES ASSUME ~RetryFailed PROVE Spec => ImplementsLog
  OBVIOUS
<1>1. Init => Inv /\ Log!Init
  BY InitInv, InitialLog
<1>2. Inv /\ [Next]_vars => Inv' /\ [Log!Next]_Log!logVars
  BY Step
<1> QED
  BY <1>1, <1>2, PTL DEF Spec, ImplementsLog, Log!Spec

\* The invariant holds in every state.
LEMMA Invariance == ~RetryFailed /\ Spec => []Inv
<1> SUFFICES ASSUME ~RetryFailed PROVE Spec => []Inv
  OBVIOUS
<1>1. Inv /\ [Next]_vars => Inv'
  BY Step
<1> QED
  BY <1>1, InitInv, PTL DEF Spec

(* With the same proviso, no assertion of memjournal.c fails: memory is   *)
(* written at its end only, and not read beyond it.                       *)
THEOREM Assertions == ~RetryFailed /\ Spec => []AssertionsHold
<1>1. Inv => AssertionsHold
  BY DEF Inv
<1> QED
  BY <1>1, Invariance, PTL

(* And the cached chunk of memjrnlRead is the one that holds the offset   *)
(* where the last read ended.                                             *)
THEOREM Readpoint == ~RetryFailed /\ Spec => []ReadpointInList
<1>1. Inv => ReadpointInList
  BY DEF Inv, PointInList, ReadpointInList
<1> QED
  BY <1>1, Invariance, PTL
=============================================================================
