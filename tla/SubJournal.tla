--------------------------- MODULE SubJournal ---------------------------
(* The sub-journal of the pager (src/tsrc/pager.c): subjournalPage writes *)
(* a record for a page that an open savepoint may have to restore, and    *)
(* the rollback of a savepoint reads the records back.  The file is a     *)
(* MemJournal (src/tsrc/memjournal.c): a list of chunks that is moved to  *)
(* a temporary file when it grows beyond nSpill, or the temporary file    *)
(* from the beginning.  Each action is at most one write, or the reads of *)
(* one record.                                                            *)
(*                                                                        *)
(* The unit of offsets and sizes is the page number of a record, 4 bytes; *)
(* a page has PageSize of them.  The chunks are one sequence, cut at the  *)
(* multiples of nChunkSize.                                               *)
EXTENDS Integers, Sequences

CONSTANTS
    Record,         \* the records: a page number and the content of the page
    PageSize,
    ChunkSize,      \* nChunkSize when nothing is ever spilled
    Spills,         \* the values of nSpill: -1, 0 or more
    RetryFailed,    \* does the pager write a record after one was cut short?
    MaxSavepoint,   \* a bound
    MaxRecord       \* a bound

ASSUME SubJournalAssumption ==
    /\ PageSize \in Nat
    /\ ChunkSize \in Nat \ {0}
    /\ Spills \subseteq Int
    /\ RetryFailed \in BOOLEAN
    /\ MaxSavepoint \in Nat
    /\ MaxRecord \in Nat

VARIABLES
    sjfd,           \* the file
    nSubRec,        \* the records that count
    aSavepoint,     \* by savepoint: iSubRec
    call,           \* the function of the pager that runs
    ii,             \* pagerPlaybackSavepoint: the next record
    played,         \* the records that the last rollback has read
    asserted,       \* has an assertion of memjournal.c failed?
    cutShort        \* history: was a record written to memory in part only,
                    \* and the file not truncated or closed since?

vars == <<sjfd, nSubRec, aSavepoint, call, ii, played, asserted, cutShort>>

RecordSize == 1 + PageSize

Offset(i) == i * RecordSize

\* The units of a record.
PageNumber(r) == << <<r, 0>> >>
PageData(r) == [k \in 1 .. PageSize |-> <<r, k>>]

NoPoint == [iOffset |-> 0, chunk |-> 0]

\* kind: "closed", "memory" (a MemJournal) or "file".
\* content: the units up to the end of the file.
\* readpoint: where the last read of the memory ended, and the chunk there.
NewFile(kind, nSpill) ==
    [kind |-> kind, nSpill |-> nSpill, content |-> <<>>, readpoint |-> NoPoint]

Closed == NewFile("closed", 0)

\* No function of the pager runs.
Idle == [op |-> "none"]

nChunkSize(f) == IF f.nSpill > 0 THEN f.nSpill ELSE ChunkSize

--------------------------------------------------------------------------
(* The methods of the file.  A write yields a set of results: the file    *)
(* and whether the write succeeded.                                       *)

Overlay(content, data, iOfst) ==
    [k \in 1 .. (IF Len(content) > iOfst + Len(data) THEN Len(content)
                                                     ELSE iOfst + Len(data)) |->
        IF k \in iOfst + 1 .. iOfst + Len(data) THEN data[k - iOfst] ELSE content[k]]

\* xWrite of the temporary file, which may write a part and fail.
FileWrite(f, data, iOfst) ==
    {[file |-> [f EXCEPT !.content = Overlay(@, SubSeq(data, 1, n), iOfst)],
      ok |-> n = Len(data)] : n \in 0 .. Len(data)}

\* The file is not created or cannot be filled: *p is what it was.
memjrnlCreateFile(f) == [NewFile("file", 0) EXCEPT !.content = f.content]

\* A chunk cannot be allocated: what fits in the chunks before is written.
Allocated(f, data) ==
    {n \in 0 .. Len(data) :
        n < Len(data) => (Len(f.content) + n) % nChunkSize(f) = 0}

Spilled(f, data, iOfst) == f.nSpill > 0 /\ iOfst + Len(data) > f.nSpill

memjrnlWrite(f, data, iOfst) ==
    IF Spilled(f, data, iOfst)
    THEN {[file |-> f, ok |-> FALSE]} \cup FileWrite(memjrnlCreateFile(f), data, iOfst)
    ELSE {[file |-> [f EXCEPT !.content = @ \o SubSeq(data, 1, n)],
           ok |-> n = Len(data)] : n \in Allocated(f, data)}

\* The assertions of memjrnlWrite: only the end is written.
WriteAsserts(f, data, iOfst) ==
    f.kind = "memory" /\ ~Spilled(f, data, iOfst) => iOfst = Len(f.content)

sqlite3OsWrite(f, data, iOfst) ==
    IF f.kind = "memory" THEN memjrnlWrite(f, data, iOfst) ELSE FileWrite(f, data, iOfst)

\* The chunk that a read begins in: that of the read before, if it ended
\* here, or it is counted from the first.
ReadChunk(f, iOfst) ==
    IF f.readpoint.iOffset # iOfst \/ iOfst = 0
    THEN iOfst \div nChunkSize(f)
    ELSE f.readpoint.chunk

\* A read that ends where a chunk ends leaves the cursor in that chunk.
MutantRead(f, iAmt, iOfst) ==
    LET chunk == ReadChunk(f, iOfst)
        within == iOfst % nChunkSize(f)
        first == chunk * nChunkSize(f) + within
        last == chunk + ((within + iAmt - 1) \div nChunkSize(f))
    IN  [data |-> SubSeq(f.content, first + 1, first + iAmt),
         file |-> [f EXCEPT !.readpoint = [iOffset |-> iOfst + iAmt, chunk |-> last]]]

memjrnlRead(f, iAmt, iOfst) ==
    LET chunk == ReadChunk(f, iOfst)
        within == iOfst % nChunkSize(f)
        first == chunk * nChunkSize(f) + within
        last == chunk + (within + iAmt) \div nChunkSize(f)
    IN  [data |-> SubSeq(f.content, first + 1, first + iAmt),
         file |-> [f EXCEPT !.readpoint =
                      IF last * nChunkSize(f) < Len(f.content)
                      THEN [iOffset |-> iOfst + iAmt, chunk |-> last]
                      ELSE NoPoint]]

sqlite3OsRead(f, iAmt, iOfst) ==
    IF f.kind = "memory"
    THEN memjrnlRead(f, iAmt, iOfst)
    ELSE [data |-> SubSeq(f.content, iOfst + 1, iOfst + iAmt), file |-> f]

\* The cursor is left where it was.
MutantTruncate(f) == [f EXCEPT !.content = <<>>]

\* sqlite3OsTruncate(sjfd, 0) of a file in memory.
memjrnlTruncate(f) == [f EXCEPT !.content = <<>>, !.readpoint = NoPoint]

--------------------------------------------------------------------------
Init ==
    /\ sjfd = Closed
    /\ nSubRec = 0
    /\ aSavepoint = <<>>
    /\ call = Idle
    /\ ii = 0
    /\ played = <<>>
    /\ asserted = FALSE
    /\ cutShort = FALSE

sqlite3PagerOpenSavepoint ==
    /\ call = Idle
    /\ Len(aSavepoint) < MaxSavepoint
    /\ aSavepoint' = Append(aSavepoint, nSubRec)
    /\ UNCHANGED <<sjfd, nSubRec, call, ii, played, asserted, cutShort>>

\* The files that openSubJournal may leave open: with nSpill = 0 one that
\* was just created.
openSubJournal ==
    IF sjfd.kind # "closed"
    THEN {sjfd}
    ELSE {NewFile(IF n = 0 THEN "file" ELSE "memory", n) : n \in Spills}

\* A write with the result w leaves a part of a record behind the others.
CutShort(w) ==
    ~w.ok /\ w.file.kind = "memory" /\ Len(w.file.content) # Offset(nSubRec)

\* subjournalPage up to write32bits.
subjournalPage(r) ==
    /\ call = Idle
    /\ aSavepoint # <<>>
    /\ nSubRec < MaxRecord
    /\ RetryFailed \/ ~cutShort
    /\ \/ \* the temporary file is not created
          /\ sjfd.kind = "closed" /\ 0 \in Spills
          /\ UNCHANGED <<sjfd, call, asserted, cutShort>>
       \/ \E f \in openSubJournal :
             \E w \in sqlite3OsWrite(f, PageNumber(r), Offset(nSubRec)) :
                /\ sjfd' = w.file
                /\ call' = IF w.ok THEN [op |-> "page", record |-> r] ELSE Idle
                /\ asserted' = (asserted \/ ~WriteAsserts(f, PageNumber(r), Offset(nSubRec)))
                /\ cutShort' = (cutShort \/ CutShort(w))
    /\ UNCHANGED <<nSubRec, aSavepoint, ii, played>>

\* The rest of it: the content of the page.
subjournalData ==
    /\ call.op = "page"
    /\ \E w \in sqlite3OsWrite(sjfd, PageData(call.record), Offset(nSubRec) + 1) :
          /\ sjfd' = w.file
          /\ nSubRec' = IF w.ok THEN nSubRec + 1 ELSE nSubRec
          /\ cutShort' = (cutShort \/ CutShort(w))
    /\ asserted' = (asserted
                    \/ ~WriteAsserts(sjfd, PageData(call.record), Offset(nSubRec) + 1))
    /\ call' = Idle
    /\ UNCHANGED <<aSavepoint, ii, played>>

\* The file in memory is not truncated.
MutantRelease(i) ==
    /\ call = Idle
    /\ aSavepoint' = SubSeq(aSavepoint, 1, i - 1)
    /\ nSubRec' = IF i = 1 THEN 0 ELSE nSubRec
    /\ cutShort' = (cutShort /\ i # 1)
    /\ UNCHANGED <<sjfd, call, ii, played, asserted>>

\* sqlite3PagerSavepoint with SAVEPOINT_RELEASE.
ReleaseSavepoint(i) ==
    /\ call = Idle
    /\ aSavepoint' = SubSeq(aSavepoint, 1, i - 1)
    /\ IF i = 1
       THEN /\ sjfd' = IF sjfd.kind = "memory" THEN memjrnlTruncate(sjfd) ELSE sjfd
            /\ nSubRec' = 0
       ELSE UNCHANGED <<sjfd, nSubRec>>
    /\ cutShort' = (cutShort /\ i # 1)
    /\ UNCHANGED <<call, ii, played, asserted>>

\* With SAVEPOINT_ROLLBACK: pagerPlaybackSavepoint comes to the sub-journal.
RollbackSavepoint(i) ==
    /\ call = Idle
    /\ aSavepoint' = SubSeq(aSavepoint, 1, i)
    /\ ii' = aSavepoint[i]
    /\ call' = [op |-> "playback"]
    /\ played' = <<>>
    /\ UNCHANGED <<sjfd, nSubRec, asserted, cutShort>>

\* With SAVEPOINT_ROLLBACK of the whole transaction, which goes on: no
\* record is read and the sub-journal is left alone.
RollbackAll ==
    /\ call = Idle
    /\ aSavepoint' = <<>>
    /\ UNCHANGED <<sjfd, nSubRec, call, ii, played, asserted, cutShort>>

\* pager_playback_one_page reads the page number and then the page.
PlaybackRecord ==
    /\ call.op = "playback"
    /\ ii < nSubRec
    /\ LET number == sqlite3OsRead(sjfd, 1, Offset(ii))
           page == sqlite3OsRead(number.file, PageSize, Offset(ii) + 1)
       IN  /\ sjfd' = page.file
           /\ played' = Append(played, number.data \o page.data)
    /\ ii' = ii + 1
    /\ asserted' = (asserted \/ (/\ sjfd.kind = "memory"
                                 /\ Offset(ii + 1) > Len(sjfd.content)))
    /\ UNCHANGED <<nSubRec, aSavepoint, call, cutShort>>

\* All records are read; or the main journal or a temporary file fails.
PlaybackEnds ==
    /\ call.op = "playback"
    /\ call' = Idle
    /\ UNCHANGED <<sjfd, nSubRec, aSavepoint, ii, played, asserted, cutShort>>

\* The transaction ends.  A temporary file stays open in exclusive mode.
releaseAllSavepoints ==
    /\ call = Idle
    /\ sjfd' \in {Closed} \cup (IF sjfd.kind = "file" THEN {sjfd} ELSE {})
    /\ nSubRec' = 0
    /\ aSavepoint' = <<>>
    /\ cutShort' = FALSE
    /\ UNCHANGED <<call, ii, played, asserted>>

Next ==
    \/ sqlite3PagerOpenSavepoint
    \/ \E r \in Record : subjournalPage(r)
    \/ subjournalData
    \/ \E i \in 1 .. Len(aSavepoint) : ReleaseSavepoint(i) \/ RollbackSavepoint(i)
    \/ RollbackAll
    \/ PlaybackRecord
    \/ PlaybackEnds
    \/ releaseAllSavepoints

Spec == Init /\ [][Next]_vars

--------------------------------------------------------------------------
(* Properties.                                                            *)

\* The units of record i, wherever the file keeps them, and the records
\* from i on.
Units(i) == SubSeq(sjfd.content, Offset(i) + 1, Offset(i + 1))
RecordsFrom(i) == [k \in 1 .. nSubRec - i |-> Units(i + k - 1)]

Log == INSTANCE RecordLog WITH
    Record <- {PageNumber(r) \o PageData(r) : r \in Record},
    log <- RecordsFrom(0),
    mark <- aSavepoint,
    due <- IF call.op = "playback" THEN RecordsFrom(ii) ELSE <<>>,
    given <- played

(* The sub-journal is a log: in memory, while it is spilled and in the    *)
(* file, after failed writes, allocations and spills, and when savepoints *)
(* are released and opened again, pagerPlaybackSavepoint reads back what  *)
(* subjournalPage wrote since the savepoint was opened.                   *)
ImplementsLog == Log!Spec

(* The assertions of memjournal.c (lines 106, 218 and 226) hold: a file   *)
(* in memory is written at its end only, which nSubRec has to stand for,  *)
(* and not read beyond.                                                   *)
AssertionsHold == ~asserted

(* The cache of memjrnlRead points into the list: to the chunk that holds *)
(* the offset where the last read ended.                                  *)
ReadpointInList ==
    sjfd.readpoint.iOffset # 0 =>
        /\ sjfd.readpoint.chunk = sjfd.readpoint.iOffset \div nChunkSize(sjfd)
        /\ sjfd.readpoint.chunk * nChunkSize(sjfd) < Len(sjfd.content)
=============================================================================
