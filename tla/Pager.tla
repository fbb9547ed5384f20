------------------------------- MODULE Pager -------------------------------
(***************************************************************************)
(* The rollback-journal pager of tsrc/pager.c: one connection, locking     *)
(* mode NORMAL, a database and a journal that the VFS keeps as two files.  *)
(* The content of a page is the number of the transaction that wrote it.   *)
(* A slot of the journal is a header or a page record; offsets count       *)
(* slots, so the padding that aligns a header to a sector is left out.     *)
(*                                                                         *)
(* db and jrnl are the files as the program reads them, dbDur and jrnlDur  *)
(* what has surely reached the medium.  A power loss keeps, for each page  *)
(* or slot in which they differ, the old content, the new one or garbage.  *)
(* Writes that no sync separates are one step (a power loss between them   *)
(* is a power loss after them that loses some); a sync, and what follows   *)
(* it, is a step of its own.  Every write, truncation, deletion and sync   *)
(* may also fail.                                                          *)
(***************************************************************************)
EXTENDS Integers, Sequences, FiniteSets

CONSTANTS
    Modes,          \* journal modes the caller chooses from
    Levels,         \* levels of PRAGMA synchronous the caller chooses from
    AlignedEnd,     \* the records of a segment end at the end of a sector
    AutoVacuum,     \* a commit may make the database smaller: "never",
                    \* "durable" (when its finalization is synced) or "always"
    FinalizeFails,  \* journal modes whose finalization may meet an I/O error
    InitSizes,      \* the pages the database may have at the start
    MaxPage,        \* bound on the pages of the database (max_page_count)
    MaxTxn,         \* bound on the write transactions
    MaxSavepoint,   \* bound on the savepoints that are open at a time
    MaxVersion,     \* bound on the contents that are written to pages
    MaxFault,       \* bound on the I/O calls that fail
    MaxCrash        \* bound on the power losses

ASSUME PagerAssumption ==
    /\ Modes \subseteq {"DELETE", "TRUNCATE", "PERSIST"}
    /\ Levels \subseteq {"NORMAL", "FULL", "EXTRA"}
    /\ AlignedEnd \in BOOLEAN
    /\ FinalizeFails \subseteq Modes
    /\ AutoVacuum \in {"never", "durable", "always"}
    /\ MaxPage \in Nat \ {0}
    /\ InitSizes \subseteq 0 .. MaxPage
    /\ {MaxTxn, MaxSavepoint, MaxVersion, MaxFault, MaxCrash} \subseteq Nat

VARIABLES
    journalMode, level,
    eState,         \* Pager.eState
    call,           \* the call in progress: its name, its page, where it is
    dbSize, dbOrigSize, dbFileSize,
    cache,          \* contents of the page cache
    dirty,          \* pages with PGHDR_DIRTY
    needSync,       \* pages with PGHDR_NEED_SYNC
    inJournal,      \* Pager.pInJournal
    jfdOpen,        \* isOpen(Pager.jfd)
    journalOff, journalHdr, nRec, cksumInit,
    left,           \* records of the segment that pager_playback still reads
    savepoint,      \* Pager.aSavepoint
    subJournal,     \* records in Pager.sjfd
    version,        \* what the caller writes to a page now
    db, dbDur,      \* the database file
    jrnl, jrnlDur,  \* the journal file
    jrnlNew,        \* jrnl was created since the directory was last synced
    txn,            \* write transactions begun
    fault, crash,   \* I/O errors and power losses so far
    outcomes,       \* database images that the next reader may find
    lost            \* further ones that it may find after a power loss

sizes == <<dbSize, dbOrigSize, dbFileSize>>
pcache == <<cache, dirty, needSync>>
jstate == <<inJournal, jfdOpen, journalOff, journalHdr, nRec, cksumInit>>
settings == <<journalMode, level>>
svpts == <<savepoint, subJournal, version>>
dbfile == <<db, dbDur>>
jfile == <<jrnl, jrnlDur, jrnlNew>>
history == <<outcomes, lost>>
bounds == <<txn, fault, crash>>
vars == <<settings, eState, call, sizes, pcache, jstate, left, svpts, dbfile,
          jfile, bounds, history>>

Page == 1 .. MaxPage
Torn == -1                  \* a page that a power loss or an error garbled
Content == {Torn} \cup 0 .. MaxVersion
NotCached == -2
EmptyCache == [p \in Page |-> NotCached]

State == {"OPEN", "READER", "WRITER_LOCKED", "WRITER_CACHEMOD",
          "WRITER_DBMOD", "WRITER_FINISHED", "ERROR"}

\* Slots of the journal.  The checksum of a record is right exactly under the
\* header with the nonce it was computed with.
Nonce == (0 .. MaxTxn) \X Nat
Header(magic, n, nonce, size) ==
    [kind |-> "hdr", magic |-> magic, nRec |-> n, nonce |-> nonce, size |-> size]
Record(p, v, nonce) == [kind |-> "rec", pg |-> p, val |-> v, nonce |-> nonce]
Garbage == [kind |-> "junk"]
NoFile == <<[kind |-> "nofile"]>>
IsFile(f) == f # NoFile
HasMagic(s) == s.kind = "hdr" /\ s.magic

Idle == [op |-> "none", pg |-> 0, at |-> "idle"]
Calling(op, pg, at) == call' = [op |-> op, pg |-> pg, at |-> at]
Goto(at) == call' = [call EXCEPT !.at = at]

Slot ==
    [kind : {"hdr"}, magic : BOOLEAN, nRec : Nat, nonce : Nonce, size : 0 .. MaxPage]
    \cup [kind : {"rec"}, pg : Page, val : Content, nonce : Nonce]
    \cup {Garbage}

\* PagerSavepoint; image is what the savepoint stands for (a history field).
Savepoint ==
    [nOrig : 0 .. MaxPage, iOffset : Nat, iHdrOffset : Nat, iSubRec : Nat,
     inSavepoint : SUBSET Page, image : Seq(Content)]

TypeOK ==
    /\ eState \in State
    /\ call \in [op : {"none", "SharedLock", "CommitPhaseOne", "CommitPhaseTwo",
                       "Stress", "Rollback", "Close"},
                 pg : 0 .. MaxPage,
                 at : {"idle", "restored", "failed", "failedWrite", "syncHot", "readHdr", "playRec",
                       "playSync", "finalize", "finalSync", "finalTruncate",
                       "syncRecords", "writeNRec", "syncHdr", "stressWrite",
                       "writeList", "syncDb"}]
    /\ {dbSize, dbOrigSize, dbFileSize} \subseteq 0 .. MaxPage
    /\ cache \in [Page -> Content \cup {NotCached}]
    /\ dirty \cup needSync \cup inJournal \subseteq Page
    /\ jfdOpen \in BOOLEAN /\ jrnlNew \in BOOLEAN
    /\ journalOff \in Nat /\ journalHdr \in Nat /\ nRec \in Nat /\ left \in Nat
    /\ cksumInit \in Nonce
    /\ db \in Seq(Content) /\ dbDur \in Seq(Content)
    /\ \A f \in {jrnl, jrnlDur} : f = NoFile \/ f \in Seq(Slot)
    /\ journalMode \in Modes /\ level \in Levels
    /\ savepoint \in Seq(Savepoint) /\ Len(savepoint) <= MaxSavepoint
    /\ subJournal \in Seq([pg : Page, val : Content])
    /\ version \in 0 .. MaxVersion
    /\ txn \in 0 .. MaxTxn /\ fault \in 0 .. MaxFault /\ crash \in 0 .. MaxCrash
    /\ outcomes \subseteq Seq(Content) /\ lost \subseteq Seq(Content)

-----------------------------------------------------------------------------
(* Files (the VFS).                                                        *)

Larger(a, b) == IF a < b THEN b ELSE a
Smaller(a, b) == IF a < b THEN a ELSE b

\* OsWrite at position i; a gap that it leaves is filled with "hole".
WriteAt(f, i, v, hole) ==
    [k \in 1 .. Larger(Len(f), i) |->
        IF k = i THEN v ELSE IF k <= Len(f) THEN f[k] ELSE hole]

Cut(f, n) == SubSeq(f, 1, Smaller(n, Len(f)))

\* What a power loss may leave of a file: new and old are its contents with
\* and without the writes that were not synced.  A file may have grown in
\* part; it is truncated at once or not at all.
Leftover(new, old, junk) ==
    LET At(f, i) == IF i <= Len(f) THEN f[i] ELSE junk
        Differ(n) == {i \in 1 .. Smaller(n, Len(new)) : new[i] # At(old, i)}
        Length == IF Len(new) < Len(old) THEN {Len(new), Len(old)}
                  ELSE Len(old) .. Len(new)
    IN  UNION {
          {[i \in 1 .. n |->
              CASE i \notin Differ(n) -> At(old, i)
                [] i \in Differ(n) -> CASE pick[i] = "new" -> new[i]
                                        [] pick[i] = "old" -> At(old, i)
                                        [] pick[i] = "junk" -> junk] :
             pick \in [Differ(n) -> {"new", "old", "junk"}]} : n \in Length}

\* The journal after a power loss.  The deletion of a journal, and its
\* creation, may be undone as long as the directory was not synced.
LeftoverJournal ==
    {jrnlDur} \cup
    (IF ~IsFile(jrnl) THEN {NoFile}
     ELSE IF jrnlNew \/ ~IsFile(jrnlDur)
          THEN {NoFile} \cup Leftover(jrnl, <<>>, Garbage)
     ELSE Leftover(jrnl, jrnlDur, Garbage))

Ok == UNCHANGED fault
Fails == fault < MaxFault /\ fault' = fault + 1

\* A successful xSync of the journal, with new contents f: nothing of the
\* journal of an earlier transaction can come back.
SyncedJournal(f) ==
    /\ jrnl' = f
    /\ jrnlDur' = f
    /\ jrnlNew' = FALSE
    /\ lost' = {}

-----------------------------------------------------------------------------
(* What the pager holds.                                                   *)

PageContent(p) ==
    IF cache[p] # NotCached THEN cache[p]
    ELSE IF p <= Len(db) /\ p <= dbSize THEN db[p] ELSE 0

Image == [p \in 1 .. dbSize |-> PageContent(p)]

\* A file holds an image when it starts with it: the size that page 1 records
\* tells the b-tree layer to ignore the pages behind it.
Holds(f, image) ==
    /\ Len(image) <= Len(f)
    /\ \A p \in 1 .. Len(image) : f[p] = image[p]

Writer == {"WRITER_LOCKED", "WRITER_CACHEMOD", "WRITER_DBMOD", "WRITER_FINISHED"}

\* The states in which the pager may write to the database file.
MayWriteDb == eState \in {"OPEN", "WRITER_DBMOD", "WRITER_FINISHED"}

Init ==
    /\ eState = "OPEN"
    /\ call = Idle
    /\ dbSize = 0 /\ dbOrigSize = 0 /\ dbFileSize = 0
    /\ cache = EmptyCache
    /\ dirty = {} /\ needSync = {} /\ inJournal = {}
    /\ jfdOpen = FALSE
    /\ journalOff = 0 /\ journalHdr = 0 /\ nRec = 0 /\ left = 0
    /\ cksumInit = <<0, 0>>
    /\ savepoint = <<>> /\ subJournal = <<>> /\ version = 0
    /\ journalMode \in Modes /\ level \in Levels
    /\ \E n \in InitSizes : db = [p \in 1 .. n |-> 0]
    /\ dbDur = db
    /\ jrnl = NoFile /\ jrnlDur = NoFile /\ jrnlNew = FALSE
    /\ txn = 0 /\ fault = 0 /\ crash = 0
    /\ outcomes = {db}
    /\ lost = {}

-----------------------------------------------------------------------------
(* Leaving a call.                                                         *)

releaseAllSavepoints ==
    savepoint' = <<>> /\ subJournal' = <<>> /\ UNCHANGED version

\* SQLITE_IOCAP_UNDELETABLE_WHEN_OPEN, which the registered VFS does not have:
\* fsDeviceCharacteristics returns 0.
UndeletableWhenOpen == FALSE

\* Mutant of pager_unlock: the cache survives an error.
MutantPagerUnlock(error) ==
    /\ eState' = "OPEN"
    /\ call' = Idle
    /\ jfdOpen' = (jfdOpen /\ UndeletableWhenOpen /\ journalMode # "DELETE")
    /\ inJournal' = {}
    /\ journalOff' = 0 /\ journalHdr' = 0
    /\ left' = 0
    /\ releaseAllSavepoints
    /\ UNCHANGED <<sizes, pcache, nRec, cksumInit>>

\* pager_unlock: the journal is closed, unless the VFS cannot delete an open
\* file, and after an error the cache is discarded.
pager_unlock(error) ==
    /\ eState' = "OPEN"
    /\ call' = Idle
    /\ jfdOpen' = (jfdOpen /\ UndeletableWhenOpen /\ journalMode # "DELETE")
    /\ inJournal' = {}
    /\ journalOff' = 0 /\ journalHdr' = 0
    /\ cache' = IF error THEN EmptyCache ELSE cache
    /\ dirty' = IF error THEN {} ELSE dirty
    /\ needSync' = IF error THEN {} ELSE needSync
    /\ left' = 0
    /\ releaseAllSavepoints
    /\ UNCHANGED <<sizes, nRec, cksumInit>>

\* An I/O error ends the call.  The first phase of a commit returns it, and
\* the caller rolls the transaction back; recovery and close go through
\* pager_error and pager_unlock; the other calls leave the pager in ERROR.
GiveUp ==
    \/ /\ call.op = "CommitPhaseOne"
       /\ call' = [Idle EXCEPT !.at = "failed"]
       /\ UNCHANGED <<eState, sizes, pcache, jstate, left, svpts>>
    \/ /\ call.op \in {"SharedLock", "Close"}
       /\ pager_unlock(TRUE)
    \/ /\ call.op \in {"CommitPhaseTwo", "Rollback", "Stress"}
       /\ eState' = "ERROR"
       /\ call' = Idle
       /\ left' = 0
       /\ UNCHANGED <<sizes, pcache, jstate, svpts>>

-----------------------------------------------------------------------------
(* pager_end_transaction.                                                  *)

\* Its tail, and the tail of the call it belongs to: a successful recovery
\* reads the size of the database, a close unlocks it.
EndTransaction(open, off) ==
    \/ /\ call.op = "Close"
       /\ pager_unlock(TRUE)
    \/ /\ call.op # "Close"
       /\ eState' = "READER"
       /\ call' = Idle
       /\ inJournal' = {} /\ nRec' = 0
       /\ jfdOpen' = open
       /\ journalOff' = off
       /\ dirty' = {} /\ needSync' = {}
       /\ cache' = [p \in Page |-> IF p <= dbSize THEN cache[p] ELSE NotCached]
       /\ dbSize' = IF call.op = "SharedLock" THEN Len(db) ELSE dbSize
       /\ releaseAllSavepoints
       /\ UNCHANGED <<dbOrigSize, dbFileSize, journalHdr, cksumInit, left>>

\* Its end after an error: the pager is through with the journal all the same.
FailTransaction(open, off) ==
    \/ /\ call.op \in {"SharedLock", "Close"}
       /\ pager_unlock(TRUE)
    \/ /\ call.op \in {"CommitPhaseTwo", "Rollback"}
       /\ eState' = "ERROR"
       /\ call' = Idle
       /\ inJournal' = {} /\ nRec' = 0
       /\ jfdOpen' = open
       /\ journalOff' = off
       /\ releaseAllSavepoints
       /\ UNCHANGED <<sizes, pcache, journalHdr, cksumInit, left>>

\* What follows when the journal is finalized: the commit of a smaller
\* database still has to truncate the file.
AfterFinalize(open, off) ==
    \/ /\ call.op = "CommitPhaseTwo" /\ dbFileSize > dbSize
       /\ Goto("finalTruncate")
       /\ inJournal' = {} /\ nRec' = 0
       /\ jfdOpen' = open
       /\ journalOff' = off
       /\ dirty' = {} /\ needSync' = {}
       /\ cache' = [p \in Page |-> IF p <= dbSize THEN cache[p] ELSE NotCached]
       /\ UNCHANGED <<eState, sizes, journalHdr, cksumInit, left, svpts>>
    \/ /\ ~(call.op = "CommitPhaseTwo" /\ dbFileSize > dbSize)
       /\ EndTransaction(open, off)

\* The journal is open and something was written to it.
HasJournal == jfdOpen /\ (journalMode = "DELETE" \/ journalOff # 0)

ZeroHeader == Header(FALSE, 0, <<0, 0>>, 0)

\* Mutant of FinalizedJournal: a recovery leaves the journal as it is.
MutantFinalizedJournal ==
    IF call.op = "SharedLock" THEN jrnl
    ELSE CASE journalMode = "DELETE" -> NoFile
           [] journalMode = "TRUNCATE" -> <<>>
           [] journalMode = "PERSIST" -> WriteAt(jrnl, 1, ZeroHeader, Garbage)

FinalizedJournal ==
    CASE journalMode = "DELETE" -> NoFile
      [] journalMode = "TRUNCATE" -> <<>>
      [] journalMode = "PERSIST" -> WriteAt(jrnl, 1, ZeroHeader, Garbage)

\* The finalization decides the transaction: from here on a reader finds the
\* new image.  A power loss may still undo it until it has been synced.
Decide(durable) ==
    \/ /\ eState = "WRITER_FINISHED" /\ call.op = "CommitPhaseTwo"
       /\ outcomes' = {Image}
       /\ lost' = IF durable THEN {} ELSE outcomes
    \/ /\ ~(eState = "WRITER_FINISHED" /\ call.op = "CommitPhaseTwo")
       /\ outcomes' = IF call.op = "SharedLock"
                      THEN {image \in outcomes : Holds(db, image)} ELSE outcomes
       /\ lost' = lost

\* A failed finalization leaves the decision to the next reader.
Undecided ==
    IF eState = "WRITER_FINISHED" /\ call.op = "CommitPhaseTwo"
    THEN outcomes' = outcomes \cup {Image} /\ lost' = outcomes
    ELSE UNCHANGED history

\* What sqlite3PagerSetFlags derives from PRAGMA synchronous.
fullSync == level \in {"FULL", "EXTRA"}

\* Mutant of dirSync: no deletion is synced.
MutantDirSync == FALSE

\* sqlite3OsDelete syncs the directory.
dirSync == level = "EXTRA"

FinalizeJournal ==
    /\ call.at = "finalize"
    /\ \/ /\ ~HasJournal
          /\ Ok
          /\ AfterFinalize(jfdOpen, journalOff)
          /\ Decide(TRUE)
          /\ UNCHANGED jfile
       \/ /\ HasJournal /\ journalMode = "DELETE"
          /\ Ok
          /\ jrnl' = FinalizedJournal
          /\ jrnlDur' = IF dirSync THEN FinalizedJournal ELSE jrnlDur
          /\ UNCHANGED jrnlNew
          /\ Decide(dirSync)
          /\ AfterFinalize(FALSE, journalOff)
       \/ /\ HasJournal /\ journalMode # "DELETE"
          /\ Ok
          /\ jrnl' = FinalizedJournal
          /\ UNCHANGED <<jrnlDur, jrnlNew>>
          /\ Decide(FALSE)
          /\ IF journalMode = "PERSIST" \/ fullSync
             THEN Goto("finalSync")
                  /\ UNCHANGED <<eState, sizes, pcache, jstate, left, svpts>>
             ELSE AfterFinalize(TRUE, 0)
       \/ /\ HasJournal /\ journalMode \in FinalizeFails
          /\ Fails
          /\ jrnl' \in {jrnl, FinalizedJournal}
          /\ UNCHANGED <<jrnlDur, jrnlNew>>
          /\ Undecided
          /\ FailTransaction(journalMode # "DELETE",
                             IF journalMode = "DELETE" THEN journalOff ELSE 0)
    /\ UNCHANGED <<dbfile, settings, txn, crash>>

\* Mutant of SyncFinalized: the sync is forgotten.
MutantSyncFinalized ==
    /\ call.at = "finalSync"
    /\ Ok
    /\ AfterFinalize(TRUE, 0)
    /\ UNCHANGED <<jfile, lost, dbfile, outcomes, settings, txn, crash>>

\* The sync of a truncated or zeroed journal.
SyncFinalized ==
    /\ call.at = "finalSync"
    /\ \/ /\ Ok
          /\ SyncedJournal(jrnl)
          /\ AfterFinalize(TRUE, 0)
       \/ /\ journalMode \in FinalizeFails
          /\ Fails
          /\ FailTransaction(TRUE, 0)
          /\ UNCHANGED <<jfile, lost>>
    /\ UNCHANGED <<dbfile, outcomes, settings, txn, crash>>

\* pager_truncate after the commit of a smaller database, which is not synced.
TruncateAfterCommit ==
    /\ call.at = "finalTruncate"
    /\ \/ /\ Ok
          /\ db' = Cut(db, dbSize)
          /\ EndTransaction(jfdOpen, journalOff)
       \/ /\ Fails
          /\ UNCHANGED db
          /\ GiveUp
    /\ UNCHANGED <<dbDur, jfile, history, settings, txn, crash>>

-----------------------------------------------------------------------------
(* pager_playback, for a hot journal and for a rollback.                   *)

IsHot == call.op = "SharedLock"

\* The size that pager_truncate gives to the database file: a file that is
\* too short gets a page of zeros at its end.
Resized(n) == IF Len(db) < n THEN WriteAt(db, n, 0, 0) ELSE Cut(db, n)

\* readJournalHdr reads at Pager.journalHdr.  After writeJournalHdr that is the
\* place of the header; after syncJournal it is the end of the records, where
\* a header can only be if that is also the start of a sector.
AtJournalHdr(pos) ==
    /\ journalOff = journalHdr
    /\ \/ AlignedEnd
       \/ jrnl[pos].kind = "hdr" /\ jrnl[pos].nonce = <<txn, journalOff>>

\* There is no header here, or it is not valid: a rollback does not look for
\* the magic number at Pager.journalHdr.  (What it reads there from a slot
\* that is no header has a checksum nonce that fits no record.)
NoHeader(pos) ==
    pos <= Len(jrnl) =>
        IF ~IsHot /\ AtJournalHdr(pos) THEN jrnl[pos].kind # "hdr"
        ELSE ~HasMagic(jrnl[pos])

\* Mutant of SegmentLength: the header counts as a record.
MutantSegmentLength(pos) ==
    IF jrnl[pos].nRec = 0 /\ ~IsHot /\ AtJournalHdr(pos)
    THEN Len(jrnl) - pos - 1 ELSE jrnl[pos].nRec

\* Records in the segment: a rollback counts those that follow the last
\* header itself, because nRec is written when the journal is synced.
SegmentLength(pos) ==
    IF jrnl[pos].nRec = 0 /\ ~IsHot /\ AtJournalHdr(pos)
    THEN Len(jrnl) - pos ELSE jrnl[pos].nRec

\* Mutant of AfterHeader: the offset does not move past the header.
MutantAfterHeader == journalOff

\* Where readJournalHdr leaves Pager.journalOff.
AfterHeader == journalOff + 1

PlaybackHeader ==
    LET pos == journalOff + 1
        first == journalOff = 0
        resize == first /\ MayWriteDb
    IN  /\ call.at = "readHdr"
        /\ \/ /\ NoHeader(pos)
              /\ Ok
              /\ Goto("playSync")
              /\ UNCHANGED <<eState, sizes, pcache, jstate, left, svpts, db>>
           \/ /\ ~NoHeader(pos)
              /\ Ok
              /\ journalOff' = AfterHeader
              /\ cksumInit' = jrnl[pos].nonce
              /\ left' = SegmentLength(pos)
              /\ dbSize' = IF first THEN jrnl[pos].size ELSE dbSize
              /\ dbFileSize' = IF resize /\ Len(db) # jrnl[pos].size
                               THEN jrnl[pos].size ELSE dbFileSize
              /\ db' = IF resize THEN Resized(jrnl[pos].size) ELSE db
              /\ cache' = IF IsHot /\ left' > 0 THEN EmptyCache ELSE cache
              /\ Goto(IF left' = 0 THEN "readHdr" ELSE "playRec")
              /\ UNCHANGED <<eState, dbOrigSize, dirty, needSync, inJournal,
                             jfdOpen, journalHdr, nRec, svpts>>
           \/ /\ ~NoHeader(pos) /\ resize /\ Len(db) # jrnl[pos].size
              /\ Fails
              /\ UNCHANGED db
              /\ GiveUp
        /\ UNCHANGED <<dbDur, jfile, history, settings, txn, crash>>

\* pager_playback_one_page ends the playback of a segment at a record whose
\* page number is zero or whose checksum is wrong; a page number that is too
\* large makes it skip the record before it looks at the checksum.
Stops(s) ==
    \/ s.kind = "junk"
    \/ s.kind = "hdr" /\ ~s.magic
    \/ s.kind = "rec" /\ s.pg <= dbSize /\ s.nonce # cksumInit
Skips(s) ==
    \/ s.kind = "junk"
    \/ HasMagic(s)
    \/ s.kind = "rec" /\ s.pg > dbSize
Restores(s) == s.kind = "rec" /\ s.pg <= dbSize /\ s.nonce = cksumInit

\* The record goes to the database file when it is known to be synced, and
\* to the cache when the page is there.
isSynced(pos) == pos <= journalHdr

PlaybackRecord ==
    LET pos == journalOff + 1
        writes == MayWriteDb /\ isSynced(pos)
    IN  /\ call.at = "playRec"
        /\ \/ /\ pos > Len(jrnl)
              /\ Ok
              /\ Goto("playSync")
              /\ left' = 0
              /\ UNCHANGED <<eState, sizes, pcache, jstate, svpts, db>>
           \/ /\ pos <= Len(jrnl) /\ Stops(jrnl[pos])
              /\ Ok
              /\ journalOff' = Len(jrnl)
              /\ left' = 0
              /\ Goto("readHdr")
              /\ UNCHANGED <<eState, sizes, pcache, inJournal, jfdOpen,
                             journalHdr, nRec, cksumInit, svpts, db>>
           \/ /\ pos <= Len(jrnl) /\ Skips(jrnl[pos])
              /\ Ok
              /\ journalOff' = pos
              /\ left' = left - 1
              /\ Goto(IF left = 1 THEN "readHdr" ELSE "playRec")
              /\ UNCHANGED <<eState, sizes, pcache, inJournal, jfdOpen,
                             journalHdr, nRec, cksumInit, svpts, db>>
           \/ /\ pos <= Len(jrnl) /\ Restores(jrnl[pos])
              /\ Ok
              /\ LET p == jrnl[pos].pg  v == jrnl[pos].val
                 IN  /\ db' = IF writes THEN WriteAt(db, p, v, 0) ELSE db
                     /\ dbFileSize' = IF writes THEN Larger(dbFileSize, p)
                                      ELSE dbFileSize
                     /\ cache' = IF cache[p] # NotCached
                                 THEN [cache EXCEPT ![p] = v] ELSE cache
              /\ journalOff' = pos
              /\ left' = left - 1
              /\ Goto(IF left = 1 THEN "readHdr" ELSE "playRec")
              /\ UNCHANGED <<eState, dbSize, dbOrigSize, dirty, needSync,
                             inJournal, jfdOpen, journalHdr, nRec, cksumInit,
                             svpts>>
           \/ /\ pos <= Len(jrnl) /\ Restores(jrnl[pos]) /\ writes
              /\ Fails
              /\ db' \in {db, WriteAt(db, jrnl[pos].pg, Torn, 0)}
              /\ GiveUp
        /\ UNCHANGED <<dbDur, jfile, history, settings, txn, crash>>

\* Mutant of PlaybackSync: the journal is finalized before the database that
\* it restored is synced.
MutantPlaybackSync ==
    /\ call.at = "playSync"
    /\ Ok
    /\ Goto("finalize")
    /\ UNCHANGED <<eState, sizes, pcache, jstate, left, svpts, dbfile, jfile,
                   history, settings, txn, crash>>

\* The end of pager_playback: the restored database is synced before the
\* journal is finalized.
PlaybackSync ==
    /\ call.at = "playSync"
    /\ \/ /\ Ok
          /\ dbDur' = IF MayWriteDb THEN db ELSE dbDur
          /\ Goto("finalize")
          /\ UNCHANGED <<eState, sizes, pcache, jstate, left, svpts>>
       \/ /\ MayWriteDb
          /\ Fails
          /\ UNCHANGED dbDur
          /\ GiveUp
    /\ UNCHANGED <<db, jfile, history, settings, txn, crash>>

-----------------------------------------------------------------------------
(* Opening a read transaction.                                             *)

\* No call is in progress; "restored" says that the latest one rolled back to a
\* savepoint, "failedWrite" and "failed" that it returned an error.
AtRest == call.at \in {"idle", "restored"}

\* hasHotJournal: the journal starts with a byte that is not zero.  Garbage
\* may start with either.
StartsNonZero == Len(jrnl) > 0 /\ (HasMagic(jrnl[1]) \/ jrnl[1].kind # "hdr")
StartsZero == Len(jrnl) > 0 => jrnl[1].kind # "rec" /\ ~HasMagic(jrnl[1])

BecomeReader ==
    /\ eState' = "READER"
    /\ dbSize' = Len(db)
    /\ outcomes' = {image \in outcomes : Holds(db, image)}
    /\ UNCHANGED <<dbOrigSize, dbFileSize, pcache, jstate, left, svpts, dbfile, lost>>

\* sqlite3PagerSharedLock.  A journal beside an empty database is deleted,
\* whatever the deletion returns; a hot one is opened and rolled back.
sqlite3PagerSharedLock ==
    /\ AtRest /\ eState = "OPEN"
    /\ \/ /\ ~IsFile(jrnl)
          /\ BecomeReader
          /\ UNCHANGED <<call, jfile, fault>>
       \/ /\ IsFile(jrnl) /\ Len(db) = 0
          /\ \/ Ok /\ jrnl' = NoFile
             \/ Fails /\ UNCHANGED jrnl
          /\ BecomeReader
          /\ UNCHANGED <<call, jrnlDur, jrnlNew>>
       \/ /\ IsFile(jrnl) /\ Len(db) > 0 /\ StartsZero
          /\ BecomeReader
          /\ UNCHANGED <<call, jfile, fault>>
       \/ /\ IsFile(jrnl) /\ Len(db) > 0 /\ StartsNonZero
          /\ jfdOpen' = TRUE
          /\ Calling("SharedLock", 0, "syncHot")
          /\ UNCHANGED <<eState, sizes, pcache, inJournal, journalOff,
                         journalHdr, nRec, cksumInit, left, svpts, dbfile, jfile,
                         fault, history>>
    /\ UNCHANGED <<settings, txn, crash>>

\* pagerSyncHotJournal, in a recovery and in sqlite3PagerClose: after it all
\* of the journal counts as synced.
pagerSyncHotJournal ==
    /\ call.at = "syncHot"
    /\ \/ /\ Ok
          /\ SyncedJournal(jrnl)
          /\ \/ /\ eState \in {"READER", "ERROR"}
                /\ pager_unlock(TRUE)
             \/ /\ eState \notin {"READER", "ERROR"}
                /\ journalHdr' = Len(jrnl)
                /\ \/ /\ eState = "WRITER_LOCKED"
                      /\ Goto("finalize")
                      /\ UNCHANGED journalOff
                   \/ /\ eState # "WRITER_LOCKED"
                      /\ Goto("readHdr")
                      /\ journalOff' = 0
                /\ UNCHANGED <<eState, sizes, pcache, inJournal, jfdOpen, nRec,
                               cksumInit, left, svpts>>
       \/ /\ Fails
          /\ GiveUp
          /\ UNCHANGED <<jfile, lost>>
    /\ UNCHANGED <<dbfile, outcomes, settings, txn, crash>>

\* sqlite3PagerGet reads a page into the cache.
sqlite3PagerGet(p) ==
    /\ AtRest /\ eState \in {"READER"} \cup Writer
    /\ p <= dbSize /\ cache[p] = NotCached
    /\ cache' = [cache EXCEPT ![p] = PageContent(p)]
    /\ UNCHANGED <<eState, call, sizes, dirty, needSync, jstate, left, svpts, dbfile,
                   jfile, settings, bounds, history>>

\* Mutant of pagerUnlockIfUnused: the error state is never left.
MutantUnlockIfUnused ==
    /\ AtRest /\ eState = "READER"
    /\ pager_unlock(FALSE)
    /\ UNCHANGED <<dbfile, jfile, settings, bounds, history>>

\* pagerUnlockIfUnused, at the end of a read transaction and in ERROR.
pagerUnlockIfUnused ==
    /\ AtRest /\ eState \in {"READER", "ERROR"}
    /\ pager_unlock(eState = "ERROR")
    /\ UNCHANGED <<dbfile, jfile, settings, bounds, history>>

-----------------------------------------------------------------------------
(* Write transactions.                                                     *)

sqlite3PagerBegin ==
    /\ AtRest /\ eState = "READER" /\ txn < MaxTxn /\ version < MaxVersion
    /\ eState' = "WRITER_LOCKED"
    /\ dbFileSize' = dbSize
    /\ dbOrigSize' = dbSize
    /\ journalOff' = 0
    /\ txn' = txn + 1
    /\ version' = version + 1
    /\ UNCHANGED <<call, dbSize, pcache, inJournal, jfdOpen, journalHdr, nRec,
                   cksumInit, left, savepoint, subJournal, dbfile, jfile,
                   settings, fault, crash, history>>

\* pager_open_journal: the journal with its first header.  The magic number
\* and nRec of a header are zero until the journal is synced.
CreatedJournal == IF IsFile(jrnl) THEN jrnl ELSE <<>>
NewHeader(off) == Header(FALSE, 0, <<txn, off>>, dbOrigSize)
OpenedJournal == WriteAt(CreatedJournal, 1, NewHeader(0), Garbage)

\* subjRequiresPage: a savepoint needs the page as it is now, and no journal
\* has it since the savepoint was opened.
subjRequiresPage(p) ==
    \E i \in DOMAIN savepoint :
        p <= savepoint[i].nOrig /\ p \notin savepoint[i].inSavepoint

addToSavepointBitvecs(p) ==
    [i \in DOMAIN savepoint |->
        IF p <= savepoint[i].nOrig
        THEN [savepoint[i] EXCEPT !.inSavepoint = @ \cup {p}] ELSE savepoint[i]]

\* Mutant of subjournals: a page in the journal is not copied again.
MutantSubjournals(p, journals) == FALSE

\* pager_write copies the page to the sub-journal.
subjournals(p, journals) == ~journals /\ subjRequiresPage(p)

\* sqlite3PagerWrite of page p, then the change of the page by the caller.
\* "size" is Pager.dbSize, "next" where the call continues: a commit looks at
\* the savepoints no more.
PagerWrite(p, size, next) ==
    LET opening == eState = "WRITER_LOCKED"
        base == IF opening THEN OpenedJournal ELSE jrnl
        off == IF opening THEN 1 ELSE journalOff
        nonce == IF opening THEN <<txn, 0>> ELSE cksumInit
        count == IF opening THEN 0 ELSE nRec
        journals == p \notin inJournal /\ p <= dbOrigSize
        copies == subjournals(p, journals)
        logged == WriteAt(base, off + 1, Record(p, PageContent(p), nonce),
                          Garbage)
        fetched == [cache EXCEPT ![p] = PageContent(p)]
        marked == needSync \cup
                  (IF journals \/ (p > dbOrigSize /\ eState # "WRITER_DBMOD")
                   THEN {p} ELSE {})
        error == [Idle EXCEPT !.at = IF next = Idle THEN "failedWrite" ELSE "failed"]
        Opened == /\ jrnlNew' = (jrnlNew \/ ~IsFile(jrnl))
                  /\ jfdOpen' = TRUE
                  /\ cksumInit' = nonce
                  /\ journalHdr' = IF opening THEN 0 ELSE journalHdr
                  /\ eState' = IF opening THEN "WRITER_CACHEMOD" ELSE eState
                  /\ dirty' = dirty \cup {p}
                  /\ needSync' = marked
    IN  /\ \/ \* pager_open_journal fails
              /\ opening /\ Fails
              /\ \/ UNCHANGED <<jrnl, jrnlNew, jfdOpen, journalOff, journalHdr,
                                nRec>>
                 \/ /\ jrnl' \in {CreatedJournal, OpenedJournal,
                                  WriteAt(CreatedJournal, 1, Garbage, Garbage)}
                    /\ jrnlNew' = (jrnlNew \/ ~IsFile(jrnl))
                    /\ jfdOpen' = TRUE
                    /\ journalOff' = 1 /\ journalHdr' = 0 /\ nRec' = 0
              /\ cache' = fetched
              /\ call' = error
              /\ dbSize' = size
              /\ UNCHANGED <<eState, dirty, needSync, inJournal, cksumInit, svpts>>
           \/ \* pagerAddPageToRollbackJournal fails
              /\ journals /\ Fails
              /\ Opened
              /\ jrnl' \in {base, logged, WriteAt(base, off + 1, Garbage, Garbage)}
              /\ journalOff' = off /\ nRec' = count
              /\ cache' = fetched
              /\ call' = error
              /\ dbSize' = size
              /\ UNCHANGED <<inJournal, svpts>>
           \/ \* subjournalPage fails
              /\ copies /\ Fails
              /\ Opened
              /\ jrnl' = base
              /\ journalOff' = off /\ nRec' = count
              /\ cache' = fetched
              /\ call' = error
              /\ dbSize' = Larger(size, p)
              /\ UNCHANGED <<inJournal, svpts>>
           \/ /\ Ok
              /\ Opened
              /\ jrnl' = IF journals THEN logged ELSE base
              /\ journalOff' = IF journals THEN off + 1 ELSE off
              /\ nRec' = IF journals THEN count + 1 ELSE count
              /\ inJournal' = IF journals THEN inJournal \cup {p} ELSE inJournal
              /\ IF next = Idle
                 THEN /\ savepoint' = IF journals \/ copies
                                      THEN addToSavepointBitvecs(p) ELSE savepoint
                      /\ subJournal' = IF copies
                            THEN Append(subJournal, [pg |-> p, val |-> fetched[p]])
                            ELSE subJournal
                 ELSE savepoint' = <<>> /\ subJournal' = <<>>
              /\ cache' = [cache EXCEPT ![p] = version]
              /\ dbSize' = Larger(size, p)
              /\ call' = next
              /\ UNCHANGED version
        /\ UNCHANGED <<dbOrigSize, dbFileSize, left, dbfile, jrnlDur, settings,
                       txn, crash, history>>

sqlite3PagerWrite(p) ==
    /\ AtRest /\ eState \in {"WRITER_LOCKED", "WRITER_CACHEMOD", "WRITER_DBMOD"}
    /\ p <= dbSize + 1
    /\ PagerWrite(p, dbSize, Idle)

\* A commit may make the database smaller.
MayShrink ==
    \/ AutoVacuum = "always"
    \/ AutoVacuum = "durable" /\ (journalMode # "DELETE" \/ level = "EXTRA")

\* sqlite3PagerTruncateImage (auto-vacuum) and sqlite3PagerCommitPhaseOne up
\* to pager_incr_changecounter, which writes page 1.
sqlite3PagerCommitPhaseOne(nPage) ==
    /\ AtRest /\ eState \in {"WRITER_CACHEMOD", "WRITER_DBMOD"}
    /\ nPage <= dbSize /\ (nPage < dbSize => MayShrink)
    /\ PagerWrite(1, nPage, [op |-> "CommitPhaseOne", pg |-> 0, at |-> "syncRecords"])

\* Mutant of pagerStress: the page is written before its record is synced.
MutantPagerStress(p) ==
    /\ AtRest /\ eState \in {"WRITER_CACHEMOD", "WRITER_DBMOD"}
    /\ p \in dirty
    /\ Calling("Stress", p, "stressWrite")
    /\ UNCHANGED <<eState, sizes, pcache, jstate, left, svpts, dbfile, jfile,
                   settings, bounds, history>>

\* pagerStress: the cache writes out a dirty page.
pagerStress(p) ==
    /\ AtRest /\ eState \in {"WRITER_CACHEMOD", "WRITER_DBMOD"}
    /\ p \in dirty
    /\ Calling("Stress", p, IF p \in needSync \/ eState = "WRITER_CACHEMOD"
                            THEN "syncRecords" ELSE "stressWrite")
    /\ UNCHANGED <<eState, sizes, pcache, jstate, left, svpts, dbfile, jfile,
                   settings, bounds, history>>

\* Mutant of WithoutStaleHeader: the header stays valid.
MutantWithoutStaleHeader == jrnl

\* syncJournal, up to the first sync: a valid header of an earlier transaction
\* that follows the journal is made invalid.
WithoutStaleHeader ==
    LET pos == journalOff + 1
    IN  IF pos <= Len(jrnl) /\ HasMagic(jrnl[pos])
        THEN [jrnl EXCEPT ![pos].magic = FALSE] ELSE jrnl

SyncJournalRecords ==
    /\ call.at = "syncRecords"
    /\ \/ /\ Ok
          /\ Goto("writeNRec")
          /\ IF fullSync THEN SyncedJournal(WithoutStaleHeader)
             ELSE jrnl' = WithoutStaleHeader /\ UNCHANGED <<jrnlDur, jrnlNew, lost>>
          /\ UNCHANGED <<eState, sizes, pcache, jstate, left, svpts>>
       \/ /\ Fails
          /\ jrnl' \in {jrnl, WithoutStaleHeader}
          /\ UNCHANGED <<jrnlDur, jrnlNew, lost>>
          /\ GiveUp
    /\ UNCHANGED <<dbfile, outcomes, settings, txn, crash>>

\* Mutant of WithCount: the last record is not counted.
MutantWithCount(n) ==
    [jrnl EXCEPT ![journalHdr + 1].magic = TRUE,
                 ![journalHdr + 1].nRec = IF n > 1 THEN n - 1 ELSE n]

\* syncJournal: magic number and nRec of the last header.
WithCount(n) ==
    [jrnl EXCEPT ![journalHdr + 1].magic = TRUE, ![journalHdr + 1].nRec = n]

SyncJournalCount ==
    /\ call.at = "writeNRec"
    /\ \/ /\ Ok
          /\ jrnl' = WithCount(nRec)
          /\ Goto("syncHdr")
          /\ UNCHANGED <<eState, sizes, pcache, jstate, left, svpts>>
       \/ /\ Fails
          /\ jrnl' \in {jrnl, WithCount(0), WithCount(nRec)}
          /\ GiveUp
    /\ UNCHANGED <<dbfile, jrnlDur, jrnlNew, outcomes, lost, settings, txn, crash>>

\* writeJournalHdr: the records of a savepoint in this segment end here.
SegmentEnds ==
    [i \in DOMAIN savepoint |->
        IF savepoint[i].iHdrOffset = 0
        THEN [savepoint[i] EXCEPT !.iHdrOffset = journalOff] ELSE savepoint[i]]

\* syncJournal: the second sync and, when the journal goes on after a spill,
\* the header of its next segment.
SyncJournalHeader ==
    LET newHdr == call.op = "Stress"
    IN  /\ call.at = "syncHdr"
        /\ \/ /\ Ok
              /\ jrnlDur' = jrnl /\ jrnlNew' = FALSE /\ lost' = {}
              /\ jrnl' = IF newHdr
                         THEN WriteAt(jrnl, journalOff + 1, NewHeader(journalOff), Garbage)
                         ELSE jrnl
              /\ journalHdr' = journalOff
              /\ journalOff' = IF newHdr THEN journalOff + 1 ELSE journalOff
              /\ nRec' = IF newHdr THEN 0 ELSE nRec
              /\ cksumInit' = IF newHdr THEN <<txn, journalOff>> ELSE cksumInit
              /\ needSync' = {}
              /\ eState' = "WRITER_DBMOD"
              /\ Goto(IF newHdr THEN "stressWrite" ELSE "writeList")
              /\ savepoint' = IF newHdr THEN SegmentEnds ELSE savepoint
              /\ UNCHANGED <<sizes, cache, dirty, inJournal, jfdOpen, left,
                             subJournal, version>>
           \/ /\ Fails
              /\ UNCHANGED <<jfile, lost>>
              /\ GiveUp
           \/ /\ newHdr
              /\ Fails
              /\ jrnlDur' = jrnl /\ jrnlNew' = FALSE /\ lost' = {}
              /\ jrnl' \in {jrnl, WriteAt(jrnl, journalOff + 1, Garbage, Garbage)}
              /\ GiveUp
        /\ UNCHANGED <<dbfile, outcomes, settings, txn, crash>>

\* pager_write_pagelist of the one page of pagerStress, which is then clean
\* and may leave the cache.
StressWrite ==
    LET p == call.pg
    IN  /\ call.at = "stressWrite"
        /\ \/ /\ Ok
              /\ db' = IF p <= dbSize THEN WriteAt(db, p, cache[p], 0) ELSE db
              /\ dbFileSize' = IF p <= dbSize THEN Larger(dbFileSize, p)
                               ELSE dbFileSize
              /\ dirty' = dirty \ {p}
              /\ cache' \in {cache, [cache EXCEPT ![p] = NotCached]}
              /\ call' = Idle
              /\ UNCHANGED <<eState, dbSize, dbOrigSize, needSync, jstate, left, svpts>>
           \/ /\ p <= dbSize
              /\ Fails
              /\ db' \in {db, WriteAt(db, p, Torn, 0)}
              /\ GiveUp
        /\ UNCHANGED <<dbDur, jfile, history, settings, txn, crash>>

\* pager_write_pagelist of all dirty pages, in the order of their numbers.
\* The pages behind the end of the image are not written.
DirtyList == {p \in dirty : p <= dbSize}
LastPage(s) == IF s = {} THEN 0 ELSE CHOOSE p \in s : \A q \in s : q <= p
WithPages(s) ==
    [i \in 1 .. Larger(Len(db), LastPage(s)) |->
        IF i \in s THEN cache[i] ELSE IF i <= Len(db) THEN db[i] ELSE 0]

CommitWriteList ==
    /\ call.at = "writeList"
    /\ \/ /\ Ok
          /\ db' = WithPages(DirtyList)
          /\ dbFileSize' = Larger(dbFileSize, LastPage(DirtyList))
          /\ dirty' = {}
          /\ Goto("syncDb")
          /\ UNCHANGED <<eState, dbSize, dbOrigSize, cache, needSync, jstate, left, svpts>>
       \/ /\ Fails
          /\ \E p \in DirtyList :
                LET before == WithPages({q \in DirtyList : q < p})
                IN  db' \in {before, WriteAt(before, p, Torn, 0)}
          /\ GiveUp
    /\ UNCHANGED <<dbDur, jfile, history, settings, txn, crash>>

\* The end of sqlite3PagerCommitPhaseOne.
CommitSync ==
    /\ call.at = "syncDb"
    /\ \/ /\ Ok
          /\ dbDur' = db
          /\ eState' = "WRITER_FINISHED"
          /\ call' = Idle
          /\ UNCHANGED <<sizes, pcache, jstate, left, svpts>>
       \/ /\ Fails
          /\ UNCHANGED dbDur
          /\ GiveUp
    /\ UNCHANGED <<db, jfile, history, settings, txn, crash>>

\* sqlite3PagerCommitPhaseTwo; in WRITER_LOCKED nothing was changed, and the
\* first phase returned at once.
sqlite3PagerCommitPhaseTwo ==
    /\ AtRest /\ eState \in {"WRITER_LOCKED", "WRITER_FINISHED"}
    /\ Calling("CommitPhaseTwo", 0, "finalize")
    /\ UNCHANGED <<eState, sizes, pcache, jstate, left, svpts, dbfile, jfile,
                   settings, bounds, history>>

\* sqlite3PagerRollback, at the caller's wish or after a call that failed.
\* (pager_end_transaction frees the savepoints; nothing looks at them before.)
sqlite3PagerRollback ==
    /\ (AtRest \/ call.at \in {"failed", "failedWrite"}) /\ eState \in Writer
    /\ \/ /\ eState = "WRITER_LOCKED"
          /\ Calling("Rollback", 0, "finalize")
          /\ UNCHANGED journalOff
       \/ /\ eState # "WRITER_LOCKED"
          /\ Calling("Rollback", 0, "readHdr")
          /\ journalOff' = 0
    /\ releaseAllSavepoints
    /\ UNCHANGED <<eState, sizes, pcache, inJournal, jfdOpen, journalHdr, nRec,
                   cksumInit, left, dbfile, jfile, settings, bounds, history>>

\* sqlite3PagerClose: the cache is discarded, an open journal is synced, and a
\* write transaction is rolled back.
sqlite3PagerClose ==
    /\ (AtRest \/ call.at \in {"failed", "failedWrite"})
    /\ \/ /\ jfdOpen
          /\ Calling("Close", 0, "syncHot")
          /\ cache' = EmptyCache /\ dirty' = {} /\ needSync' = {}
          /\ releaseAllSavepoints
          /\ UNCHANGED <<eState, sizes, jstate, left>>
       \/ /\ ~jfdOpen
          /\ pager_unlock(TRUE)
    /\ UNCHANGED <<dbfile, jfile, settings, bounds, history>>

-----------------------------------------------------------------------------
(* Savepoints, which also carry the statements of a transaction.           *)

sqlite3PagerOpenSavepoint ==
    /\ AtRest
    /\ eState \in {"WRITER_LOCKED", "WRITER_CACHEMOD", "WRITER_DBMOD"}
    /\ Len(savepoint) < MaxSavepoint /\ version < MaxVersion
    /\ savepoint' = Append(savepoint,
            [nOrig |-> dbSize,
             iOffset |-> IF jfdOpen /\ journalOff > 0 THEN journalOff ELSE 1,
             iHdrOffset |-> 0,
             iSubRec |-> Len(subJournal),
             inSavepoint |-> {},
             image |-> Image])
    /\ version' = version + 1
    /\ UNCHANGED <<eState, call, sizes, pcache, jstate, left, subJournal, dbfile,
                   jfile, settings, bounds, history>>

\* sqlite3PagerSavepoint(SAVEPOINT_RELEASE): the sub-journal starts anew when
\* no savepoint is left.
ReleaseSavepoint(i) ==
    /\ AtRest /\ i \in DOMAIN savepoint
    /\ eState \in {"WRITER_LOCKED", "WRITER_CACHEMOD", "WRITER_DBMOD"}
    /\ savepoint' = SubSeq(savepoint, 1, i - 1)
    /\ subJournal' = IF i = 1 THEN <<>> ELSE subJournal
    /\ call' = Idle
    /\ UNCHANGED <<eState, sizes, pcache, jstate, left, version, dbfile,
                   jfile, settings, bounds, history>>

\* The positions from a to b.
Positions(a, b) == [k \in 1 .. Larger(b - a + 1, 0) |-> a + k - 1]

\* Positions of the records in the segments of the journal from offset off to
\* Pager.journalOff, as pagerPlaybackSavepoint finds them: the last header
\* does not have its magic number and its count yet.
SegmentRecords ==
    LET last(off) == off = journalHdr
        valid(off) == IF last(off) THEN jrnl[off + 1].kind = "hdr"
                      ELSE HasMagic(jrnl[off + 1])
        count(off) == IF last(off) /\ jrnl[off + 1].nRec = 0
                      THEN journalOff - off - 1
                      ELSE Smaller(jrnl[off + 1].nRec, journalOff - off - 1)
        from[off \in 0 .. journalOff] ==
            IF off >= journalOff \/ ~valid(off) THEN <<>>
            ELSE Positions(off + 2, off + 1 + count(off))
                 \o from[off + 1 + count(off)]
    IN  from

\* Mutant of MainRecords: the records behind the next header are forgotten.
MutantMainRecords(i) ==
    IF i = 0 THEN SegmentRecords[0]
    ELSE Positions(savepoint[i].iOffset + 1,
                   IF savepoint[i].iHdrOffset # 0 THEN savepoint[i].iHdrOffset
                   ELSE journalOff)

\* The records of the main journal that a rollback to savepoint i plays back.
\* i = 0 stands for the whole transaction.
MainRecords(i) ==
    IF i = 0 THEN SegmentRecords[0]
    ELSE LET end == IF savepoint[i].iHdrOffset # 0 THEN savepoint[i].iHdrOffset
                    ELSE journalOff
         IN  Positions(savepoint[i].iOffset + 1, end) \o SegmentRecords[end]

\* All records of the rollback in the order in which they are played back.
Replay(i) ==
    LET main == MainRecords(i)
        skip == IF i = 0 THEN Len(subJournal) ELSE savepoint[i].iSubRec
    IN  [k \in DOMAIN main |->
            [main |-> TRUE, pos |-> main[k],
             pg |-> jrnl[main[k]].pg, val |-> jrnl[main[k]].val]]
        \o [k \in 1 .. Len(subJournal) - skip |->
            [main |-> FALSE, pos |-> 0,
             pg |-> subJournal[skip + k].pg, val |-> subJournal[skip + k].val]]

\* Mutant of WritesToDb: a record of the sub-journal always goes to the file.
MutantWritesToDb(r) == MayWriteDb /\ (r.main => isSynced(r.pos))

\* pager_playback_one_page writes the record to the file when the original
\* page is known to be in a synced part of the journal.
WritesToDb(r) ==
    /\ MayWriteDb
    /\ IF r.main THEN isSynced(r.pos)
       ELSE cache[r.pg] = NotCached \/ r.pg \notin needSync

\* The records of a list that are the first ones of their page, up to the
\* size of the database image.
FirstRecords(list, size) ==
    {list[k] : k \in {k \in DOMAIN list :
                        /\ list[k].pg <= size
                        /\ \A j \in 1 .. k - 1 : list[j].pg # list[k].pg}}

\* The effect of playing back a set of records, one for each page: a page that
\* is neither written to the file nor cached is put into the cache as dirty.
\* "open" are the savepoints that stay open, "torn" the pages that a failing
\* write may garble.
Played(records, open, torn) ==
    LET at(p) == CHOOSE r \in records : r.pg = p
        pages == {r.pg : r \in records}
        written == {r.pg : r \in {q \in records : WritesToDb(q)}}
        added == {r.pg : r \in {q \in records : /\ ~q.main /\ ~WritesToDb(q)
                                                /\ cache[q.pg] = NotCached}}
    IN  /\ db' = [p \in 1 .. Larger(Len(db), LastPage(written \cup torn)) |->
                    IF p \in torn THEN Torn
                    ELSE IF p \in written THEN at(p).val
                    ELSE IF p <= Len(db) THEN db[p] ELSE 0]
        /\ dbFileSize' = Larger(dbFileSize, LastPage(written))
        /\ cache' = [p \in Page |->
                        IF p \in pages /\ (cache[p] # NotCached \/ p \in added)
                        THEN at(p).val ELSE cache[p]]
        /\ dirty' = dirty \cup added
        /\ inJournal' = inJournal \cup {p \in added : p <= dbOrigSize}
        /\ savepoint' = [k \in DOMAIN open |->
                            [open[k] EXCEPT !.inSavepoint =
                                @ \cup {p \in added : p <= open[k].nOrig}]]

\* sqlite3PagerSavepoint(SAVEPOINT_ROLLBACK) with pagerPlaybackSavepoint.  A
\* statement that failed to write is rolled back in the same way.  An error
\* leaves some records played back; the caller then rolls back everything.
RollbackSavepoint(i) ==
    LET size == IF i = 0 THEN dbOrigSize ELSE savepoint[i].nOrig
        list == IF jfdOpen /\ eState # "WRITER_LOCKED" THEN Replay(i) ELSE <<>>
        open == IF i = 0 THEN <<>> ELSE SubSeq(savepoint, 1, i)
    IN  /\ AtRest \/ call.at = "failedWrite"
        /\ eState \in {"WRITER_LOCKED", "WRITER_CACHEMOD", "WRITER_DBMOD"}
        /\ MaxSavepoint > 0
        /\ dbSize' = size
        /\ \/ /\ Ok
              /\ Played(FirstRecords(list, size), open, {})
              /\ call' = [Idle EXCEPT !.at = "restored"]
           \/ /\ Fails
              /\ \E k \in DOMAIN list :
                    /\ list[k] \in FirstRecords(list, size) /\ WritesToDb(list[k])
                    /\ \E torn \in SUBSET {list[k].pg} :
                         Played(FirstRecords(SubSeq(list, 1, k - 1), size), open, torn)
              /\ call' = [Idle EXCEPT !.at = "failed"]
        /\ UNCHANGED <<eState, dbOrigSize, needSync, jfdOpen, journalOff,
                       journalHdr, nRec, cksumInit, left, subJournal, version,
                       dbDur, jfile, settings, txn, crash, history>>

-----------------------------------------------------------------------------
(* Settings.                                                               *)

\* sqlite3PagerSetJournalMode, which the caller does not use once pages were
\* changed.  From TRUNCATE or PERSIST to DELETE it closes the journal, takes
\* the locks, which is when a hot journal is rolled back, and deletes it.
sqlite3PagerSetJournalMode(mode) ==
    /\ AtRest /\ eState \in {"OPEN", "READER", "WRITER_LOCKED"}
    /\ mode \in Modes \ {journalMode}
    /\ journalMode' = mode
    /\ \/ /\ mode # "DELETE" \/ journalMode = "DELETE"
          /\ UNCHANGED <<eState, call, sizes, pcache, jstate, left, svpts, jfile,
                         outcomes>>
       \/ /\ mode = "DELETE" /\ journalMode # "DELETE"
          /\ \/ eState # "OPEN"
             \/ IsFile(jrnl) /\ Len(db) > 0 => StartsZero
          /\ jrnl' \in {jrnl, NoFile}
          /\ jfdOpen' = FALSE
          /\ outcomes' = {image \in outcomes : eState = "OPEN" => Holds(db, image)}
          /\ UNCHANGED <<eState, call, sizes, pcache, inJournal, journalOff,
                         journalHdr, nRec, cksumInit, left, svpts, jrnlDur, jrnlNew>>
       \/ /\ mode = "DELETE" /\ journalMode # "DELETE"
          /\ eState = "OPEN" /\ IsFile(jrnl) /\ Len(db) > 0 /\ StartsNonZero
          /\ jfdOpen' = TRUE
          /\ Calling("SharedLock", 0, "syncHot")
          /\ UNCHANGED <<eState, sizes, pcache, inJournal, journalOff, journalHdr,
                         nRec, cksumInit, left, svpts, jfile, outcomes>>
    /\ UNCHANGED <<level, dbfile, lost, bounds>>

\* sqlite3PagerSetFlags: PRAGMA synchronous, outside of a transaction.
sqlite3PagerSetFlags(l) ==
    /\ AtRest /\ eState \in {"OPEN", "READER"}
    /\ l \in Levels \ {level}
    /\ level' = l
    /\ UNCHANGED <<journalMode, eState, call, sizes, pcache, jstate, left, svpts,
                   dbfile, jfile, bounds, history>>

-----------------------------------------------------------------------------
\* A power loss.
Crash ==
    /\ crash < MaxCrash
    /\ crash' = crash + 1
    /\ db' \in Leftover(db, dbDur, Torn)
    /\ dbDur' = db'
    /\ jrnl' \in LeftoverJournal
    /\ jrnlDur' = jrnl'
    /\ jrnlNew' = FALSE
    /\ eState' = "OPEN" /\ call' = Idle
    /\ dbSize' = 0 /\ dbOrigSize' = 0 /\ dbFileSize' = 0
    /\ cache' = EmptyCache /\ dirty' = {} /\ needSync' = {} /\ inJournal' = {}
    /\ jfdOpen' = FALSE
    /\ journalOff' = 0 /\ journalHdr' = 0 /\ nRec' = 0 /\ left' = 0
    /\ cksumInit' = <<0, 0>>
    /\ releaseAllSavepoints
    /\ outcomes' = outcomes \cup lost
    /\ lost' = {}
    /\ UNCHANGED <<settings, txn, fault>>

\* The next step of the call in progress.
Continue ==
    \/ pagerSyncHotJournal \/ PlaybackHeader \/ PlaybackRecord \/ PlaybackSync
    \/ FinalizeJournal \/ SyncFinalized \/ TruncateAfterCommit
    \/ SyncJournalRecords \/ SyncJournalCount \/ SyncJournalHeader
    \/ StressWrite \/ CommitWriteList \/ CommitSync

Next ==
    \/ sqlite3PagerSharedLock
    \/ pagerUnlockIfUnused
    \/ sqlite3PagerBegin
    \/ \E p \in Page : sqlite3PagerGet(p) \/ sqlite3PagerWrite(p) \/ pagerStress(p)
    \/ \E n \in Page : sqlite3PagerCommitPhaseOne(n)
    \/ sqlite3PagerCommitPhaseTwo
    \/ sqlite3PagerRollback
    \/ sqlite3PagerClose
    \/ sqlite3PagerOpenSavepoint
    \/ \E i \in 0 .. Len(savepoint) : RollbackSavepoint(i) \/ ReleaseSavepoint(i)
    \/ \E mode \in Modes : sqlite3PagerSetJournalMode(mode)
    \/ \E l \in Levels : sqlite3PagerSetFlags(l)
    \/ Continue
    \/ Crash

Spec == Init /\ [][Next]_vars

\* A call that has begun runs on, the last reference to a page is dropped after
\* an error, and somebody wants to read the database.
FairSpec ==
    /\ Spec
    /\ WF_vars(Continue)
    /\ WF_vars(eState = "ERROR" /\ pagerUnlockIfUnused)
    /\ WF_vars(sqlite3PagerSharedLock)

-----------------------------------------------------------------------------
(* Properties.                                                             *)

\* A reader finds the image that the last transaction to commit left, whole,
\* after any sequence of calls, I/O errors and power losses.
AtomicCommit ==
    eState = "READER" /\ AtRest => \E image \in outcomes : Holds(Image, image)

\* No reader has a hot journal beside the database: a later connection would
\* roll back what this one has read and perhaps built upon.  (hasHotJournal
\* does not take a journal beside an empty database for hot.)
NoHotJournal ==
    eState = "READER" /\ AtRest /\ Len(db) > 0 /\ IsFile(jrnl) /\ Len(jrnl) > 0
        => ~HasMagic(jrnl[1])

\* A page of the cache that is not dirty is the page of the file, whatever was
\* rolled back, spilled or recovered before.
CacheCoherent ==
    AtRest /\ eState \in {"READER"} \cup Writer =>
        \A p \in 1 .. dbSize :
            cache[p] # NotCached /\ p \notin dirty => p <= Len(db) /\ cache[p] = db[p]

\* A recovery from journal f would give page p the content v.
Logged(f, p, v) ==
    /\ IsFile(f)
    /\ \E h, i \in DOMAIN f :
          /\ HasMagic(f[h])
          /\ h < i /\ i <= h + f[h].nRec
          /\ f[i] = Record(p, v, f[h].nonce)

\* Write-ahead logging, in every state of every call: some image that a reader
\* may find is whole, where each page has its content in the file and on the
\* medium, or else in a segment of the journal that has been synced.
Recoverable ==
    \E image \in outcomes :
        \A p \in 1 .. Len(image) :
            \/ \A f \in {db, dbDur} : p <= Len(f) /\ f[p] = image[p]
            \/ \A f \in {jrnl, jrnlDur} : Logged(f, p, image[p])

\* A rollback to a savepoint that returns restores the image that the savepoint
\* stands for, wherever its pages are by then: in the cache, in the file, in
\* the segments of the journal that were or were not synced, in the sub-journal.
SavepointRestored ==
    call.at = "restored" =>
        IF savepoint = <<>> THEN \E image \in outcomes : Holds(Image, image)
        ELSE Image = savepoint[Len(savepoint)].image

\* When a commit has returned, no power loss undoes it.
Durable == eState = "READER" /\ AtRest => lost = {}

\* Every call returns: playback ends whatever the journal holds.
CallEnds == call.op # "none" ~> call.op = "none"

\* An error state is left, and after finitely many errors and power losses the
\* database can be read again.
Recovers == eState \in {"OPEN", "ERROR"} ~> eState = "READER"
=============================================================================
