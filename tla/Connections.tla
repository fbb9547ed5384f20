----------------------------- MODULE Connections -----------------------------
(***************************************************************************)
(* Several connections, in processes of their own, on one database file:   *)
(* the way pager.c uses the locks of WinLocks to read, to commit and to    *)
(* roll back a journal that a process left behind when it ended.           *)
(*                                                                         *)
(* What Pager models in detail is abstracted here: the journal file is     *)
(* absent, without a header ("zeroed"), or it holds the original pages.    *)
(* What Pager leaves out is the subject: each step of one connection may   *)
(* fall between any two steps of another, also between the test for a      *)
(* journal, the test for a RESERVED lock and the EXCLUSIVE lock.           *)
(***************************************************************************)
EXTENDS WinLocks, Sequences, SequencesExt, FiniteSetsExt

CONSTANTS
    Modes,      \* the journal modes: a subset of {"DELETE", "PERSIST"}
    InitSizes,  \* the possible sizes of the database at the start: 0 or 2 pages
    ZeroPageCached, \* whether page 1 of an empty database, all zeros, stays in the
                \* cache when the lock is dropped (FALSE: it has been recycled)
    MaxTxn,     \* bound on write transactions
    MaxCrash    \* bound on processes that end without a word

ASSUME ConnectionsAssumption ==
    /\ Modes \subseteq {"DELETE", "PERSIST"}
    /\ InitSizes \subseteq {0, 2}
    /\ ZeroPageCached \in BOOLEAN
    /\ MaxTxn \in Nat
    /\ MaxCrash \in Nat

\* Page 1 holds the change counter, page 2 the data.
Page == {1, 2}

\* What a journal file without a valid header and a missing one look like.
Absent == [file |-> FALSE, valid |-> FALSE, orig |-> <<>>]
Zeroed == [file |-> TRUE, valid |-> FALSE, orig |-> <<>>]

VARIABLES
    mode,       \* journal_mode
    db,         \* the pages of the database file
    journal,    \* the journal file
    committed,  \* what the last committed transaction made of the database
    pc,         \* the place in the pager call in progress, "idle" between calls
    eState,     \* Pager.eState
    cache,      \* the page cache
    dbFileVers, \* Pager.dbFileVers, the change counter seen last
    heldShared, \* Pager.hasHeldSharedLock
    jfd,        \* isOpen(Pager.jfd)
    todo,       \* pages still to be written by a commit or a playback
    txns,       \* write transactions begun, which also tells contents apart
    crashes

fileVars == <<db, journal, committed>>
pagerVars == <<pc, eState, cache, dbFileVers, heldShared, jfd, todo>>
boundVars == <<mode, txns, crashes>>
vars == <<lockVars, fileVars, pagerVars, boundVars>>

Writers == {"LOCKED", "CACHEMOD", "DBMOD", "FINISHED"}

Places == {"idle", "shared", "access", "check", "count", "clean", "hotLock", "open",
           "header", "records", "finalize", "ended", "version", "fail", "closing",
           "begin", "beginExclusive", "journal", "spillLock", "spillWrite",
           "commitLock", "commitWrite", "phaseTwo"}

TypeOK ==
    /\ LockTypeOK
    /\ mode \in Modes
    /\ db \in BoundedSeq(0 .. MaxTxn, 2)
    /\ journal \in [file : BOOLEAN, valid : BOOLEAN, orig : BoundedSeq(0 .. MaxTxn, 2)]
    /\ committed \in BoundedSeq(0 .. MaxTxn, 2)
    /\ pc \in [Conn -> Places]
    /\ eState \in [Conn -> {"OPEN", "READER"} \cup Writers]
    /\ \A c \in Conn : \E S \in SUBSET Page : cache[c] \in [S -> 0 .. MaxTxn]
    /\ dbFileVers \in [Conn -> 0 .. MaxTxn]
    /\ heldShared \in [Conn -> BOOLEAN]
    /\ jfd \in [Conn -> BOOLEAN]
    /\ todo \in [Conn -> SUBSET Page]
    /\ txns \in 0 .. MaxTxn
    /\ crashes \in 0 .. MaxCrash

NoPages == [p \in {} |-> 0]

Init ==
    /\ LockInit
    /\ mode \in Modes
    /\ \E n \in InitSizes : db = [p \in 1 .. n |-> 0]
    /\ journal = Absent
    /\ committed = db
    /\ pc = [c \in Conn |-> "idle"]
    /\ eState = [c \in Conn |-> "OPEN"]
    /\ cache = [c \in Conn |-> NoPages]
    /\ dbFileVers = [c \in Conn |-> 0]
    /\ heldShared = [c \in Conn |-> FALSE]
    /\ jfd = [c \in Conn |-> FALSE]
    /\ todo = [c \in Conn |-> {}]
    /\ txns = 0
    /\ crashes = 0

-----------------------------------------------------------------------------
At(c, place) == pc[c] = place /\ at[c] = "none"
To(c, place) == pc' = [pc EXCEPT ![c] = place]

\* sqlite3OsWrite of a page: a file that ends before it is filled with zeros.
Written(file, p, content) ==
    [i \in 1 .. Max({p, Len(file)}) |->
        IF i = p THEN content ELSE IF i <= Len(file) THEN file[i] ELSE 0]

\* pager_unlock: the journal is closed, except that on Windows, where an open
\* file cannot be deleted, the modes that keep the file keep it open.
CloseJournal(c) == jfd' = [jfd EXCEPT ![c] = @ /\ mode = "PERSIST"]

\* Everything but the lock, the place and what the action names stays.
QuietBut == UNCHANGED <<fileVars, boundVars>>

-----------------------------------------------------------------------------
(* sqlite3PagerSharedLock *)

sqlite3PagerSharedLock(c) ==
    /\ At(c, "idle") /\ eState[c] = "OPEN"
    /\ winLock(c, SHARED_LOCK)
    /\ To(c, "shared")
    /\ QuietBut /\ UNCHANGED <<eState, cache, dbFileVers, heldShared, jfd, todo>>

\* pager_wait_on_lock: the busy handler asks for another try, or the call fails
\* (pager_unlock has no lock to give up).
SharedGranted(c) ==
    /\ At(c, "shared")
    /\ IF res[c] THEN To(c, IF jfd[c] THEN "check" ELSE "access") /\ UNCHANGED lockVars
       ELSE \/ winLock(c, SHARED_LOCK) /\ UNCHANGED pc
            \/ To(c, "idle") /\ UNCHANGED lockVars
    /\ QuietBut /\ UNCHANGED <<eState, cache, dbFileVers, heldShared, jfd, todo>>

\* hasHotJournal: first, is there a journal?  Then, has anybody the RESERVED lock?
HotAccess(c) ==
    /\ At(c, "access")
    /\ IF journal.file THEN To(c, "check") ELSE To(c, "version")
    /\ QuietBut /\ UNCHANGED <<lockVars, eState, cache, dbFileVers, heldShared, jfd, todo>>

HotCheck(c) ==
    /\ At(c, "check")
    /\ winCheckReservedLock(c)
    /\ To(c, "count")
    /\ QuietBut /\ UNCHANGED <<eState, cache, dbFileVers, heldShared, jfd, todo>>

\* What hasHotJournal makes of the journal file: its first byte, and a file that
\* cannot be opened any more is taken for a hot journal.
LooksHot(c) == journal.valid \/ (~jfd[c] /\ ~journal.file)

\* A RESERVED lock on the way to EXCLUSIVE would let a newcomer believe that the
\* journal belongs to a live transaction, and read a database half rolled back.
MutantHotCount(c) ==
    /\ At(c, "count")
    /\ LET remnant == ~res[c] /\ Len(db) = 0 /\ ~jfd[c]
           hot     == ~res[c] /\ ~remnant /\ LooksHot(c)
       IN  \/ remnant /\ winLock(c, RESERVED_LOCK) /\ To(c, "clean")
           \/ hot /\ winLock(c, RESERVED_LOCK) /\ To(c, "open")
           \/ ~remnant /\ ~hot /\ To(c, "version") /\ UNCHANGED lockVars
    /\ QuietBut /\ UNCHANGED <<eState, cache, dbFileVers, heldShared, jfd, todo>>

\* The journal of an empty database is no hot journal but a remnant to be deleted,
\* under a RESERVED lock.
HotCount(c) ==
    /\ At(c, "count")
    /\ LET remnant == ~res[c] /\ Len(db) = 0 /\ ~jfd[c]
           hot     == ~res[c] /\ ~remnant /\ LooksHot(c)
       IN  \/ remnant /\ winLock(c, RESERVED_LOCK) /\ To(c, "clean")
           \/ hot /\ winLock(c, EXCLUSIVE_LOCK) /\ To(c, "hotLock")
           \/ ~remnant /\ ~hot /\ To(c, "version") /\ UNCHANGED lockVars
    /\ QuietBut /\ UNCHANGED <<eState, cache, dbFileVers, heldShared, jfd, todo>>

\* Deleting the remnant without the RESERVED lock deletes the journal of a
\* transaction that has begun meanwhile.
MutantHotClean(c) ==
    /\ At(c, "clean")
    /\ journal' = IF \E d \in Conn : d # c /\ jfd[d] /\ mode = "PERSIST" THEN journal ELSE Absent
    /\ winUnlock(c, SHARED_LOCK)
    /\ To(c, "version")
    /\ UNCHANGED <<db, committed, boundVars, eState, cache, dbFileVers, heldShared, jfd, todo>>

\* Without the lock the remnant stays, and the call goes on.  A file some other
\* connection has open cannot be deleted.
HotClean(c) ==
    /\ At(c, "clean")
    /\ IF res[c]
       THEN /\ journal' = IF \E d \in Conn : jfd[d] THEN journal ELSE Absent
            /\ winUnlock(c, SHARED_LOCK)
       ELSE UNCHANGED <<journal, lockVars>>
    /\ To(c, "version")
    /\ UNCHANGED <<db, committed, boundVars, eState, cache, dbFileVers, heldShared, jfd, todo>>

\* The EXCLUSIVE lock is tried once; without it the call fails.
HotLocked(c) ==
    /\ At(c, "hotLock")
    /\ To(c, IF res[c] THEN "open" ELSE "fail")
    /\ QuietBut /\ UNCHANGED <<lockVars, eState, cache, dbFileVers, heldShared, jfd, todo>>

\* Under the EXCLUSIVE lock the journal is looked for again: another connection
\* may have rolled it back.
HotOpen(c) ==
    /\ At(c, "open")
    /\ jfd' = [jfd EXCEPT ![c] = journal.file]
    /\ IF journal.file
       THEN To(c, "header") /\ UNCHANGED lockVars
       ELSE To(c, "version") /\ winUnlock(c, SHARED_LOCK)
    /\ QuietBut /\ UNCHANGED <<eState, cache, dbFileVers, heldShared, todo>>

\* The cached pages are good as long as the change counter is the one seen last.
\* A database of no pages reads as a counter of zero.
Counter(file) == IF Len(file) = 0 THEN 0 ELSE file[1]

\* The change counter is not looked at.
MutantVersionCheck(c) ==
    /\ At(c, "version")
    /\ eState' = [eState EXCEPT ![c] = "READER"]
    /\ heldShared' = [heldShared EXCEPT ![c] = TRUE]
    /\ To(c, "idle")
    /\ QuietBut /\ UNCHANGED <<lockVars, cache, dbFileVers, jfd, todo>>

VersionCheck(c) ==
    /\ At(c, "version")
    /\ cache' = [cache EXCEPT ![c] =
                    IF heldShared[c] /\ dbFileVers[c] # Counter(db) THEN NoPages ELSE @]
    /\ eState' = [eState EXCEPT ![c] = "READER"]
    /\ heldShared' = [heldShared EXCEPT ![c] = TRUE]
    /\ To(c, "idle")
    /\ QuietBut /\ UNCHANGED <<lockVars, dbFileVers, jfd, todo>>

\* pager_unlock, after a failure and when the last page is released
\* (pagerUnlockIfUnused).
pager_unlock(c) ==
    /\ \/ At(c, "fail")
       \/ At(c, "idle") /\ eState[c] = "READER"
    /\ winUnlock(c, NO_LOCK)
    /\ CloseJournal(c)
    /\ eState' = [eState EXCEPT ![c] = "OPEN"]
    /\ To(c, "idle")
    /\ QuietBut /\ UNCHANGED <<cache, dbFileVers, heldShared, todo>>

-----------------------------------------------------------------------------
(* Playback, of a hot journal (eState OPEN) or of the connection's own. *)

\* The cache goes, except in a rollback, which restores its pages as well; the
\* database is cut to its original size.  A transaction that has not touched the
\* database file needs its cache restored only.
PlaybackHeader(c) ==
    /\ At(c, "header")
    /\ LET hot == eState[c] = "OPEN"
           file == hot \/ eState[c] \in {"DBMOD", "FINISHED"}
           orig == journal.orig
       IN  /\ cache' = [cache EXCEPT ![c] =
                           IF ~journal.valid THEN @
                           ELSE IF hot THEN NoPages
                           ELSE [p \in DOMAIN @ \cap DOMAIN orig |-> orig[p]]]
           /\ db' = IF journal.valid /\ file
                    THEN [p \in 1 .. Len(orig) |-> IF p <= Len(db) THEN db[p] ELSE 0] ELSE db
           /\ todo' = [todo EXCEPT ![c] = IF journal.valid /\ file THEN DOMAIN orig ELSE {}]
           /\ dbFileVers' = [dbFileVers EXCEPT ![c] =
                                IF 1 \in DOMAIN orig \cap DOMAIN cache'[c] THEN orig[1] ELSE @]
    /\ To(c, "records")
    /\ UNCHANGED <<lockVars, journal, committed, boundVars, eState, heldShared, jfd>>

PlaybackRecord(c) ==
    /\ At(c, "records")
    /\ IF todo[c] # {}
       THEN LET p == Min(todo[c])
            IN  /\ db' = Written(db, p, journal.orig[p])
                /\ todo' = [todo EXCEPT ![c] = @ \ {p}]
                /\ UNCHANGED pc
       ELSE To(c, "finalize") /\ UNCHANGED <<db, todo>>
    /\ UNCHANGED <<lockVars, journal, committed, boundVars,
                   eState, cache, dbFileVers, heldShared, jfd>>

\* pager_end_transaction: the journal is deleted or its header overwritten.  This
\* is what commits a transaction whose pages have been written.
Finalized == IF mode = "DELETE" THEN Absent ELSE Zeroed

FinalizeJournal(c) ==
    /\ At(c, "finalize") \/ At(c, "phaseTwo")
    /\ journal' = IF jfd[c] THEN Finalized ELSE journal
    /\ jfd' = [jfd EXCEPT ![c] = @ /\ mode = "PERSIST"]
    /\ committed' = IF pc[c] = "phaseTwo" THEN db ELSE committed
    /\ To(c, "ended")
    /\ UNCHANGED <<lockVars, db, boundVars, eState, cache, dbFileVers, heldShared, todo>>

\* ... and the lock lowered to SHARED, in this order.
EndTransaction(c) ==
    /\ At(c, "ended")
    /\ winUnlock(c, SHARED_LOCK)
    /\ To(c, IF eState[c] = "OPEN" THEN "version" ELSE "idle")
    /\ eState' = [eState EXCEPT ![c] = IF @ = "OPEN" THEN @ ELSE "READER"]
    /\ QuietBut /\ UNCHANGED <<cache, dbFileVers, heldShared, jfd, todo>>

-----------------------------------------------------------------------------
(* Reading and writing *)

\* What a page of the file holds; past its end all is zero.
Content(file, p) == IF p <= Len(file) THEN file[p] ELSE 0

\* sqlite3PagerGet of page p, page 1 before any other (lockBtree).  A page past the
\* end of the database is a page of zeros that is not read, and dbFileVers stays.
sqlite3PagerGet(c, p) ==
    /\ At(c, "idle") /\ eState[c] \in {"READER", "LOCKED"}
    /\ p <= Len(db) \/ (p = 1 /\ ZeroPageCached)
    /\ p \notin DOMAIN cache[c]
    /\ p = 2 => 1 \in DOMAIN cache[c]
    /\ cache' = [cache EXCEPT ![c] = [q \in DOMAIN @ \cup {p} |-> IF q = p THEN Content(db, p) ELSE @[q]]]
    /\ dbFileVers' = [dbFileVers EXCEPT ![c] = IF p = 1 /\ Len(db) > 0 THEN db[1] ELSE @]
    /\ QuietBut /\ UNCHANGED <<lockVars, pc, eState, heldShared, jfd, todo>>

\* sqlite3PagerBegin: the RESERVED lock is tried once; ex asks for EXCLUSIVE next
\* (BEGIN EXCLUSIVE), where the busy handler may ask for more tries.
sqlite3PagerBegin(c, ex) ==
    /\ At(c, "idle") /\ eState[c] = "READER"
    /\ Len(db) > 0 => 1 \in DOMAIN cache[c]
    /\ txns < MaxTxn
    /\ txns' = txns + 1
    /\ winLock(c, RESERVED_LOCK)
    /\ To(c, IF ex THEN "beginExclusive" ELSE "begin")
    /\ UNCHANGED <<fileVars, mode, crashes, eState, cache, dbFileVers, heldShared, jfd, todo>>

BeginReserved(c) ==
    /\ At(c, "begin") \/ At(c, "beginExclusive")
    /\ \/ /\ res[c] /\ (pc[c] = "beginExclusive" => locktype[c] = EXCLUSIVE_LOCK)
          /\ eState' = [eState EXCEPT ![c] = "LOCKED"]
          /\ To(c, "idle") /\ UNCHANGED lockVars
       \/ /\ pc[c] = "beginExclusive" /\ locktype[c] \in {RESERVED_LOCK, PENDING_LOCK}
          /\ winLock(c, EXCLUSIVE_LOCK)
          /\ UNCHANGED <<pc, eState>>
       \/ ~res[c] /\ To(c, "idle") /\ UNCHANGED <<eState, lockVars>>
    /\ QuietBut /\ UNCHANGED <<cache, dbFileVers, heldShared, jfd, todo>>

\* pager_open_journal creates the file, or opens the one that is there ...
pager_open_journal(c) ==
    /\ At(c, "idle") /\ eState[c] = "LOCKED"
    /\ DOMAIN db \subseteq DOMAIN cache[c]
    /\ journal' = IF journal.file THEN journal ELSE Zeroed
    /\ jfd' = [jfd EXCEPT ![c] = TRUE]
    /\ To(c, "journal")
    /\ UNCHANGED <<lockVars, db, committed, boundVars, eState, cache, dbFileVers, heldShared, todo>>

\* ... and writes the header and, out of the cache, the original of each page
\* before it changes: page 2 now, page 1 for the change counter at the commit.
pager_write(c) ==
    /\ At(c, "journal")
    /\ journal' = [file |-> TRUE, valid |-> TRUE, orig |-> [p \in DOMAIN db |-> cache[c][p]]]
    /\ cache' = [cache EXCEPT ![c] =
                    [p \in Page |-> IF p = 2 THEN txns ELSE Counter(journal'.orig)]]
    /\ eState' = [eState EXCEPT ![c] = "CACHEMOD"]
    /\ To(c, "idle")
    /\ UNCHANGED <<lockVars, db, committed, boundVars, dbFileVers, heldShared, jfd, todo>>

\* pagerStress and sqlite3PagerCommitPhaseOne sync the journal first, and
\* syncJournal begins with the EXCLUSIVE lock.  The commit has incremented the
\* change counter in page 1 by then.
pagerStress(c) ==
    /\ At(c, "idle") /\ eState[c] \in {"CACHEMOD", "DBMOD"}
    /\ winLock(c, EXCLUSIVE_LOCK)
    /\ To(c, "spillLock")
    /\ QuietBut /\ UNCHANGED <<eState, cache, dbFileVers, heldShared, jfd, todo>>

\* The counter is incremented once more by every attempt of the same commit.
MutantCommitPhaseOneAgain(c) ==
    /\ At(c, "idle") /\ eState[c] \in {"CACHEMOD", "DBMOD"}
    /\ cache' = [cache EXCEPT ![c][1] = @ + 1]
    /\ winLock(c, EXCLUSIVE_LOCK)
    /\ To(c, "commitLock")
    /\ QuietBut /\ UNCHANGED <<eState, dbFileVers, heldShared, jfd, todo>>

\* The change counter is not incremented.
MutantCommitPhaseOne(c) ==
    /\ At(c, "idle") /\ eState[c] \in {"CACHEMOD", "DBMOD"}
    /\ winLock(c, EXCLUSIVE_LOCK)
    /\ To(c, "commitLock")
    /\ QuietBut /\ UNCHANGED <<eState, cache, dbFileVers, heldShared, jfd, todo>>

sqlite3PagerCommitPhaseOne(c) ==
    /\ At(c, "idle") /\ eState[c] \in {"CACHEMOD", "DBMOD"}
    /\ cache' = [cache EXCEPT ![c][1] = dbFileVers[c] + 1]
    /\ winLock(c, EXCLUSIVE_LOCK)
    /\ To(c, "commitLock")
    /\ QuietBut /\ UNCHANGED <<eState, dbFileVers, heldShared, jfd, todo>>

\* The database file is written as soon as the journal is, EXCLUSIVE lock or not.
MutantExclusiveGranted(c) ==
    /\ At(c, "spillLock") \/ At(c, "commitLock")
    /\ To(c, IF pc[c] = "spillLock" THEN "spillWrite" ELSE "commitWrite")
    /\ todo' = [todo EXCEPT ![c] = IF pc[c] = "spillLock" THEN {2} ELSE Page]
    /\ eState' = [eState EXCEPT ![c] = "DBMOD"]
    /\ QuietBut /\ UNCHANGED <<lockVars, cache, dbFileVers, heldShared, jfd>>

\* The lock is there, or the busy handler asks for another try, or the call fails
\* with SQLITE_BUSY and the transaction, with a PENDING lock perhaps, goes on.
ExclusiveGranted(c) ==
    /\ At(c, "spillLock") \/ At(c, "commitLock")
    /\ IF res[c]
       THEN /\ To(c, IF pc[c] = "spillLock" THEN "spillWrite" ELSE "commitWrite")
            /\ todo' = [todo EXCEPT ![c] = IF pc[c] = "spillLock" THEN {2} ELSE Page]
            /\ eState' = [eState EXCEPT ![c] = "DBMOD"]
            /\ UNCHANGED lockVars
       ELSE /\ \/ winLock(c, EXCLUSIVE_LOCK) /\ UNCHANGED pc
               \/ To(c, "idle") /\ UNCHANGED lockVars
            /\ UNCHANGED <<todo, eState>>
    /\ QuietBut /\ UNCHANGED <<cache, dbFileVers, heldShared, jfd>>

\* pager_write_pagelist writes one page after the other; with page 1 the pager's
\* copy of the change counter follows.
WritePage(c) ==
    /\ At(c, "spillWrite") \/ At(c, "commitWrite")
    /\ LET p == Min(todo[c])
       IN  /\ db' = Written(db, p, cache[c][p])
           /\ dbFileVers' = [dbFileVers EXCEPT ![c] = IF p = 1 THEN cache[c][1] ELSE @]
           /\ todo' = [todo EXCEPT ![c] = @ \ {p}]
           /\ IF todo[c] # {p} THEN UNCHANGED <<pc, eState>>
              ELSE /\ To(c, "idle")
                   /\ eState' = [eState EXCEPT ![c] =
                                    IF pc[c] = "commitWrite" THEN "FINISHED" ELSE @]
    /\ UNCHANGED <<lockVars, journal, committed, boundVars, cache, heldShared, jfd>>

sqlite3PagerCommitPhaseTwo(c) ==
    /\ At(c, "idle") /\ eState[c] \in {"LOCKED", "FINISHED"}
    /\ To(c, IF eState[c] = "FINISHED" THEN "phaseTwo" ELSE "finalize")
    /\ QuietBut /\ UNCHANGED <<lockVars, eState, cache, dbFileVers, heldShared, jfd, todo>>

sqlite3PagerRollback(c) ==
    /\ At(c, "idle") /\ eState[c] \in Writers
    /\ To(c, IF eState[c] = "LOCKED" THEN "finalize" ELSE "header")
    /\ QuietBut /\ UNCHANGED <<lockVars, eState, cache, dbFileVers, heldShared, jfd, todo>>

\* The process of c ends, by a crash or by force; what it has written to files
\* stays.  A new connection takes its place.
Crash(c) ==
    /\ crashes < MaxCrash /\ locktype[c] > NO_LOCK
    /\ crashes' = crashes + 1
    /\ DropLocks(c)
    /\ To(c, "idle")
    /\ eState' = [eState EXCEPT ![c] = "OPEN"]
    /\ cache' = [cache EXCEPT ![c] = NoPages]
    /\ dbFileVers' = [dbFileVers EXCEPT ![c] = 0]
    /\ heldShared' = [heldShared EXCEPT ![c] = FALSE]
    /\ jfd' = [jfd EXCEPT ![c] = FALSE]
    /\ todo' = [todo EXCEPT ![c] = {}]
    /\ UNCHANGED <<fileVars, mode, txns>>

-----------------------------------------------------------------------------
\* A step of the pager of c that follows from the call it is in.
PagerStep(c) ==
    \/ SharedGranted(c) \/ HotAccess(c) \/ HotCheck(c) \/ HotCount(c) \/ HotClean(c)
    \/ HotLocked(c) \/ HotOpen(c) \/ VersionCheck(c)
    \/ PlaybackHeader(c) \/ PlaybackRecord(c) \/ FinalizeJournal(c) \/ EndTransaction(c)
    \/ BeginReserved(c) \/ pager_write(c) \/ ExclusiveGranted(c) \/ WritePage(c)

\* A new call of the b-tree.
PagerCall(c) ==
    \/ sqlite3PagerSharedLock(c)
    \/ \E p \in Page : sqlite3PagerGet(c, p)
    \/ \E ex \in BOOLEAN : sqlite3PagerBegin(c, ex)
    \/ pager_open_journal(c) \/ pagerStress(c)
    \/ sqlite3PagerCommitPhaseOne(c) \/ sqlite3PagerCommitPhaseTwo(c)
    \/ sqlite3PagerRollback(c)

SystemCall(c) == LockStep(c) /\ UNCHANGED <<fileVars, pagerVars, boundVars>>

Next == \E c \in Conn :
    SystemCall(c) \/ PagerStep(c) \/ PagerCall(c) \/ pager_unlock(c) \/ Crash(c)

Spec == Init /\ [][Next]_vars

\* Processes are scheduled fairly, calls go on to their end, and a read
\* transaction is finished some day.  Nothing makes a connection begin anything.
Fairness == \A c \in Conn :
    WF_vars(SystemCall(c)) /\ WF_vars(PagerStep(c)) /\ WF_vars(pager_unlock(c))

FairSpec == Spec /\ Fairness

-----------------------------------------------------------------------------
\* Whoever reads the database reads what the last commit made of it, from the
\* file and from the cache: no write of another connection, no half-done rollback
\* of a hot journal and no page cached before another's commit gets through the
\* locks and the change counter (sqlite3PagerSharedLock).
ReadersSeeCommitted ==
    \A c \in Conn : eState[c] \in {"READER", "LOCKED"} =>
        /\ db = committed
        /\ \A p \in DOMAIN cache[c] : cache[c][p] = Content(committed, p)

\* At every moment the files alone, with the journal if it has a header, give
\* back the last commit: whichever processes end now, and in whatever order they
\* were reading, writing and rolling back.
FilesHoldCommitted ==
    (IF journal.valid THEN journal.orig ELSE db) = committed

\* Nobody else rolls back, deletes or overwrites the journal of a transaction in
\* progress, though hasHotJournal tests for the journal, for the RESERVED lock and
\* for its first byte one after the other ("Race condition here").
LiveJournalKept ==
    \A c \in Conn :
        eState[c] \in {"CACHEMOD", "DBMOD", "FINISHED"} /\ pc[c] # "ended" => journal.valid

\* A commit leaves a larger change counter behind than the commit before it,
\* whichever connection made it and however many attempts were rolled back in
\* between: the counter is computed from what the connection saw last, and every
\* other connection's cache depends on it.
CounterGrows == [][Counter(committed') > Counter(committed)]_committed

\* A commit that has got as far as the PENDING lock is not starved by readers that
\* come and go: it gets its EXCLUSIVE lock, unless its busy handler gives up.
WriterGetsIn ==
    \A c \in Conn :
        pc[c] = "commitLock" /\ locktype[c] = PENDING_LOCK ~> pc[c] # "commitLock"
=============================================================================
