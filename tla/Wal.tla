--------------------------------- MODULE Wal ---------------------------------
(***************************************************************************)
(* The write-ahead log (wal.c): connections that read a snapshot, append   *)
(* transactions to the log, copy it back into the database and start it    *)
(* again, over the log and database files and the wal-index they share in  *)
(* memory.  One step is one access to the shared wal-index outside a lock  *)
(* that excludes its writers, one lock, or one page of a file.             *)
(*                                                                         *)
(* Left out: files that grow or shrink, a page written twice by one        *)
(* transaction (iReCksum), savepoints, frames padded to a sector, closing  *)
(* the log, snapshots, read-only shared memory and the exclusive locking   *)
(* mode.  The two copies and the checksum of the header make its write     *)
(* atomic for readers.  The build of this repository defines               *)
(* SQLITE_OMIT_WAL; the module is about wal.c as it stands in src/tsrc.    *)
(***************************************************************************)
EXTENDS Integers, FiniteSets, FiniteSetsExt

CONSTANTS
    Connection, NoConn,
    Page,           \* page numbers
    NSlot,          \* read marks 1 .. NSlot (WAL_NREADER - 1)
    MaxFrame,       \* bound on the frames of the log
    MaxTxn,         \* bound on the write transactions
    MaxSalt,        \* bound on the salts drawn
    MaxCrash,       \* bound on process crashes and power losses
    SyncCommit,     \* synchronous=FULL: the log is synced by every commit
    ResetRace       \* the log may start again between a checkpoint's reading of
                    \* the header and of nBackfill, as it may in the code

ASSUME WalAssumption ==
    /\ NoConn \notin Connection
    /\ Page \subseteq Nat \ {0} /\ IsFiniteSet(Page)
    /\ NSlot \in Nat \ {0} /\ MaxFrame \in Nat \ {0}
    /\ MaxTxn \in Nat /\ MaxSalt \in Nat /\ MaxCrash \in Nat
    /\ SyncCommit \in BOOLEAN /\ ResetRace \in BOOLEAN

VARIABLES
    hdr,        \* the header in the wal-index
    info,       \* WalCkptInfo: nBackfill and the read marks; the page of each frame
    locks,      \* WRITE and CKPT; WAL_READ_LOCK(i) is readLock, or locks.db for i = 0
    file,       \* the log and the database, and what a power loss may leave of them
    conn,       \* the Wal objects
    ckpt,       \* walCheckpoint of the connection that holds CKPT
    salts, txn, crashes,
    states      \* the database as transaction n sealed it; the last one that must survive

vars == <<hdr, info, locks, file, conn, ckpt, salts, txn, crashes, states>>

Slot == 1 .. NSlot
Frames == 1 .. MaxFrame
READMARK_NOT_USED == MaxFrame + 1

\* txn is the transaction whose commit wrote the header: iChange.
WalIndexHdr == [isInit : BOOLEAN, txn : 0 .. MaxTxn, mxFrame : 0 .. MaxFrame,
                aSalt : 0 .. MaxSalt]

\* A page's content is the transaction that wrote it; so a frame's checksum tells
\* its transaction, the frame before it (prev, 0 for the log's header) and its salt.
Frame == [pgno : Page \cup {0}, txn : 0 .. MaxTxn, commit : BOOLEAN,
          aSalt : 0 .. MaxSalt, prev : 0 .. MaxTxn]
NoFrame == [pgno |-> 0, txn |-> 0, commit |-> FALSE, aSalt |-> 0, prev |-> 0]
Torn == MaxTxn + 1

PCs == {"idle", "hdr", "lock0", "lock", "check", "read", "write", "frames", "sealed", "ckpt"}

TypeOK ==
    /\ hdr \in WalIndexHdr
    /\ info \in [nBackfill : 0 .. MaxFrame, aReadMark : [Slot -> 0 .. READMARK_NOT_USED],
                 aPgno : [Frames -> Page \cup {0}]]
    /\ locks \in [write : Connection \cup {NoConn}, ckpt : Connection \cup {NoConn},
                  db : BOOLEAN]
    /\ file.aSalt \in 0 .. MaxSalt /\ file.saltMay \subseteq 0 .. MaxSalt
    /\ \A i \in Frames : file.wal[i] \in Frame /\ file.walMay[i] \subseteq Frame
    /\ file.db \in [Page -> 0 .. Torn] /\ file.dbMay \in [Page -> SUBSET (0 .. Torn)]
    /\ conn \in [Connection -> [pc : PCs, hdr : WalIndexHdr, readLock : -1 .. NSlot,
                                slot : 0 .. NSlot, mark : 0 .. MaxFrame,
                                minFrame : 1 .. MaxFrame + 1]]
    /\ ckpt.step \in {"none", "compare", "marks", "copy", "end", "done"}
    /\ salts \in 0 .. MaxSalt /\ txn \in 0 .. MaxTxn /\ crashes \in 0 .. MaxCrash
    /\ states.floor \in 0 .. MaxTxn

NoHdr == [isInit |-> FALSE, txn |-> 0, mxFrame |-> 0, aSalt |-> 0]
Idle == [pc |-> "idle", hdr |-> NoHdr, readLock |-> -1, slot |-> 0, mark |-> 0,
         minFrame |-> 1]
NoCkpt == [step |-> "none", mxSafeFrame |-> 0, slot |-> 1, todo |-> {}]
NewInfo == [nBackfill |-> 0, aReadMark |-> [i \in Slot |-> READMARK_NOT_USED],
            aPgno |-> [i \in Frames |-> 0]]

Init ==
    /\ hdr = NoHdr /\ info = NewInfo
    /\ locks = [write |-> NoConn, ckpt |-> NoConn, db |-> FALSE]
    /\ file = [wal |-> [i \in Frames |-> NoFrame], walMay |-> [i \in Frames |-> {NoFrame}],
               aSalt |-> 0, saltMay |-> {0},
               db |-> [p \in Page |-> 0], dbMay |-> [p \in Page |-> {0}]]
    /\ conn = [c \in Connection |-> Idle] /\ ckpt = NoCkpt
    /\ salts = 0 /\ txn = 0 /\ crashes = 0
    /\ states = [db |-> [t \in 0 .. MaxTxn |-> [p \in Page |-> 0]], floor |-> 0]

-----------------------------------------------------------------------------
(* The files.                                                              *)

SyncWal(f) == [f EXCEPT !.walMay = [i \in Frames |-> {f.wal[i]}], !.saltMay = {f.aSalt}]
SyncDb(f) == [f EXCEPT !.dbMay = [p \in Page |-> {f.db[p]}]]
WriteFrame(f, i, frame) ==
    [f EXCEPT !.wal[i] = frame, !.walMay[i] = @ \cup {frame}]
WriteSalt(f, s) == [f EXCEPT !.aSalt = s, !.saltMay = @ \cup {s}]
\* A page whose write a power loss undoes, or does by half, is taken for torn: the
\* properties accept it nowhere, so they hold if it is the old page.
WritePage(f, p, t) == [f EXCEPT !.db[p] = t, !.dbMay[p] = {t, Torn}]

\* walDecodeFrame: frame i and all before it carry the salt and the checksums of
\* this generation of the log.
walDecodeFrame(f, i) ==
    /\ f.aSalt # 0
    /\ \A j \in 1 .. i : /\ f.wal[j].aSalt = f.aSalt
                         /\ f.wal[j].prev = IF j = 1 THEN 0 ELSE f.wal[j - 1].txn

\* The last frame from lo to hi that the wal-index has for page p, or 0.
LastFrame(p, lo, hi) ==
    LET found == {i \in Frames : lo <= i /\ i <= hi /\ info.aPgno[i] = p}
    IN  IF found = {} THEN 0 ELSE Max(found)

Content(p, lo, hi) ==
    LET i == LastFrame(p, lo, hi) IN IF i = 0 THEN file.db[p] ELSE file.wal[i].txn

\* What connection c reads from page p: sqlite3WalFindFrame, or the database.
PageRead(c, p) ==
    IF conn[c].readLock = 0 THEN file.db[p]
    ELSE Content(p, conn[c].minFrame, conn[c].hdr.mxFrame)

-----------------------------------------------------------------------------
(* Read transactions.                                                      *)

Unlocked(S) == \A c \in Connection : conn[c].readLock \notin S

\* A wal-index that no process has initialised is built from the log under every lock.
walIndexRecover(c) ==
    LET valid == {i \in Frames : walDecodeFrame(file, i)}
        mx == Max({0} \cup {i \in valid : file.wal[i].commit})
        inDb == {t \in 1 .. MaxTxn : states.db[t] = file.db /\ states.db[t] # states.db[0]}
        last == IF mx > 0 THEN file.wal[mx].txn ELSE Max({0} \cup inDb)
    IN  /\ conn[c].pc = "idle" /\ ~hdr.isInit
        /\ locks.write = NoConn /\ locks.ckpt = NoConn /\ Unlocked(0 .. NSlot)
        /\ hdr' = [isInit |-> TRUE, txn |-> last, mxFrame |-> mx, aSalt |-> file.aSalt]
        /\ info' = [NewInfo EXCEPT
                       !.aReadMark[1] = IF mx > 0 THEN mx ELSE READMARK_NOT_USED,
                       !.aPgno = [i \in Frames |-> IF i \in valid THEN file.wal[i].pgno ELSE 0]]
        /\ UNCHANGED <<locks, file, conn, ckpt, salts, txn, crashes, states>>

walIndexReadHdr(c) ==
    /\ conn[c].pc = "idle" /\ hdr.isInit
    /\ conn' = [conn EXCEPT ![c].pc = "hdr", ![c].hdr = hdr]
    /\ UNCHANGED <<hdr, info, locks, file, ckpt, salts, txn, crashes, states>>

\* walTryBeginRead returned WAL_RETRY; the writer keeps its header (useWal).
Retry(c) == IF locks.write = c
            THEN [Idle EXCEPT !.pc = "hdr", !.hdr = conn[c].hdr] ELSE Idle

\* The log ignored when it is empty or partly copied.
MutantIgnoresWal(c) == locks.write # c /\ info.nBackfill <= conn[c].hdr.mxFrame /\ ~locks.db

\* A log that is copied whole is ignored under READ_LOCK(0).
IgnoresWal(c) == locks.write # c /\ info.nBackfill = conn[c].hdr.mxFrame /\ ~locks.db

TryLock0(c) ==
    /\ conn[c].pc = "hdr" /\ IgnoresWal(c)
    /\ conn' = [conn EXCEPT ![c].pc = "lock0", ![c].readLock = 0]
    /\ UNCHANGED <<hdr, info, locks, file, ckpt, salts, txn, crashes, states>>

CheckLock0(c) ==
    /\ conn[c].pc = "lock0"
    /\ conn' = [conn EXCEPT ![c] = IF hdr = @.hdr THEN [@ EXCEPT !.pc = "read"] ELSE Retry(c)]
    /\ UNCHANGED <<hdr, info, locks, file, ckpt, salts, txn, crashes, states>>

\* The slot with the greatest mark up to mxFrame; a free slot takes the mark mxFrame
\* when none has it.
ChooseMark(c) ==
    LET mx == conn[c].hdr.mxFrame
        upTo == {i \in Slot : info.aReadMark[i] <= mx}
        best == {i \in upTo : \A j \in upTo : info.aReadMark[j] <= info.aReadMark[i]}
        free == {i \in Slot : Unlocked({i})}
        Use(i, mark) == conn' = [conn EXCEPT ![c].pc = "lock", ![c].slot = i, ![c].mark = mark]
    IN  /\ conn[c].pc = "hdr" /\ ~IgnoresWal(c)
        /\ \/ /\ \E i \in best : info.aReadMark[i] = mx
              /\ Use(Max(best), mx) /\ UNCHANGED info
           \/ /\ \A i \in best : info.aReadMark[i] < mx
              /\ \/ /\ free # {}
                    /\ info' = [info EXCEPT !.aReadMark[Min(free)] = mx]
                    /\ Use(Min(free), mx)
                 \/ /\ free = {} /\ best # {}
                    /\ Use(Max(best), info.aReadMark[Max(best)]) /\ UNCHANGED info
                 \/ /\ free = {} /\ best = {}
                    /\ conn' = [conn EXCEPT ![c] = Retry(c)] /\ UNCHANGED info
        /\ UNCHANGED <<hdr, locks, file, ckpt, salts, txn, crashes, states>>

\* Nobody keeps a read mark locked exclusively from one step to the next.
LockMark(c) ==
    /\ conn[c].pc = "lock"
    /\ conn' = [conn EXCEPT ![c].pc = "check", ![c].readLock = conn[c].slot,
                            ![c].minFrame = info.nBackfill + 1]
    /\ UNCHANGED <<hdr, info, locks, file, ckpt, salts, txn, crashes, states>>

\* The comparison with the header left out.
MutantMarkStands(c) == info.aReadMark[conn[c].slot] = conn[c].mark

MarkStands(c) == info.aReadMark[conn[c].slot] = conn[c].mark /\ hdr = conn[c].hdr

CheckMark(c) ==
    /\ conn[c].pc = "check"
    /\ conn' = [conn EXCEPT ![c] =
           IF MarkStands(c) THEN [@ EXCEPT !.pc = IF locks.write = c THEN "write" ELSE "read",
                                           !.slot = 0, !.mark = 0]
           ELSE Retry(c)]
    /\ UNCHANGED <<hdr, info, locks, file, ckpt, salts, txn, crashes, states>>

sqlite3WalEndReadTransaction(c) ==
    /\ conn[c].pc = "read"
    /\ conn' = [conn EXCEPT ![c] = Idle]
    /\ UNCHANGED <<hdr, info, locks, file, ckpt, salts, txn, crashes, states>>

-----------------------------------------------------------------------------
(* Write transactions.                                                     *)

\* The snapshot is current: otherwise SQLITE_BUSY_SNAPSHOT.
IsCurrent(c) == hdr = conn[c].hdr

sqlite3WalBeginWriteTransaction(c) ==
    /\ conn[c].pc = "read" /\ locks.write = NoConn /\ IsCurrent(c)
    /\ txn < MaxTxn
    /\ txn' = txn + 1
    /\ locks' = [locks EXCEPT !.write = c]
    /\ conn' = [conn EXCEPT ![c].pc = "write"]
    /\ UNCHANGED <<hdr, info, file, ckpt, salts, crashes, states>>

\* walRestartHdr: the next frame is frame 1, under a new salt.
Restarted(h) == [h EXCEPT !.mxFrame = 0, !.aSalt = salts + 1]
RestartedInfo == [info EXCEPT !.nBackfill = 0,
                      !.aReadMark = [i \in Slot |-> IF i = 1 THEN 0 ELSE READMARK_NOT_USED]]

MayReset == ResetRace \/ ckpt.step # "compare"

\* walRestartLog: a writer that ignores the log starts it again when no other
\* connection reads it, then takes a read mark.
walRestartLog(c) ==
    LET again(h) == [Idle EXCEPT !.pc = "hdr", !.hdr = h]
    IN  /\ conn[c].pc = "write" /\ conn[c].readLock = 0
        /\ \/ /\ info.nBackfill > 0 /\ Unlocked(Slot)
              /\ salts < MaxSalt /\ MayReset
              /\ salts' = salts + 1
              /\ hdr' = Restarted(conn[c].hdr) /\ info' = RestartedInfo
              /\ conn' = [conn EXCEPT ![c] = again(hdr')]
           \/ /\ info.nBackfill = 0 \/ ~Unlocked(Slot)
              /\ conn' = [conn EXCEPT ![c] = again(conn[c].hdr)]
              /\ UNCHANGED <<hdr, info, salts>>
        /\ UNCHANGED <<locks, file, ckpt, txn, crashes, states>>

\* The header of the log is written, and synced, before the first frame.  A
\* connection that never started a log draws the salts again (nCkpt = 0).
WriteWalHdr(c) ==
    /\ conn[c].pc = "write" /\ conn[c].readLock > 0 /\ conn[c].hdr.mxFrame = 0
    /\ \E s \in ({conn[c].hdr.aSalt} \ {0}) \cup ({salts + 1} \cap (1 .. MaxSalt)) :
          /\ salts' = Max({s, salts})
          /\ file' = SyncWal(WriteSalt(file, s))
          /\ conn' = [conn EXCEPT ![c].pc = "frames", ![c].hdr.aSalt = s]
    /\ UNCHANGED <<hdr, info, locks, ckpt, txn, crashes, states>>

\* walIndexAppend: the first entry clears the wal-index; the entries that a writer
\* left when it crashed go as well.
Appended(i, p) ==
    [j \in Frames |-> IF j = i THEN p
                      ELSE IF j > i \/ i = 1 THEN 0 ELSE info.aPgno[j]]

\* walEncodeFrame.
NewFrame(c, p, commit) ==
    LET last == conn[c].hdr.mxFrame
    IN  [pgno |-> p, txn |-> txn, commit |-> commit, aSalt |-> conn[c].hdr.aSalt,
         prev |-> IF last = 0 THEN 0 ELSE file.wal[last].txn]

\* The pages that the writer has put into the log.
Written(c) == {info.aPgno[i] : i \in hdr.mxFrame + 1 .. conn[c].hdr.mxFrame}

AppendFrame(c, p, commit) ==
    LET i == conn[c].hdr.mxFrame + 1
    IN  /\ \/ conn[c].pc = "frames"
           \/ conn[c].pc = "write" /\ conn[c].readLock > 0 /\ i > 1
        /\ i <= MaxFrame /\ p \notin Written(c)
        /\ file' = WriteFrame(file, i, NewFrame(c, p, commit))
        /\ info' = [info EXCEPT !.aPgno = Appended(i, p)]
        /\ conn' = [conn EXCEPT ![c].pc = IF commit THEN "sealed" ELSE "frames",
                                ![c].hdr.mxFrame = i]
        /\ states' = IF ~commit THEN states ELSE
              [states EXCEPT !.db[txn] = [q \in Page |-> IF q \in Written(c) \cup {p} THEN txn
                                                         ELSE states.db[hdr.txn][q]]]
        /\ UNCHANGED <<hdr, locks, ckpt, salts, txn, crashes>>

\* The end of sqlite3WalFrames for a commit: the sync, then the header.
SyncFrames == IF SyncCommit THEN SyncWal(file) ELSE file

Commit(c) ==
    /\ conn[c].pc = "sealed"
    /\ hdr' = [conn[c].hdr EXCEPT !.isInit = TRUE, !.txn = txn]
    /\ file' = SyncFrames
    /\ states' = IF SyncCommit THEN [states EXCEPT !.floor = txn] ELSE states
    /\ locks' = [locks EXCEPT !.write = NoConn]
    /\ conn' = [conn EXCEPT ![c].pc = "read", ![c].hdr = hdr']
    /\ UNCHANGED <<info, ckpt, salts, txn, crashes>>

\* sqlite3WalUndo, at the user's will or after an error.
Rollback(c) ==
    /\ conn[c].pc \in {"write", "frames", "sealed"}
    /\ info' = [info EXCEPT !.aPgno =
           [i \in Frames |-> IF hdr.mxFrame < i /\ hdr.mxFrame > 0 THEN 0 ELSE @[i]]]
    /\ locks' = [locks EXCEPT !.write = NoConn]
    /\ conn' = [conn EXCEPT ![c].pc = "read", ![c].hdr = hdr]
    /\ UNCHANGED <<hdr, file, ckpt, salts, txn, crashes, states>>

-----------------------------------------------------------------------------
(* Checkpoints.  A blocking one holds WRITE when it gets it and, of the    *)
(* blocking modes, TRUNCATE is the one that changes the log at its end.    *)

Checkpointer(c, step) == conn[c].pc = "ckpt" /\ ckpt.step = step

\* sqlite3WalCheckpoint up to walIndexReadHdr.
CkptBegin(c) ==
    /\ conn[c].pc = "idle" /\ hdr.isInit /\ locks.ckpt = NoConn
    /\ \/ locks' = [locks EXCEPT !.ckpt = c]
       \/ locks.write = NoConn /\ locks' = [locks EXCEPT !.ckpt = c, !.write = c]
    /\ conn' = [conn EXCEPT ![c].pc = "ckpt", ![c].hdr = hdr]
    /\ ckpt' = [NoCkpt EXCEPT !.step = "compare", !.mxSafeFrame = hdr.mxFrame]
    /\ UNCHANGED <<hdr, info, file, salts, txn, crashes, states>>

CkptCompare(c) ==
    /\ Checkpointer(c, "compare")
    /\ ckpt' = [ckpt EXCEPT !.step = IF info.nBackfill < conn[c].hdr.mxFrame THEN "marks"
                                     ELSE "end"]
    /\ UNCHANGED <<hdr, info, locks, file, conn, salts, txn, crashes, states>>

\* A mark that is too old is moved if nobody reads at it, else the copy ends there.
CkptMark(c) ==
    LET i == ckpt.slot
        y == info.aReadMark[i]
        next == [ckpt EXCEPT !.slot = @ + 1]
    IN  /\ Checkpointer(c, "marks") /\ i <= NSlot
        /\ \/ /\ ckpt.mxSafeFrame <= y
              /\ ckpt' = next /\ UNCHANGED info
           \/ /\ ckpt.mxSafeFrame > y /\ Unlocked({i})
              /\ info' = [info EXCEPT !.aReadMark[i] =
                             IF i = 1 THEN ckpt.mxSafeFrame ELSE READMARK_NOT_USED]
              /\ ckpt' = next
           \/ /\ ckpt.mxSafeFrame > y /\ ~Unlocked({i})
              /\ ckpt' = [next EXCEPT !.mxSafeFrame = y] /\ UNCHANGED info
        /\ UNCHANGED <<hdr, locks, file, conn, salts, txn, crashes, states>>

\* walIteratorInit and the loop over it: of every page its last frame of the log,
\* if it is one to copy.
FramesToCopy(c) ==
    {i \in info.nBackfill + 1 .. ckpt.mxSafeFrame :
        \E p \in Page : i = LastFrame(p, 1, conn[c].hdr.mxFrame)}

\* The log not synced before the copy.
MutantSyncBeforeCopy == file

SyncBeforeCopy == SyncWal(file)

\* READ_LOCK(0), and the sync of the log.
CkptLockDb(c) ==
    /\ Checkpointer(c, "marks") /\ ckpt.slot > NSlot
    /\ IF info.nBackfill < ckpt.mxSafeFrame /\ Unlocked({0})
       THEN /\ locks' = [locks EXCEPT !.db = TRUE]
            /\ file' = SyncBeforeCopy
            /\ states' = [states EXCEPT !.floor = Max({@, hdr.txn})]
            /\ ckpt' = [ckpt EXCEPT !.step = "copy", !.todo = FramesToCopy(c)]
       ELSE /\ ckpt' = [ckpt EXCEPT !.step = "end"]
            /\ UNCHANGED <<locks, file, states>>
    /\ UNCHANGED <<hdr, info, conn, salts, txn, crashes>>

CkptCopy(c) ==
    /\ Checkpointer(c, "copy")
    /\ \E i \in ckpt.todo :
          /\ \A j \in ckpt.todo : info.aPgno[i] <= info.aPgno[j]
          /\ file' = WritePage(file, info.aPgno[i], file.wal[i].txn)
          /\ ckpt' = [ckpt EXCEPT !.todo = @ \ {i}]
    /\ UNCHANGED <<hdr, info, locks, conn, salts, txn, crashes, states>>

\* The database not synced.
MutantSyncCopied == file

\* The database is synced when the whole log is in it.
SyncCopied == IF ckpt.mxSafeFrame = hdr.mxFrame THEN SyncDb(file) ELSE file

CkptCopied(c) ==
    /\ Checkpointer(c, "copy") /\ ckpt.todo = {}
    /\ file' = SyncCopied
    /\ info' = [info EXCEPT !.nBackfill = ckpt.mxSafeFrame]
    /\ locks' = [locks EXCEPT !.db = FALSE]
    /\ ckpt' = [ckpt EXCEPT !.step = "end"]
    /\ UNCHANGED <<hdr, conn, salts, txn, crashes, states>>

\* An error or an interrupt in the loop.
CkptFails(c) ==
    /\ Checkpointer(c, "copy")
    /\ locks' = [locks EXCEPT !.db = FALSE]
    /\ ckpt' = [ckpt EXCEPT !.step = "done"]
    /\ UNCHANGED <<hdr, info, file, conn, salts, txn, crashes, states>>

\* SQLITE_CHECKPOINT_TRUNCATE: the log starts again and its file is emptied, which
\* for a recovery is to lose its header.
CkptTruncate(c) ==
    /\ Checkpointer(c, "end") /\ locks.write = c
    /\ info.nBackfill >= conn[c].hdr.mxFrame /\ Unlocked(Slot)
    /\ salts < MaxSalt
    /\ salts' = salts + 1
    /\ hdr' = Restarted(conn[c].hdr) /\ info' = RestartedInfo
    /\ file' = WriteSalt(file, 0)
    /\ ckpt' = [ckpt EXCEPT !.step = "done"]
    /\ UNCHANGED <<locks, conn, txn, crashes, states>>

CkptRelease(c) ==
    /\ conn[c].pc = "ckpt" /\ ckpt.step \in {"end", "done"}
    /\ locks' = [locks EXCEPT !.ckpt = NoConn,
                              !.write = IF @ = c THEN NoConn ELSE @]
    /\ conn' = [conn EXCEPT ![c] = Idle] /\ ckpt' = NoCkpt
    /\ UNCHANGED <<hdr, info, file, salts, txn, crashes, states>>

-----------------------------------------------------------------------------
(* Faults.                                                                 *)

\* The process of a writer or checkpointer dies; the others keep the wal-index.  That
\* of a reader does what ending its read transaction does.
Crash(c) ==
    /\ crashes < MaxCrash /\ c \in {locks.write, locks.ckpt}
    /\ crashes' = crashes + 1
    /\ conn' = [conn EXCEPT ![c] = Idle]
    /\ ckpt' = IF locks.ckpt = c THEN NoCkpt ELSE ckpt
    /\ locks' = [write |-> IF locks.write = c THEN NoConn ELSE locks.write,
                 ckpt |-> IF locks.ckpt = c THEN NoConn ELSE locks.ckpt,
                 db |-> locks.db /\ locks.ckpt # c]
    /\ UNCHANGED <<hdr, info, file, salts, txn, states>>

\* The files keep what was synced and any part of what was written since; the
\* wal-index is gone.
PowerLoss ==
    /\ crashes < MaxCrash
    /\ crashes' = crashes + 1
    /\ \E w \in {g \in [Frames -> UNION {file.walMay[i] : i \in Frames}] :
                    \A i \in Frames : g[i] \in file.walMay[i]},
          s \in file.saltMay,
          d \in {g \in [Page -> 0 .. Torn] : \A p \in Page : g[p] \in file.dbMay[p]} :
          file' = SyncDb(SyncWal([file EXCEPT !.wal = w, !.aSalt = s, !.db = d]))
    /\ hdr' = NoHdr /\ info' = NewInfo /\ ckpt' = NoCkpt
    /\ locks' = [write |-> NoConn, ckpt |-> NoConn, db |-> FALSE]
    /\ conn' = [c \in Connection |-> Idle]
    /\ UNCHANGED <<salts, txn, states>>

Next ==
    \/ \E c \in Connection :
          \/ walIndexRecover(c) \/ walIndexReadHdr(c)
          \/ TryLock0(c) \/ CheckLock0(c)
          \/ ChooseMark(c) \/ LockMark(c) \/ CheckMark(c)
          \/ sqlite3WalEndReadTransaction(c)
          \/ sqlite3WalBeginWriteTransaction(c) \/ walRestartLog(c) \/ WriteWalHdr(c)
          \/ \E p \in Page, commit \in BOOLEAN : AppendFrame(c, p, commit)
          \/ Commit(c) \/ Rollback(c)
          \/ CkptBegin(c) \/ CkptCompare(c) \/ CkptMark(c) \/ CkptLockDb(c)
          \/ CkptCopy(c) \/ CkptCopied(c) \/ CkptFails(c) \/ CkptTruncate(c)
          \/ CkptRelease(c)
          \/ Crash(c)
    \/ PowerLoss

Spec == Init /\ [][Next]_vars

-----------------------------------------------------------------------------
(* Properties.                                                             *)

(***************************************************************************)
(* A reader's database stays what its snapshot says, page by page, while   *)
(* others append, checkpoint, start the log again, crash.                  *)
(***************************************************************************)
SnapshotHeld ==
    \A c \in Connection : conn[c].pc \in {"read", "write"} =>
        \A p \in Page : PageRead(c, p) = states.db[conn[c].hdr.txn][p]

(***************************************************************************)
(* The log above nBackfill over the database file is the last commit: none *)
(* is lost by a checkpoint, a restart of the log, a crash or a recovery.   *)
(***************************************************************************)
CommitsKept ==
    hdr.isInit =>
        \A p \in Page : Content(p, info.nBackfill + 1, hdr.mxFrame) = states.db[hdr.txn][p]

(***************************************************************************)
(* After any power loss the wal-index is built for no transaction older    *)
(* than the last one that was synced, with the log or by a checkpoint.     *)
(***************************************************************************)
SyncedKept == hdr.isInit => hdr.txn >= states.floor

(***************************************************************************)
(* nBackfill "is never greater than WalIndexHdr.mxFrame" (wal.c:339).      *)
(***************************************************************************)
BackfillInLog == info.nBackfill <= hdr.mxFrame
=============================================================================
