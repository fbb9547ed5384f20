------------------------------- MODULE Backup -------------------------------
(***************************************************************************)
(* The online backup (backup.c): a source database is copied page by page  *)
(* into a destination while connections go on writing to the source.  The  *)
(* pager of the source connection tells the backup about every page it     *)
(* writes to the file (sqlite3BackupUpdate), and that it has lost track    *)
(* (sqlite3BackupRestart); other connections tell nobody.                  *)
(*                                                                         *)
(* A database is a sequence of pages, a page the number of the transaction *)
(* that last wrote it.  A call holds the mutex of the source from its      *)
(* start to its end, so each is one step; other processes come in between. *)
(***************************************************************************)
EXTENDS Naturals, Sequences

CONSTANTS
    InitSizes,  \* the sizes the source may have at first
    DestSize,   \* the size of the destination at first
    MaxPage,    \* bound on the size of a database
    MaxTxn,     \* bound on transactions of all connections; the first made the source
    MaxFault,   \* bound on failing calls
    MaxBusy     \* bound on locks that another process holds

ASSUME BackupAssumption ==
    /\ MaxPage \in Nat /\ MaxTxn \in Nat \ {0} /\ MaxFault \in Nat /\ MaxBusy \in Nat
    /\ InitSizes \subseteq 0 .. MaxPage
    /\ DestSize \in 0 .. MaxPage

Page == 1 .. MaxPage
Value == 0 .. MaxTxn
Database == UNION {[1 .. n -> Value] : n \in 0 .. MaxPage}

VARIABLES
    file,       \* the source file
    committed,  \* the source as of the last commit
    state,      \* of the source pager: OPEN, READER, WRITER or ERROR
    img,        \* the database as the transaction of the source pager sees it
    written,    \* the pages of that transaction that reached the file
    hot,        \* whether the source has a hot journal, which restores committed
    stale,      \* another process has committed since the pager held a lock
    backup,     \* the sqlite3_backup object
    dest,       \* the pages of the destination within its write transaction
    destFile,   \* the destination as of its last commit
    txns, faults, busy

srcVars == <<file, committed, state, img, written, hot, stale, txns>>
destVars == <<backup, dest, destFile>>
vars == <<srcVars, destVars, faults, busy>>

ResultCode == {"OK", "BUSY", "DONE", "ERROR"}
BackupObject == [isOpen : BOOLEAN, iNext : 1 .. MaxPage + 1, rc : ResultCode,
                 isAttached : BOOLEAN, bDestLocked : BOOLEAN]
NoBackup == [isOpen |-> FALSE, iNext |-> 1, rc |-> "OK",
             isAttached |-> FALSE, bDestLocked |-> FALSE]

TypeOK ==
    /\ file \in Database /\ committed \in Database /\ img \in Database
    /\ state \in {"OPEN", "READER", "WRITER", "ERROR"}
    /\ written \subseteq Page
    /\ hot \in BOOLEAN /\ stale \in BOOLEAN
    /\ backup \in BackupObject
    /\ dest \in [Page -> Value]
    /\ destFile \in Database
    /\ txns \in 1 .. MaxTxn /\ faults \in 0 .. MaxFault /\ busy \in 0 .. MaxBusy

Init ==
    /\ \E n \in InitSizes : file = [p \in 1 .. n |-> 1]
    /\ committed = file /\ img = file
    /\ state = "OPEN" /\ written = {} /\ hot = FALSE /\ stale = FALSE
    /\ backup = NoBackup
    /\ dest = [p \in Page |-> 0]
    /\ destFile = [p \in 1 .. DestSize |-> 0]
    /\ txns = 1 /\ faults = 0 /\ busy = 0

-----------------------------------------------------------------------------
(* What the pager of the source tells the backup *)

isFatalError(rc) == rc \notin {"OK", "BUSY"}

\* The last page that was copied is left out.
MutantCopied(p) == backup.isAttached /\ ~isFatalError(backup.rc) /\ p + 1 < backup.iNext

\* A page that has been copied already, of a backup that goes on.
Copied(p) == backup.isAttached /\ ~isFatalError(backup.rc) /\ p < backup.iNext

\* sqlite3BackupUpdate: the pages P are written to the source file with the contents
\* of s, and copied again.  The results: one is that a copy fails, which ends the
\* backup.
sqlite3BackupUpdate(P, s) ==
    {[b |-> backup, n |-> 0,
      d |-> [p \in Page |-> IF p \in P /\ Copied(p) THEN s[p] ELSE dest[p]]]}
    \cup {[b |-> [backup EXCEPT !.rc = "ERROR"], n |-> 1, d |-> dest] :
            x \in {p \in P : Copied(p) /\ faults < MaxFault}}

\* Pages are counted from zero.
MutantBackupRestart(b) == IF b.isAttached THEN [b EXCEPT !.iNext = 0] ELSE b

sqlite3BackupRestart(b) == IF b.isAttached THEN [b EXCEPT !.iNext = 1] ELSE b

\* The backup goes on with result r.
Told(r) == backup' = r.b /\ dest' = r.d /\ faults' = faults + r.n
-----------------------------------------------------------------------------
(* The source connection *)

Pages(s) == 1 .. Len(s)

\* Page p of a database is written, which may make it longer.
Put(s, p, v) ==
    [q \in 1 .. (IF p > Len(s) THEN p ELSE Len(s)) |->
        IF q = p THEN v ELSE IF q <= Len(s) THEN s[q] ELSE 0]

\* Every lock starts the backup again.
MutantLockResults ==
    IF state # "OPEN" THEN {backup} ELSE {sqlite3BackupRestart(backup)}

\* Whether the playback of a hot journal drops the cache (pager_reset), which it does
\* at the first record.  The journal has a record of every page that differs from the
\* committed one, and may have none if no page does.
PlaybackResets ==
    IF ~hot THEN {FALSE}
    ELSE IF \E p \in Pages(committed) : p > Len(file) \/ file[p] # committed[p] THEN {TRUE}
    ELSE BOOLEAN

\* sqlite3PagerSharedLock, if the source is not locked: a hot journal is played back
\* and, if another process has written the file, the cache is reset.  The playback
\* starts the backup again before it writes a page, so that no page is copied anew.
LockResults ==
    IF state # "OPEN" THEN {backup}
    ELSE {IF stale \/ reset THEN sqlite3BackupRestart(backup) ELSE backup :
            reset \in PlaybackResets}

SourceLocked ==
    IF state = "OPEN"
    THEN file' = committed /\ img' = committed /\ hot' = FALSE /\ stale' = FALSE
    ELSE UNCHANGED <<file, img, hot, stale>>

BeginRead ==
    /\ state = "OPEN"
    /\ SourceLocked
    /\ backup' \in LockResults
    /\ state' = "READER"
    /\ UNCHANGED <<committed, written, txns, dest, destFile, faults, busy>>

EndRead ==
    /\ state = "READER"
    /\ state' = "OPEN"
    /\ UNCHANGED <<file, committed, img, written, hot, stale, txns, destVars, faults, busy>>

BeginWrite ==
    /\ state = "READER" /\ txns < MaxTxn
    /\ state' = "WRITER"
    /\ txns' = txns + 1
    /\ UNCHANGED <<file, committed, img, written, hot, stale, destVars, faults, busy>>

\* Pages are changed, added or dropped in the cache.
Change ==
    /\ state = "WRITER"
    /\ \/ \E p \in 1 .. Len(img) + 1 : p <= MaxPage /\ img' = Put(img, p, txns)
       \/ Len(img) > 1 /\ img' = [q \in 1 .. Len(img) - 1 |-> img[q]]
    /\ UNCHANGED <<file, committed, state, written, hot, stale, txns, destVars, faults, busy>>

\* Not yet in the file.
Dirty == {p \in Pages(img) : p > Len(file) \/ img[p] # file[p]}

\* The cache is full, or the commit is at this page.
PagerWritePage ==
    /\ state = "WRITER"
    /\ \E p \in Dirty :
         /\ file' = Put(file, p, img[p])
         /\ written' = written \cup {p}
         /\ \E r \in sqlite3BackupUpdate({p}, img) : Told(r)
    /\ UNCHANGED <<committed, state, img, hot, stale, txns, destFile, busy>>

\* The connection goes on reading, or not.
EndWrite == state' \in {"READER", "OPEN"} /\ written' = {}

Commit ==
    /\ state = "WRITER" /\ Dirty = {}
    /\ file' = img /\ committed' = img
    /\ EndWrite
    /\ UNCHANGED <<img, hot, stale, txns, destVars, faults, busy>>

\* The backup is not told of what playback writes.
MutantRollback ==
    /\ state = "WRITER"
    /\ file' = committed /\ img' = committed
    /\ EndWrite
    /\ UNCHANGED <<committed, hot, stale, txns, destVars, faults, busy>>

\* pager_playback writes the originals back; the file is cut to its size.
Rollback ==
    /\ state = "WRITER"
    /\ file' = committed /\ img' = committed
    /\ \E r \in sqlite3BackupUpdate(written \cap Pages(committed), committed) : Told(r)
    /\ EndWrite
    /\ UNCHANGED <<committed, hot, stale, txns, destFile, busy>>

\* The pager is in ERROR and leaves its journal behind.
RollbackFails ==
    /\ state = "WRITER" /\ faults < MaxFault
    /\ faults' = faults + 1
    /\ state' = "ERROR" /\ hot' = TRUE /\ written' = {}
    /\ UNCHANGED <<file, committed, img, stale, txns, destVars, busy>>

\* pager_unlock drops the cache of a pager in ERROR.
ErrorUnlock ==
    /\ state = "ERROR"
    /\ state' = "OPEN"
    /\ backup' = sqlite3BackupRestart(backup)
    /\ UNCHANGED <<file, committed, img, written, hot, stale, txns, dest, destFile, faults, busy>>
-----------------------------------------------------------------------------
(* Other processes, which find the source unlocked *)

\* What a transaction can make of the file.
Rewritten ==
    UNION {{[p \in 1 .. n |-> IF p \in P \/ p > Len(committed) THEN txns + 1 ELSE committed[p]] :
              P \in (SUBSET (1 .. n)) \ {{}}} : n \in 1 .. MaxPage}

OtherCommits ==
    /\ state = "OPEN" /\ txns < MaxTxn
    /\ txns' = txns + 1
    /\ \E s \in Rewritten : file' = s /\ committed' = s
    /\ hot' = FALSE /\ stale' = TRUE
    /\ UNCHANGED <<state, img, written, destVars, faults, busy>>

OtherCrashes ==
    /\ state = "OPEN" /\ txns < MaxTxn
    /\ txns' = txns + 1
    /\ \E s \in Rewritten : file' = s
    /\ hot' = TRUE
    /\ UNCHANGED <<committed, state, img, written, stale, destVars, faults, busy>>

OtherRecovers ==
    /\ state = "OPEN" /\ hot
    /\ file' = committed /\ hot' = FALSE
    /\ UNCHANGED <<committed, state, img, written, stale, txns, destVars, faults, busy>>
-----------------------------------------------------------------------------
(* The backup *)

sqlite3_backup_init ==
    /\ ~backup.isOpen
    /\ backup' = [NoBackup EXCEPT !.isOpen = TRUE]
    /\ UNCHANGED <<srcVars, dest, destFile, faults, busy>>

\* SQLITE_BUSY: the source is being written, or another process has it or the
\* destination locked.
StepBusy ==
    /\ \/ /\ \/ state = "WRITER" /\ UNCHANGED busy
             \/ state = "OPEN" /\ busy < MaxBusy /\ busy' = busy + 1
          /\ backup' = [backup EXCEPT !.rc = "BUSY"]
          /\ UNCHANGED <<srcVars, dest, faults>>
       \/ /\ state # "WRITER" /\ ~backup.bDestLocked /\ busy < MaxBusy /\ busy' = busy + 1
          /\ SourceLocked
          /\ \E b \in LockResults : backup' = [b EXCEPT !.rc = "BUSY"]
          /\ UNCHANGED <<committed, state, written, txns, dest, faults>>
    /\ UNCHANGED destFile

\* A page cannot be read or written, or the commit of the destination fails.
StepFails ==
    /\ state # "WRITER"
    /\ SourceLocked
    /\ \/ state = "ERROR" /\ UNCHANGED faults
       \/ faults < MaxFault /\ faults' = faults + 1
    /\ \E b \in LockResults : backup' = [b EXCEPT !.rc = "ERROR", !.bDestLocked = TRUE]
    /\ UNCHANGED <<committed, state, written, txns, dest, destFile, busy>>

\* The first page after the n pages of this call.
Reached(b, n) ==
    IF b.iNext > Len(committed) THEN b.iNext
    ELSE IF b.iNext + n > Len(committed) THEN Len(committed) + 1 ELSE b.iNext + n

\* The destination is not cut to the size of the source.
MutantFinalCopy(d) == d

\* The destination is cut to the size of the source; an empty source makes an empty
\* database of one page.
FinalCopy(d) == IF Len(committed) = 0 THEN <<0>> ELSE [p \in Pages(committed) |-> d[p]]

\* n pages are copied; after the last one the destination is cut to the size of the
\* source and committed.  A read transaction that was opened here is closed.
StepCopies(n) ==
    /\ state \in {"OPEN", "READER"}
    /\ SourceLocked
    /\ \E b \in LockResults :
         LET next == Reached(b, n)
             copy == [p \in Page |-> IF p \in b.iNext .. next - 1 THEN committed[p] ELSE dest[p]]
             done == next > Len(committed)
         IN  /\ dest' = copy
             /\ backup' = [b EXCEPT !.iNext = next, !.rc = IF done THEN "DONE" ELSE "OK",
                                    !.bDestLocked = TRUE, !.isAttached = @ \/ ~done]
             /\ destFile' = IF done THEN FinalCopy(copy) ELSE destFile
    /\ UNCHANGED <<committed, state, written, txns, faults, busy>>

sqlite3_backup_step(n) ==
    /\ backup.isOpen /\ ~isFatalError(backup.rc)
    /\ StepBusy \/ StepFails \/ StepCopies(n)

\* What was not committed to the destination is rolled back.
sqlite3_backup_finish ==
    /\ backup.isOpen
    /\ backup' = NoBackup
    /\ UNCHANGED <<srcVars, dest, destFile, faults, busy>>

Next ==
    \/ BeginRead \/ EndRead \/ BeginWrite \/ Change \/ PagerWritePage \/ Commit \/ Rollback
    \/ RollbackFails \/ ErrorUnlock
    \/ OtherCommits \/ OtherCrashes \/ OtherRecovers
    \/ sqlite3_backup_init \/ sqlite3_backup_finish
    \/ \E n \in 1 .. MaxPage : sqlite3_backup_step(n)

Spec == Init /\ [][Next]_vars

\* The caller calls again, and transactions end.
FairSpec ==
    /\ Spec
    /\ WF_vars(sqlite3_backup_step(1)) /\ WF_vars(Rollback) /\ WF_vars(ErrorUnlock)
-----------------------------------------------------------------------------
\* As long as the pager knows the file, the pages copied so far are what the file
\* holds, or will hold after recovery, whatever the source connection has written,
\* spilled and rolled back since.  (A page that no transaction wrote yet, though one
\* behind it has been spilled, is a hole in the file and not a page.)
CopyTracksSource ==
    backup.isAttached /\ ~isFatalError(backup.rc) /\ ~stale /\ state # "ERROR" =>
        LET s == IF hot THEN committed ELSE file
        IN  \A p \in Pages(s) :
              p < backup.iNext /\ p \in Pages(committed) \cup written => dest[p] = s[p]

\* A backup that is done has made the destination a copy of one committed state of
\* the source, the one of that moment, though it was copied over many calls.
DoneIsSnapshot ==
    [][backup'.rc = "DONE" /\ backup.rc # "DONE" =>
         destFile' = IF Len(committed) = 0 THEN <<0>> ELSE committed]_vars

\* A backup whose caller goes on calling sqlite3_backup_step comes to an end once
\* the writers of the source have: a transaction of another process and the recovery of
\* one that failed make it start again, a lock does not.
BackupEnds == [](backup.isOpen => <>(~backup.isOpen \/ isFatalError(backup.rc)))
=============================================================================
