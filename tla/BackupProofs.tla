---------------------------- MODULE BackupProofs ----------------------------
(***************************************************************************)
(* For databases of every size and any number of transactions, a backup    *)
(* that is done has copied one committed state of the source.              *)
(***************************************************************************)
EXTENDS Backup, TLAPS

\* What the source file holds in each state of the pager.  While it writes, pages
\* that have not reached the file are the committed ones there, or holes, and pages
\* of img behind the end of the committed database are new.
SourceInv ==
    /\ state = "OPEN" /\ ~hot => file = committed
    /\ state = "READER" => file = committed /\ img = committed /\ ~hot /\ ~stale
    /\ state = "WRITER" =>
          /\ ~hot /\ ~stale
          /\ \A p \in Pages(committed) : p \notin written => p <= Len(file) /\ file[p] = committed[p]
          /\ \A p \in Pages(file) : p \notin written /\ p > Len(committed) => file[p] = 0
          /\ \A p \in Pages(img) : p > Len(committed) => img[p] = txns
          /\ \A p \in written : p <= Len(file)
    /\ state # "WRITER" => written = {}
    /\ state = "ERROR" => hot

\* A backup that is not attached has copied nothing, or has ended.
AttachInv == backup.isAttached \/ backup.iNext = 1 \/ isFatalError(backup.rc)

IInv == TypeOK /\ SourceInv /\ AttachInv /\ CopyTracksSource
-----------------------------------------------------------------------------
(* Databases are sequences. *)

LEMMA DatabaseSeq ==
    ASSUME NEW s \in Database
    PROVE  Len(s) \in 0 .. MaxPage /\ s \in [1 .. Len(s) -> Value] /\ s \in Seq(Value)
BY BackupAssumption DEF Database

LEMMA PutDatabase ==
    ASSUME NEW s \in Database, NEW p \in Page, NEW v \in Value
    PROVE  /\ Put(s, p, v) \in Database
           /\ Len(Put(s, p, v)) = IF p > Len(s) THEN p ELSE Len(s)
           /\ Put(s, p, v)[p] = v
           /\ \A q \in 1 .. Len(s) : q # p => Put(s, p, v)[q] = s[q]
<1> DEFINE n == IF p > Len(s) THEN p ELSE Len(s)
<1>1. n \in 0 .. MaxPage /\ Len(s) \in Nat /\ p \in 1 .. n
  BY DatabaseSeq, BackupAssumption DEF Page
<1>2. Put(s, p, v) \in [1 .. n -> Value]
  BY DatabaseSeq, BackupAssumption DEF Put, Value
<1>3. Len(Put(s, p, v)) = n
  BY DatabaseSeq, BackupAssumption DEF Put, Value, Page
<1>4. QED
  BY <1>1, <1>2, <1>3 DEF Database, Put

LEMMA CutDatabase ==
    ASSUME NEW s \in Database, NEW n \in 0 .. Len(s)
    PROVE  [q \in 1 .. n |-> s[q]] \in Database
<1>1. n \in 0 .. MaxPage
  BY DatabaseSeq, BackupAssumption
<1>2. [q \in 1 .. n |-> s[q]] \in [1 .. n -> Value]
  BY DatabaseSeq
<1>3. QED
  BY <1>1, <1>2 DEF Database
-----------------------------------------------------------------------------
(* What the pager tells the backup *)

LEMMA RcType ==
    ASSUME NEW b \in BackupObject, NEW rc \in ResultCode
    PROVE  [b EXCEPT !.rc = rc] \in BackupObject
BY DEF BackupObject

LEMMA RcLockedType ==
    ASSUME NEW b \in BackupObject, NEW rc \in ResultCode
    PROVE  [b EXCEPT !.rc = rc, !.bDestLocked = TRUE] \in BackupObject
BY DEF BackupObject

LEMMA NextType ==
    ASSUME NEW b \in BackupObject, NEW i \in 1 .. MaxPage + 1
    PROVE  [b EXCEPT !.iNext = i] \in BackupObject
BY DEF BackupObject

LEMMA StepType ==
    ASSUME NEW b \in BackupObject, NEW i \in 1 .. MaxPage + 1, NEW rc \in ResultCode, NEW a \in BOOLEAN
    PROVE  [b EXCEPT !.iNext = i, !.rc = rc, !.bDestLocked = TRUE, !.isAttached = a] \in BackupObject
BY DEF BackupObject

LEMMA NoBackupType ==
    NoBackup \in BackupObject /\ [NoBackup EXCEPT !.isOpen = TRUE] \in BackupObject
<1>1. NoBackup \in BackupObject
  BY BackupAssumption DEF BackupObject, NoBackup, ResultCode
<1>2. QED
  BY <1>1, BackupAssumption DEF BackupObject, NoBackup, ResultCode

\* After sqlite3BackupUpdate the pages that were copied are those of s where P was
\* written, and the old ones elsewhere, unless the backup has ended.
LEMMA UpdateResult ==
    ASSUME TypeOK, NEW P \in SUBSET Page, NEW s \in Database, P \subseteq Pages(s),
           NEW r \in sqlite3BackupUpdate(P, s)
    PROVE  /\ r.b \in BackupObject /\ r.d \in [Page -> Value] /\ faults + r.n \in 0 .. MaxFault
           /\ r.b.isAttached = backup.isAttached /\ r.b.iNext = backup.iNext
           /\ r.b.isOpen = backup.isOpen
           /\ \/ /\ r.b = backup
                 /\ \A p \in Page : r.d[p] = IF p \in P /\ Copied(p) THEN s[p] ELSE dest[p]
              \/ r.b.rc = "ERROR" /\ r.d = dest
<1>1. backup \in BackupObject /\ [backup EXCEPT !.rc = "ERROR"] \in BackupObject
  BY RcType DEF TypeOK, ResultCode
<1>2. \A p \in P : s[p] \in Value
  BY DatabaseSeq DEF Pages
<1>3. CASE r = [b |-> backup, n |-> 0,
                d |-> [p \in Page |-> IF p \in P /\ Copied(p) THEN s[p] ELSE dest[p]]]
  <2>1. r.d \in [Page -> Value]
    BY <1>2, <1>3 DEF TypeOK
  <2>2. QED
    BY <1>1, <1>3, <2>1, BackupAssumption DEF TypeOK
<1>4. CASE faults < MaxFault /\ r = [b |-> [backup EXCEPT !.rc = "ERROR"], n |-> 1, d |-> dest]
  <2>1. /\ r.b.rc = "ERROR" /\ r.b.isAttached = backup.isAttached /\ r.b.iNext = backup.iNext
        /\ r.b.isOpen = backup.isOpen
    BY <1>1, <1>4 DEF BackupObject
  <2>2. QED
    BY <1>1, <1>4, <2>1, BackupAssumption DEF TypeOK
<1>5. QED
  BY <1>3, <1>4 DEF sqlite3BackupUpdate

LEMMA RestartResult ==
    ASSUME NEW b \in BackupObject
    PROVE  /\ sqlite3BackupRestart(b) \in BackupObject
           /\ sqlite3BackupRestart(b).isAttached = b.isAttached
           /\ sqlite3BackupRestart(b).rc = b.rc
           /\ b.isAttached => sqlite3BackupRestart(b).iNext = 1
           /\ ~b.isAttached => sqlite3BackupRestart(b) = b
<1>1. [b EXCEPT !.iNext = 1] \in BackupObject
  BY NextType, BackupAssumption
<1>2. /\ [b EXCEPT !.iNext = 1].isAttached = b.isAttached /\ [b EXCEPT !.iNext = 1].rc = b.rc
      /\ [b EXCEPT !.iNext = 1].iNext = 1
  BY DEF BackupObject
<1>3. QED
  BY <1>1, <1>2 DEF sqlite3BackupRestart

\* Once the source is locked, what has been copied is what the source holds.
LEMMA LockResult ==
    ASSUME IInv, state # "WRITER", NEW b \in LockResults
    PROVE  /\ b \in BackupObject
           /\ b.isAttached = backup.isAttached /\ b.rc = backup.rc
           /\ b.isAttached \/ b.iNext = backup.iNext
           /\ state # "ERROR" /\ b.isAttached /\ ~isFatalError(backup.rc) =>
                \A p \in Pages(committed) : p < b.iNext => dest[p] = committed[p]
<1>1. backup \in BackupObject /\ Pages(committed) \in SUBSET Page
  BY DatabaseSeq, BackupAssumption DEF IInv, TypeOK, Pages, Page
<1>2. CASE b = backup /\ (state = "OPEN" => ~stale)
  <2>1. state \notin {"OPEN", "ERROR"} => file = committed /\ ~hot /\ ~stale
    BY DEF IInv, TypeOK, SourceInv
  <2>2. QED
    BY <1>1, <1>2, <2>1 DEF IInv, CopyTracksSource, SourceInv
<1>3. CASE b = sqlite3BackupRestart(backup)
  <2>1. /\ b \in BackupObject /\ b.isAttached = backup.isAttached /\ b.rc = backup.rc
        /\ b.isAttached => b.iNext = 1
        /\ ~b.isAttached => b = backup
    BY <1>1, <1>3, RestartResult
  <2>2. ASSUME NEW p \in Pages(committed) PROVE ~(p < 1)
    BY DEF Pages
  <2>3. QED
    BY <2>1, <2>2
<1>4. QED
  BY <1>2, <1>3 DEF LockResults
-----------------------------------------------------------------------------
(* Every action keeps the invariant. *)

LEMMA PagesInPage == ASSUME NEW s \in Database PROVE Pages(s) \in SUBSET Page
BY DatabaseSeq, BackupAssumption DEF Pages, Page

LEMMA BeginReadKeeps ==
    ASSUME IInv, BeginRead PROVE IInv'
<1>1. /\ backup' \in BackupObject
      /\ backup'.isAttached = backup.isAttached /\ backup'.rc = backup.rc
      /\ backup'.isAttached \/ backup'.iNext = backup.iNext
      /\ backup'.isAttached /\ ~isFatalError(backup.rc) =>
           \A p \in Pages(committed) : p < backup'.iNext => dest[p] = committed[p]
  BY LockResult DEF BeginRead
<1>2. TypeOK'
  BY <1>1 DEF IInv, TypeOK, BeginRead, SourceLocked
<1>3. SourceInv'
  BY DEF IInv, SourceInv, BeginRead, SourceLocked, Pages
<1>4. AttachInv'
  BY <1>1 DEF IInv, AttachInv
<1>5. CopyTracksSource'
  BY <1>1 DEF CopyTracksSource, BeginRead, SourceLocked, Pages
<1>6. QED
  BY <1>2, <1>3, <1>4, <1>5 DEF IInv

LEMMA EndReadKeeps ==
    ASSUME IInv, EndRead PROVE IInv'
<1>1. TypeOK'
  BY DEF IInv, TypeOK, EndRead, destVars
<1>2. SourceInv'
  BY DEF IInv, TypeOK, SourceInv, EndRead, destVars
<1>3. AttachInv'
  BY DEF IInv, AttachInv, EndRead, destVars
<1>4. CopyTracksSource'
  BY DEF IInv, SourceInv, CopyTracksSource, EndRead, destVars
<1>5. QED
  BY <1>1, <1>2, <1>3, <1>4 DEF IInv

LEMMA BeginWriteKeeps ==
    ASSUME IInv, BeginWrite PROVE IInv'
<1>1. TypeOK'
  BY BackupAssumption DEF IInv, TypeOK, BeginWrite, destVars
<1>2. SourceInv'
  <2>1. Len(committed) \in Nat
    BY DatabaseSeq DEF IInv, TypeOK
  <2>2. QED
    BY <2>1 DEF IInv, TypeOK, SourceInv, BeginWrite, Pages
<1>3. AttachInv'
  BY DEF IInv, AttachInv, BeginWrite, Pages, destVars
<1>4. CopyTracksSource'
  BY DEF IInv, SourceInv, CopyTracksSource, BeginWrite, Pages, destVars
<1>5. QED
  BY <1>1, <1>2, <1>3, <1>4 DEF IInv

LEMMA ChangeKeeps ==
    ASSUME IInv, Change PROVE IInv'
<1>1. /\ img \in Database /\ Len(img) \in 0 .. MaxPage /\ committed \in Database
      /\ Len(committed) \in 0 .. MaxPage /\ txns \in 1 .. MaxTxn /\ txns \in Value
  BY DatabaseSeq, BackupAssumption DEF IInv, TypeOK, Value
<1>2. /\ img' \in Database
      /\ \A p \in Pages(img') : p > Len(committed) => img'[p] = txns
  <2>1. ASSUME NEW p \in 1 .. Len(img) + 1, p <= MaxPage, img' = Put(img, p, txns)
        PROVE  /\ img' \in Database
               /\ \A q \in Pages(img') : q > Len(committed) => img'[q] = txns
    <3>1. p \in Page
      BY <1>1, <2>1, BackupAssumption DEF Page
    <3>2. /\ img' \in Database /\ Len(img') = (IF p > Len(img) THEN p ELSE Len(img))
          /\ img'[p] = txns /\ \A q \in 1 .. Len(img) : q # p => img'[q] = img[q]
      BY <1>1, <2>1, <3>1, PutDatabase
    <3>3. ASSUME NEW q \in Pages(img'), q > Len(committed) PROVE img'[q] = txns
      <4>1. q = p \/ q \in 1 .. Len(img)
        BY <1>1, <3>1, <3>2, <2>1 DEF Pages, Page
      <4>2. QED
        BY <3>2, <3>3, <4>1 DEF IInv, SourceInv, Change, Pages
    <3>4. QED
      BY <3>2, <3>3
  <2>2. ASSUME Len(img) > 1, img' = [q \in 1 .. Len(img) - 1 |-> img[q]]
        PROVE  /\ img' \in Database
               /\ \A q \in Pages(img') : q > Len(committed) => img'[q] = txns
    <3>1. img' \in Database /\ Len(img') = Len(img) - 1
      <4>1. Len(img) - 1 \in 0 .. Len(img) /\ Len(img) - 1 \in Nat
        BY <1>1, <2>2
      <4>2. \A q \in 1 .. Len(img) - 1 : img[q] \in Value
        BY <1>1, DatabaseSeq
      <4>3. img' \in Database
        BY <1>1, <2>2, <4>1, CutDatabase
      <4>4. QED
        BY <2>2, <4>1, <4>2, <4>3
    <3>2. QED
      BY <1>1, <2>2, <3>1 DEF IInv, SourceInv, Change, Pages
  <2>3. QED
    BY <2>1, <2>2 DEF Change
<1>3. TypeOK'
  BY <1>2 DEF IInv, TypeOK, Change, destVars
<1>4. SourceInv'
  BY <1>2 DEF IInv, SourceInv, Change, Pages
<1>5. AttachInv'
  BY DEF IInv, AttachInv, Change, destVars
<1>6. CopyTracksSource'
  BY DEF IInv, CopyTracksSource, Change, destVars
<1>7. QED
  BY <1>3, <1>4, <1>5, <1>6 DEF IInv

LEMMA PagerWritePageKeeps ==
    ASSUME IInv, PagerWritePage PROVE IInv'
<1>1. PICK p \in Dirty :
        /\ file' = Put(file, p, img[p])
        /\ written' = written \cup {p}
        /\ \E r \in sqlite3BackupUpdate({p}, img) : Told(r)
  BY DEF PagerWritePage
<1>2. PICK r \in sqlite3BackupUpdate({p}, img) : Told(r)
  BY <1>1
<1>3. /\ file \in Database /\ img \in Database /\ p \in Page /\ p \in Pages(img) /\ img[p] \in Value
      /\ Len(file) \in Nat /\ committed \in Database /\ Len(committed) \in Nat
  BY DatabaseSeq, PagesInPage DEF IInv, TypeOK, Dirty, Pages
<1>4. /\ file' \in Database /\ Len(file') = (IF p > Len(file) THEN p ELSE Len(file))
      /\ file'[p] = img[p] /\ \A q \in 1 .. Len(file) : q # p => file'[q] = file[q]
      /\ \A q \in Pages(file') : q > Len(file) /\ q # p => file'[q] = 0
  BY <1>1, <1>3, PutDatabase DEF Pages, Put
<1>5. /\ r.b \in BackupObject /\ r.d \in [Page -> Value] /\ faults + r.n \in 0 .. MaxFault
      /\ r.b.isAttached = backup.isAttached /\ r.b.iNext = backup.iNext
      /\ \/ /\ r.b = backup
            /\ \A q \in Page : r.d[q] = IF q \in {p} /\ Copied(q) THEN img[q] ELSE dest[q]
         \/ r.b.rc = "ERROR" /\ r.d = dest
  <2>1. {p} \in SUBSET Page /\ {p} \subseteq Pages(img) /\ TypeOK
    BY <1>3 DEF IInv
  <2>2. QED
    BY <1>3, <2>1, UpdateResult
<1>6. /\ state = "WRITER" /\ ~hot /\ ~stale
      /\ UNCHANGED <<committed, state, img, hot, stale, txns, destFile, busy>>
  BY DEF IInv, SourceInv, PagerWritePage
<1>7. TypeOK'
  BY <1>1, <1>2, <1>3, <1>4, <1>5, <1>6 DEF IInv, TypeOK, Told
<1>8. SourceInv'
  <2>1. \A q \in Pages(committed) : q \notin written' => q <= Len(file') /\ file'[q] = committed[q]
    BY <1>1, <1>3, <1>4, <1>6 DEF IInv, SourceInv, Pages, Page
  <2>2. \A q \in Pages(file') : q \notin written' /\ q > Len(committed) => file'[q] = 0
    BY <1>1, <1>3, <1>4, <1>6 DEF IInv, SourceInv, Pages, Page
  <2>3. \A q \in written' : q <= Len(file')
    BY <1>1, <1>3, <1>4, <1>6 DEF IInv, TypeOK, SourceInv, Page
  <2>4. QED
    BY <1>6, <2>1, <2>2, <2>3 DEF IInv, SourceInv, Pages
<1>9. AttachInv'
  BY <1>2, <1>5 DEF IInv, AttachInv, Told, isFatalError
<1>10. CopyTracksSource'
  <2>1. SUFFICES ASSUME r.b = backup, backup.isAttached, ~isFatalError(backup.rc),
                        NEW q \in Pages(file'), q < backup.iNext,
                        q \in Pages(committed) \cup written'
                 PROVE  r.d[q] = file'[q]
    BY <1>2, <1>5, <1>6 DEF CopyTracksSource, Told, isFatalError, Pages
  <2>2. q \in Page
    BY <1>4, PagesInPage
  <2>3. CASE q = p
    BY <1>4, <1>5, <2>1, <2>2, <2>3 DEF Copied, isFatalError
  <2>4. CASE q # p /\ q \in Pages(file)
    BY <1>1, <1>4, <1>5, <1>6, <2>1, <2>2, <2>4 DEF IInv, CopyTracksSource, Pages, isFatalError
  <2>5. CASE q # p /\ q \notin Pages(file)
    BY <1>1, <1>3, <1>6, <2>1, <2>2, <2>5 DEF IInv, SourceInv, Pages, Page
  <2>6. QED
    BY <2>3, <2>4, <2>5
<1>11. QED
  BY <1>7, <1>8, <1>9, <1>10 DEF IInv

LEMMA CommitKeeps ==
    ASSUME IInv, Commit PROVE IInv'
<1>1. /\ img \in Database /\ file \in Database /\ Len(img) \in Nat /\ Len(file) \in Nat
      /\ Len(committed) \in Nat /\ txns \in 1 .. MaxTxn
  BY DatabaseSeq DEF IInv, TypeOK
<1>2. \A p \in Pages(img) : p <= Len(file) /\ img[p] = file[p]
  BY <1>1 DEF Commit, Dirty, Pages
<1>3. TypeOK'
  BY DEF IInv, TypeOK, Commit, EndWrite, destVars
<1>4. SourceInv'
  BY DEF IInv, SourceInv, Commit, EndWrite
<1>5. AttachInv'
  BY DEF IInv, AttachInv, Commit, destVars
<1>6. CopyTracksSource'
  <2>1. SUFFICES ASSUME backup.isAttached, ~isFatalError(backup.rc),
                        NEW p \in Pages(img), p < backup.iNext
                 PROVE  dest[p] = img[p]
    BY DEF IInv, SourceInv, CopyTracksSource, Commit, destVars, Pages
  <2>2. p \in Pages(file) /\ img[p] = file[p]
    BY <1>1, <1>2 DEF Pages
  <2>3. p \in Pages(committed) \cup written
    BY <1>1, <2>2 DEF IInv, SourceInv, Commit, Pages
  <2>4. QED
    BY <2>1, <2>2, <2>3 DEF IInv, SourceInv, CopyTracksSource, Commit
<1>7. QED
  BY <1>3, <1>4, <1>5, <1>6 DEF IInv

LEMMA RollbackKeeps ==
    ASSUME IInv, Rollback PROVE IInv'
<1> DEFINE P == written \cap Pages(committed)
<1>1. PICK r \in sqlite3BackupUpdate(P, committed) : Told(r)
  BY DEF Rollback
<1>2. /\ r.b \in BackupObject /\ r.d \in [Page -> Value] /\ faults + r.n \in 0 .. MaxFault
      /\ r.b.isAttached = backup.isAttached /\ r.b.iNext = backup.iNext
      /\ \/ /\ r.b = backup
            /\ \A q \in Page : r.d[q] = IF q \in P /\ Copied(q) THEN committed[q] ELSE dest[q]
         \/ r.b.rc = "ERROR" /\ r.d = dest
  <2>1. P \in SUBSET Page /\ P \subseteq Pages(committed) /\ TypeOK /\ committed \in Database
    BY DEF IInv, TypeOK
  <2>2. QED
    BY <2>1, UpdateResult
<1>3. TypeOK'
  BY <1>1, <1>2 DEF IInv, TypeOK, Rollback, EndWrite, Told
<1>4. SourceInv'
  BY DEF IInv, SourceInv, Rollback, EndWrite
<1>5. AttachInv'
  BY <1>1, <1>2 DEF IInv, AttachInv, Told, isFatalError
<1>6. CopyTracksSource'
  <2>1. SUFFICES ASSUME r.b = backup, backup.isAttached, ~isFatalError(backup.rc),
                        NEW p \in Pages(committed), p < backup.iNext
                 PROVE  r.d[p] = committed[p]
    BY <1>1, <1>2 DEF IInv, SourceInv, CopyTracksSource, Rollback, Told, isFatalError, Pages
  <2>2. p \in Page
    BY PagesInPage DEF IInv, TypeOK
  <2>3. CASE p \in written
    BY <1>2, <2>1, <2>2, <2>3 DEF Copied, isFatalError
  <2>4. CASE p \notin written
    <3>1. p \in Pages(file) /\ file[p] = committed[p]
      BY <2>4, DatabaseSeq DEF IInv, TypeOK, SourceInv, Rollback, Pages
    <3>2. dest[p] = file[p]
      BY <2>1, <3>1 DEF IInv, SourceInv, CopyTracksSource, Rollback
    <3>3. QED
      BY <1>2, <2>1, <2>2, <2>4, <3>1, <3>2 DEF isFatalError
  <2>5. QED
    BY <2>3, <2>4
<1>7. QED
  BY <1>3, <1>4, <1>5, <1>6 DEF IInv

LEMMA RollbackFailsKeeps ==
    ASSUME IInv, RollbackFails PROVE IInv'
<1>1. TypeOK'
  BY BackupAssumption DEF IInv, TypeOK, RollbackFails, destVars
<1>2. SourceInv' /\ AttachInv' /\ CopyTracksSource'
  BY DEF IInv, SourceInv, AttachInv, CopyTracksSource, RollbackFails, destVars
<1>3. QED
  BY <1>1, <1>2 DEF IInv

LEMMA ErrorUnlockKeeps ==
    ASSUME IInv, ErrorUnlock PROVE IInv'
<1>1. backup \in BackupObject /\ backup' = sqlite3BackupRestart(backup)
  BY DEF IInv, TypeOK, ErrorUnlock
<1>2. /\ backup' \in BackupObject /\ backup'.isAttached = backup.isAttached
      /\ backup'.rc = backup.rc /\ (backup.isAttached => backup'.iNext = 1)
      /\ ~backup.isAttached => backup' = backup
  BY <1>1, RestartResult
<1>3. TypeOK'
  BY <1>2 DEF IInv, TypeOK, ErrorUnlock
<1>4. SourceInv'
  BY DEF IInv, SourceInv, ErrorUnlock
<1>5. AttachInv'
  BY <1>2 DEF IInv, AttachInv
<1>6. CopyTracksSource'
  BY <1>2, DatabaseSeq DEF IInv, TypeOK, CopyTracksSource, ErrorUnlock, Pages
<1>7. QED
  BY <1>3, <1>4, <1>5, <1>6 DEF IInv

LEMMA RewrittenType ==
    ASSUME TypeOK, txns < MaxTxn, NEW s \in Rewritten
    PROVE  s \in Database
<1>1. PICK n \in 1 .. MaxPage : \E P \in (SUBSET (1 .. n)) \ {{}} :
        s = [p \in 1 .. n |-> IF p \in P \/ p > Len(committed) THEN txns + 1 ELSE committed[p]]
  BY DEF Rewritten
<1> PICK P \in SUBSET (1 .. n) :
        s = [p \in 1 .. n |-> IF p \in P \/ p > Len(committed) THEN txns + 1 ELSE committed[p]]
  BY <1>1
<1>2. txns + 1 \in Value /\ committed \in [1 .. Len(committed) -> Value] /\ Len(committed) \in Nat
  BY DatabaseSeq, BackupAssumption DEF TypeOK, Value
<1>3. \A p \in 1 .. n : ~(p > Len(committed)) => committed[p] \in Value
  BY <1>2
<1>4. s \in [1 .. n -> Value]
  BY <1>2, <1>3
<1>5. QED
  BY <1>4, BackupAssumption DEF Database

LEMMA OtherCommitsKeeps ==
    ASSUME IInv, OtherCommits PROVE IInv'
<1>1. file' \in Database /\ committed' = file' /\ txns' \in 1 .. MaxTxn
  BY RewrittenType, BackupAssumption DEF IInv, TypeOK, OtherCommits
<1>2. TypeOK'
  BY <1>1 DEF IInv, TypeOK, OtherCommits, destVars
<1>3. SourceInv' /\ AttachInv' /\ CopyTracksSource'
  BY <1>1 DEF IInv, SourceInv, AttachInv, CopyTracksSource, OtherCommits, destVars
<1>4. QED
  BY <1>2, <1>3 DEF IInv

LEMMA OtherCrashesKeeps ==
    ASSUME IInv, OtherCrashes PROVE IInv'
<1>1. file' \in Database /\ txns' \in 1 .. MaxTxn
  BY RewrittenType, BackupAssumption DEF IInv, TypeOK, OtherCrashes
<1>2. TypeOK'
  BY <1>1 DEF IInv, TypeOK, OtherCrashes, destVars
<1>3. SourceInv' /\ AttachInv' /\ CopyTracksSource'
  BY DEF IInv, SourceInv, AttachInv, CopyTracksSource, OtherCrashes, destVars, Pages
<1>4. QED
  BY <1>2, <1>3 DEF IInv

LEMMA OtherRecoversKeeps ==
    ASSUME IInv, OtherRecovers PROVE IInv'
<1>1. TypeOK'
  BY DEF IInv, TypeOK, OtherRecovers, destVars
<1>2. SourceInv' /\ AttachInv' /\ CopyTracksSource'
  BY DEF IInv, SourceInv, AttachInv, CopyTracksSource, OtherRecovers, destVars, Pages
<1>3. QED
  BY <1>1, <1>2 DEF IInv

LEMMA InitKeeps ==
    ASSUME IInv, sqlite3_backup_init PROVE IInv'
<1>1. backup' \in BackupObject /\ ~backup'.isAttached /\ backup'.iNext = 1
  BY NoBackupType DEF sqlite3_backup_init, NoBackup
<1>2. TypeOK'
  BY <1>1 DEF IInv, TypeOK, sqlite3_backup_init, srcVars
<1>3. SourceInv' /\ AttachInv' /\ CopyTracksSource'
  BY <1>1 DEF IInv, SourceInv, AttachInv, CopyTracksSource, sqlite3_backup_init, srcVars, Pages
<1>4. QED
  BY <1>2, <1>3 DEF IInv

LEMMA FinishKeeps ==
    ASSUME IInv, sqlite3_backup_finish PROVE IInv'
<1>1. backup' \in BackupObject /\ ~backup'.isAttached /\ backup'.iNext = 1
  BY NoBackupType DEF sqlite3_backup_finish, NoBackup
<1>2. TypeOK'
  BY <1>1 DEF IInv, TypeOK, sqlite3_backup_finish, srcVars
<1>3. SourceInv' /\ AttachInv' /\ CopyTracksSource'
  BY <1>1 DEF IInv, SourceInv, AttachInv, CopyTracksSource, sqlite3_backup_finish, srcVars, Pages
<1>4. QED
  BY <1>2, <1>3 DEF IInv

\* A call of sqlite3_backup_step that fails, or that another lock keeps out.
LEMMA SourceLockedKeeps ==
    ASSUME IInv, state # "WRITER", SourceLocked, UNCHANGED <<committed, state, written, txns>>
    PROVE  /\ SourceInv'
           /\ file' \in Database /\ img' \in Database /\ hot' \in BOOLEAN /\ stale' \in BOOLEAN
           /\ state # "ERROR" => file' = committed /\ ~hot' /\ ~stale'
BY DEF IInv, TypeOK, SourceInv, SourceLocked, Pages

LEMMA StepBusyKeeps ==
    ASSUME IInv, ~isFatalError(backup.rc), StepBusy PROVE IInv'
<1>1. CASE /\ busy' \in 0 .. MaxBusy
           /\ backup' = [backup EXCEPT !.rc = "BUSY"]
           /\ UNCHANGED <<srcVars, dest, faults, destFile>>
  <2>1. /\ backup' \in BackupObject /\ backup'.isAttached = backup.isAttached
        /\ backup'.iNext = backup.iNext
    BY <1>1, RcType DEF IInv, TypeOK, BackupObject, ResultCode
  <2>2. TypeOK'
    BY <1>1, <2>1 DEF IInv, TypeOK, srcVars
  <2>3. SourceInv' /\ AttachInv' /\ CopyTracksSource'
    BY <1>1, <2>1 DEF IInv, SourceInv, AttachInv, CopyTracksSource, srcVars, Pages, isFatalError
  <2>4. QED
    BY <2>2, <2>3 DEF IInv
<1>2. ASSUME state # "WRITER", busy' \in 0 .. MaxBusy, SourceLocked,
             UNCHANGED <<committed, state, written, txns, dest, destFile, faults>>,
             NEW b \in LockResults, backup' = [b EXCEPT !.rc = "BUSY"]
      PROVE  IInv'
  <2>1. /\ b \in BackupObject
        /\ b.isAttached = backup.isAttached /\ b.rc = backup.rc
        /\ b.isAttached \/ b.iNext = backup.iNext
        /\ state # "ERROR" /\ b.isAttached /\ ~isFatalError(backup.rc) =>
             \A p \in Pages(committed) : p < b.iNext => dest[p] = committed[p]
    BY <1>2, LockResult
  <2>2. /\ backup' \in BackupObject /\ backup'.isAttached = b.isAttached
        /\ backup'.iNext = b.iNext
    BY <1>2, <2>1, RcType DEF BackupObject, ResultCode
  <2>3. /\ SourceInv'
        /\ file' \in Database /\ img' \in Database /\ hot' \in BOOLEAN /\ stale' \in BOOLEAN
        /\ state # "ERROR" => file' = committed /\ ~hot' /\ ~stale'
    BY <1>2, SourceLockedKeeps
  <2>4. TypeOK'
    BY <1>2, <2>1, <2>2, <2>3 DEF IInv, TypeOK
  <2>5. AttachInv'
    BY <2>1, <2>2 DEF IInv, AttachInv
  <2>6. CopyTracksSource'
    BY <1>2, <2>1, <2>2, <2>3 DEF CopyTracksSource, Pages
  <2>7. QED
    BY <2>3, <2>4, <2>5, <2>6 DEF IInv
<1>3. busy \in 0 .. MaxBusy /\ MaxBusy \in Nat
  BY BackupAssumption DEF IInv, TypeOK
<1>4. QED
  BY <1>1, <1>2, <1>3 DEF StepBusy

LEMMA StepFailsKeeps ==
    ASSUME IInv, StepFails PROVE IInv'
<1>1. PICK b \in LockResults : backup' = [b EXCEPT !.rc = "ERROR", !.bDestLocked = TRUE]
  BY DEF StepFails
<1>2. b \in BackupObject
  BY LockResult DEF StepFails
<1>3. backup' \in BackupObject /\ backup'.rc = "ERROR" /\ faults' \in 0 .. MaxFault
  <2>1. backup' \in BackupObject
    BY <1>1, <1>2, RcLockedType DEF ResultCode
  <2>2. backup'.rc = "ERROR"
    BY <1>1, <1>2 DEF BackupObject
  <2>3. faults' \in 0 .. MaxFault
    BY BackupAssumption DEF StepFails, IInv, TypeOK
  <2>4. QED
    BY <2>1, <2>2, <2>3
<1>4. SourceInv' /\ file' \in Database /\ img' \in Database /\ hot' \in BOOLEAN /\ stale' \in BOOLEAN
  BY SourceLockedKeeps DEF StepFails
<1>5. TypeOK'
  BY <1>1, <1>2, <1>3, <1>4 DEF IInv, TypeOK, StepFails
<1>6. AttachInv' /\ CopyTracksSource'
  BY <1>3 DEF AttachInv, CopyTracksSource, isFatalError
<1>7. QED
  BY <1>4, <1>5, <1>6 DEF IInv

\* What sqlite3_backup_step leaves in the destination, and what it commits there once
\* the last page is copied.
LEMMA StepCopiesResult ==
    ASSUME IInv, NEW n \in 1 .. MaxPage, ~isFatalError(backup.rc), StepCopies(n)
    PROVE  /\ backup' \in BackupObject /\ dest' \in [Page -> Value]
           /\ faults' \in 0 .. MaxFault /\ destFile' \in Database
           /\ backup'.isAttached \/ backup'.rc = "DONE"
           /\ \A p \in Pages(committed) : p < backup'.iNext => dest'[p] = committed[p]
           /\ backup'.rc = "DONE" => destFile' = IF Len(committed) = 0 THEN <<0>> ELSE committed
<1>1. PICK b \in LockResults :
         LET next == Reached(b, n)
             copy == [p \in Page |-> IF p \in b.iNext .. next - 1 THEN committed[p] ELSE dest[p]]
             done == next > Len(committed)
         IN  /\ dest' = copy
             /\ backup' = [b EXCEPT !.iNext = next, !.rc = IF done THEN "DONE" ELSE "OK",
                                    !.bDestLocked = TRUE, !.isAttached = @ \/ ~done]
             /\ destFile' = IF done THEN FinalCopy(copy) ELSE destFile
  BY DEF StepCopies
<1> DEFINE next == Reached(b, n)
           done == next > Len(committed)
<1>2. /\ committed \in Database /\ Len(committed) \in 0 .. MaxPage /\ MaxPage \in Nat
      /\ committed \in [1 .. Len(committed) -> Value] /\ state \in {"OPEN", "READER"}
      /\ backup \in BackupObject /\ dest \in [Page -> Value]
  BY DatabaseSeq, BackupAssumption DEF IInv, TypeOK, StepCopies
<1>3. /\ b \in BackupObject
      /\ b.isAttached = backup.isAttached
      /\ b.isAttached \/ b.iNext = backup.iNext
      /\ b.isAttached =>
           \A p \in Pages(committed) : p < b.iNext => dest[p] = committed[p]
  BY <1>2, LockResult
<1>4. b.iNext \in 1 .. MaxPage + 1 /\ b.isAttached \in BOOLEAN
  BY <1>3 DEF BackupObject
<1>5. /\ next \in 1 .. MaxPage + 1
      /\ next - 1 <= Len(committed) \/ next = b.iNext
  BY <1>2, <1>4 DEF Reached
<1>6. /\ backup' \in BackupObject /\ backup'.iNext = next
      /\ backup'.rc = (IF done THEN "DONE" ELSE "OK")
      /\ backup'.isAttached = (b.isAttached \/ ~done)
  <2>1. (IF done THEN "DONE" ELSE "OK") \in ResultCode /\ (b.isAttached \/ ~done) \in BOOLEAN
    BY DEF ResultCode
  <2>2. backup' = [b EXCEPT !.iNext = next, !.rc = IF done THEN "DONE" ELSE "OK",
                              !.bDestLocked = TRUE, !.isAttached = (b.isAttached \/ ~done)]
    BY <1>1, <1>3 DEF BackupObject
  <2>3. QED
    BY <1>3, <1>5, <2>1, <2>2, StepType DEF BackupObject
<1>7. \A p \in Page : dest'[p] = IF p \in b.iNext .. next - 1 THEN committed[p] ELSE dest[p]
  BY <1>1
<1>8. dest' \in [Page -> Value]
  <2>1. \A p \in Page : p \in b.iNext .. next - 1 => committed[p] \in Value
    BY <1>2, <1>4, <1>5 DEF Page
  <2>2. QED
    BY <1>1, <1>2, <2>1
<1>9. ASSUME NEW p \in Pages(committed), p < next PROVE dest'[p] = committed[p]
  <2>1. p \in Page /\ p \in Nat
    BY <1>2 DEF Page, Pages
  <2>2. CASE p \in b.iNext .. next - 1
    BY <1>7, <2>1, <2>2
  <2>3. CASE p \notin b.iNext .. next - 1
    <3>1. p < b.iNext
      BY <1>4, <1>5, <1>9, <2>1, <2>3
    <3>2. b.isAttached
      BY <1>2, <1>3, <2>1, <3>1 DEF IInv, AttachInv, Pages
    <3>3. QED
      BY <1>3, <1>7, <1>9, <2>1, <2>3, <3>1, <3>2
  <2>4. QED
    BY <2>2, <2>3
<1>10. done => destFile' = IF Len(committed) = 0 THEN <<0>> ELSE committed
  <2>1. SUFFICES ASSUME done, Len(committed) # 0 PROVE destFile' = committed
    BY <1>1 DEF FinalCopy
  <2>2. destFile' = [p \in Pages(committed) |-> dest'[p]]
    BY <1>1, <2>1 DEF FinalCopy
  <2>3. \A p \in Pages(committed) : dest'[p] = committed[p]
    BY <1>2, <1>5, <1>9, <2>1 DEF Pages
  <2>4. committed = [p \in Pages(committed) |-> committed[p]]
    BY <1>2 DEF Pages
  <2>5. QED
    BY <2>2, <2>3, <2>4
<1>11. destFile' \in Database
  <2>1. CASE done /\ Len(committed) = 0
    <3>1. MaxPage >= 1 /\ <<0>> \in [1 .. 1 -> Value]
      BY BackupAssumption DEF Value
    <3>2. QED
      BY <1>2, <1>10, <2>1, <3>1 DEF Database
  <2>2. CASE done /\ Len(committed) # 0
    BY <1>2, <1>10, <2>2
  <2>3. CASE ~done
    BY <1>1, <2>3 DEF IInv, TypeOK
  <2>4. QED
    BY <2>1, <2>2, <2>3
<1>12. faults' \in 0 .. MaxFault
  BY DEF StepCopies, IInv, TypeOK
<1>13. backup'.isAttached \/ backup'.rc = "DONE"
  BY <1>6
<1>14. backup'.rc = "DONE" => done
  BY <1>6
<1>15. QED
  BY <1>6, <1>8, <1>9, <1>10, <1>11, <1>12, <1>13, <1>14

LEMMA StepCopiesKeeps ==
    ASSUME IInv, NEW n \in 1 .. MaxPage, ~isFatalError(backup.rc), StepCopies(n) PROVE IInv'
<1>1. /\ backup' \in BackupObject /\ dest' \in [Page -> Value]
      /\ faults' \in 0 .. MaxFault /\ destFile' \in Database
      /\ backup'.isAttached \/ backup'.rc = "DONE"
      /\ \A p \in Pages(committed) : p < backup'.iNext => dest'[p] = committed[p]
  BY StepCopiesResult
<1>2. /\ SourceInv'
      /\ file' \in Database /\ img' \in Database /\ hot' \in BOOLEAN /\ stale' \in BOOLEAN
      /\ file' = committed /\ ~hot' /\ ~stale'
  BY SourceLockedKeeps DEF StepCopies
<1>3. TypeOK'
  BY <1>1, <1>2 DEF IInv, TypeOK, StepCopies
<1>4. AttachInv'
  BY <1>1 DEF AttachInv, isFatalError
<1>5. CopyTracksSource'
  BY <1>1, <1>2 DEF CopyTracksSource, StepCopies, Pages
<1>6. QED
  BY <1>2, <1>3, <1>4, <1>5 DEF IInv

LEMMA Inductive == IInv /\ [Next]_vars => IInv'
<1> SUFFICES ASSUME IInv, [Next]_vars PROVE IInv'
  OBVIOUS
<1>1. ASSUME NEW n \in 1 .. MaxPage, sqlite3_backup_step(n) PROVE IInv'
  BY <1>1, StepBusyKeeps, StepFailsKeeps, StepCopiesKeeps DEF sqlite3_backup_step
<1>2. CASE UNCHANGED vars
  BY <1>2 DEF vars, srcVars, destVars, IInv, TypeOK, SourceInv, AttachInv, CopyTracksSource, Pages
<1>3. QED
  BY <1>1, <1>2, BeginReadKeeps, EndReadKeeps, BeginWriteKeeps, ChangeKeeps, PagerWritePageKeeps,
     CommitKeeps, RollbackKeeps, RollbackFailsKeeps, ErrorUnlockKeeps, OtherCommitsKeeps,
     OtherCrashesKeeps, OtherRecoversKeeps, InitKeeps, FinishKeeps DEF Next

LEMMA Initially == Init => IInv
<1> SUFFICES ASSUME Init PROVE IInv
  OBVIOUS
<1>1. PICK n \in InitSizes : file = [p \in 1 .. n |-> 1]
  BY DEF Init
<1>2. file \in Database
  BY <1>1, BackupAssumption DEF Database, Value
<1>3. destFile \in Database
  <2>1. destFile \in [1 .. DestSize -> Value]
    BY BackupAssumption DEF Init, Value
  <2>2. QED
    BY <2>1, BackupAssumption DEF Database
<1>4. backup \in BackupObject /\ ~backup.isAttached /\ backup.iNext = 1
  BY NoBackupType DEF Init, NoBackup
<1>5. TypeOK
  <2>1. dest \in [Page -> Value] /\ txns \in 1 .. MaxTxn /\ faults \in 0 .. MaxFault
        /\ busy \in 0 .. MaxBusy
    BY BackupAssumption DEF Init, Value
  <2>2. QED
    BY <1>2, <1>3, <1>4, <2>1 DEF Init, TypeOK
<1>6. SourceInv /\ AttachInv /\ CopyTracksSource
  BY <1>4 DEF Init, SourceInv, AttachInv, CopyTracksSource
<1>7. QED
  BY <1>5, <1>6 DEF IInv

LEMMA Invariance == Spec => []IInv
<1>1. Init => IInv
  BY Initially
<1>2. IInv /\ [Next]_vars => IInv'
  BY Inductive
<1>3. QED
  BY <1>1, <1>2, PTL DEF Spec
-----------------------------------------------------------------------------
\* What the pager tells the backup may end it with an error, never with success.
LEMMA UpdateNotDone ==
    ASSUME backup \in BackupObject, NEW P, NEW s, NEW r \in sqlite3BackupUpdate(P, s)
    PROVE  r.b.rc = backup.rc \/ r.b.rc = "ERROR"
BY DEF sqlite3BackupUpdate, BackupObject

LEMMA LockNotDone ==
    ASSUME backup \in BackupObject, NEW b \in LockResults
    PROVE  b.rc = backup.rc
BY RestartResult DEF LockResults

LEMMA OnlyStepIsDone ==
    ASSUME IInv, [Next]_vars, backup'.rc = "DONE", backup.rc # "DONE"
    PROVE  \E n \in 1 .. MaxPage : ~isFatalError(backup.rc) /\ StepCopies(n)
<1>1. backup \in BackupObject
  BY DEF IInv, TypeOK
<1>2. CASE \/ BeginRead \/ PagerWritePage \/ Rollback
  BY <1>1, <1>2, LockNotDone, UpdateNotDone DEF BeginRead, PagerWritePage, Rollback, Told
<1>3. CASE \/ EndRead \/ BeginWrite \/ Change \/ Commit \/ RollbackFails
           \/ OtherCommits \/ OtherCrashes \/ OtherRecovers \/ UNCHANGED vars
  BY <1>3 DEF EndRead, BeginWrite, Change, Commit, RollbackFails, OtherCommits, OtherCrashes,
              OtherRecovers, vars, destVars
<1>4. CASE ErrorUnlock
  BY <1>1, <1>4, RestartResult DEF ErrorUnlock
<1>5. CASE sqlite3_backup_init \/ sqlite3_backup_finish
  BY <1>5 DEF sqlite3_backup_init, sqlite3_backup_finish, NoBackup
<1>6. ASSUME NEW n \in 1 .. MaxPage, sqlite3_backup_step(n)
      PROVE  \E m \in 1 .. MaxPage : ~isFatalError(backup.rc) /\ StepCopies(m)
  <2>1. CASE StepBusy
    <3>1. CASE backup' = [backup EXCEPT !.rc = "BUSY"]
      BY <1>1, <3>1 DEF BackupObject
    <3>2. ASSUME state # "WRITER", NEW b \in LockResults, backup' = [b EXCEPT !.rc = "BUSY"]
          PROVE FALSE
      <4>1. b \in BackupObject
        BY <3>2, LockResult
      <4>2. QED
        BY <3>2, <4>1 DEF BackupObject
    <3>3. QED
      BY <2>1, <3>1, <3>2 DEF StepBusy
  <2>2. CASE StepFails
    <3>1. PICK b \in LockResults : backup' = [b EXCEPT !.rc = "ERROR", !.bDestLocked = TRUE]
      BY <2>2 DEF StepFails
    <3>2. b \in BackupObject
      BY <2>2, LockResult DEF StepFails
    <3>3. QED
      BY <3>1, <3>2 DEF BackupObject
  <2>3. QED
    BY <1>6, <2>1, <2>2 DEF sqlite3_backup_step
<1>7. QED
  BY <1>2, <1>3, <1>4, <1>5, <1>6 DEF Next
-----------------------------------------------------------------------------
\* For any sizes, every variable keeps its type: iNext never runs past the page behind
\* the largest database, whatever is written, rolled back and restarted meanwhile.
THEOREM TypeCorrect == Spec => []TypeOK
BY Invariance, PTL DEF IInv

\* The pages that sqlite3_backup_step has copied stay those of the source file, though
\* the source connection writes, spills and rolls back between the calls, and hot
\* journals are played back.
THEOREM CopyStaysCurrent == Spec => []CopyTracksSource
BY Invariance, PTL DEF IInv

\* When sqlite3_backup_step returns SQLITE_DONE the destination holds exactly one
\* committed state of the source.
THEOREM BackupIsSnapshot == Spec => DoneIsSnapshot
<1>1. IInv /\ [Next]_vars =>
        [backup'.rc = "DONE" /\ backup.rc # "DONE" =>
           destFile' = IF Len(committed) = 0 THEN <<0>> ELSE committed]_vars
  BY OnlyStepIsDone, StepCopiesResult
<1>2. QED
  BY <1>1, Invariance, PTL DEF Spec, DoneIsSnapshot
=============================================================================
