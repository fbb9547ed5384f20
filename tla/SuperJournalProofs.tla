-------------------------- MODULE SuperJournalProofs --------------------------
(***************************************************************************)
(* A transaction over any number of database files is whole in all of them *)
(* or in none, for every sequence of failures and power losses.            *)
(*                                                                         *)
(* AllOrNone speaks of the contents the next connection will see, and is   *)
(* not inductive: whether a journal is rolled back depends on its super-   *)
(* journal, so the invariant says of every file, and of every original in  *)
(* a journal, which transactions it may hold (Clean) and must hold (Full), *)
(* and ties both to the steps of vdbeCommit (PartInv) and of the playback  *)
(* (RecInv).  One lemma per action, and in it one step per conjunct.       *)
(***************************************************************************)
EXTENDS SuperJournal, TLAPS

\* A transaction is being committed, its commit point not yet passed.

Committing == pc \in {"txn", "create", "names", "phaseOne", "delete"}

\* What a database file or the original in its journal may hold, and must hold:
\* no transaction of several files that is not committed, and all that are.
Clean(S, d) == \A t \in S : t <= cur /\ (t \in committed \/ members[t] \subseteq {d})
Full(S, d) == \A t \in committed : d \in members[t] => t \in S

\* A journal that may be found after a power loss.
JournalInv(d) ==
    /\ Clean(jrnl[d].orig, d)
    /\ \A t \in committed : d \in members[t] =>
          t \in jrnl[d].orig \/ (jrnl[d].ptr = t /\ jrnl[d].sure)
    /\ jrnl[d].ptr # 0 =>
          /\ jrnl[d].ptr <= cur
          /\ d \in names[jrnl[d].ptr]
          /\ super[jrnl[d].ptr] # "open"
          /\ jrnl[d].ptr = cur /\ Committing => NeedsSuper /\ pc \in {"phaseOne", "delete"}

\* Without a journal to roll back, the file is as it should be; with one that was
\* never synced, the file has not been touched.
FileInv(d) ==
    /\ ~RollsBack(d) => ~dirty[d] /\ Clean(file[d], d) /\ Full(file[d], d)
    /\ \A t \in file[d] : t <= cur
    /\ jrnl[d].state = "open" => ~dirty[d] /\ file[d] = jrnl[d].orig /\ ~jrnl[d].sure

\* A file of the transaction in progress.
PartInv(d) ==
    /\ Committing =>
          /\ Exists(d)
          /\ jrnl[d].ptr # 0 =>
                jrnl[d].ptr = cur /\ NeedsSuper /\ pc \in {"phaseOne", "delete"}
          /\ stage[d] = "ready" => ~dirty[d] /\ file[d] = jrnl[d].orig \cup {cur}
          /\ stage[d] # "ready" => file[d] = jrnl[d].orig
          /\ stage[d] \in {"synced", "written", "ready"} => jrnl[d].state = "synced" /\ jrnl[d].sure
          /\ stage[d] # "start" => pc \in {"phaseOne", "delete"} /\ (NeedsSuper => jrnl[d].ptr = cur)
    /\ pc = "delete" => stage[d] = "ready"
    /\ pc = "phaseTwo" => Exists(d) /\ ~dirty[d] /\ Clean(file[d], d) /\ Full(file[d], d)

\* A file that is being rolled back.
RecInv(d) ==
    /\ rec[d] # "idle" => d \notin part \/ pc = "rollback"
    /\ rec[d] \in {"playback", "sync", "end"} => RollsBack(d)
    /\ rec[d] = "end" => ~dirty[d] /\ file[d] = jrnl[d].orig
    /\ rec[d] = "cold" => Exists(d) /\ Cold(d)
    /\ rec[d] = "delmaster" => jrnl[d].state = "deleted" /\ jrnl[d].ptr # 0

TxnInv ==
    /\ pc = "idle" => part = {}
    /\ pc # "idle" => cur # 0
    /\ \A t \in committed : t <= cur /\ super[t] = "absent"
    /\ Committing => members[cur] = part /\ cur \notin committed
    /\ pc \in {"create", "names", "delete"} => NeedsSuper
    /\ pc \in {"names", "phaseOne", "delete"} /\ NeedsSuper => names[cur] = part
    /\ pc \in {"phaseOne", "delete"} /\ NeedsSuper => super[cur] = "synced"

IInv ==
    /\ TypeOK
    /\ \A d \in DB : jrnl[d].state # "absent" => JournalInv(d)
    /\ \A d \in DB : FileInv(d)
    /\ \A d \in part : PartInv(d)
    /\ \A d \in DB : RecInv(d)
    /\ TxnInv

-----------------------------------------------------------------------------
(* Every action keeps the invariant. *)

USE SuperJournalAssumption DEF Txn, There, FileState, Exists, Cold, RollsBack, NeedsSuper,
   Committing

LEMMA JournalTypes ==
    ASSUME NEW j \in Journal, NEW s \in FileState, NEW p \in 0 .. MaxTxn, NEW b \in BOOLEAN
    PROVE  /\ [j EXCEPT !.state = s] \in Journal
           /\ [j EXCEPT !.state = s, !.sure = b] \in Journal
           /\ [j EXCEPT !.ptr = p, !.sure = b] \in Journal
           /\ [j EXCEPT !.state = s, !.ptr = p, !.sure = b] \in Journal
BY DEF Journal

LEMMA BeginKeeps ==
    ASSUME NEW T \in SUBSET DB, IInv, Begin(T) PROVE IInv'
<1>1. TypeOK'
  BY DEF IInv, TypeOK, Journal, Begin
<1>2. ASSUME NEW e \in DB, jrnl'[e].state # "absent" PROVE JournalInv(e)'
  BY <1>2, <1>1 DEF IInv, TypeOK, JournalInv, FileInv, TxnInv, Clean, Full, Journal, Begin
<1>3. ASSUME NEW e \in DB PROVE FileInv(e)'
  BY <1>1 DEF IInv, TypeOK, FileInv, Clean, Full, Begin
<1>4. ASSUME NEW e \in part' PROVE PartInv(e)'
  BY <1>1 DEF PartInv, Begin
<1>5. ASSUME NEW e \in DB PROVE RecInv(e)'
  BY <1>1 DEF IInv, RecInv, Begin
<1>6. TxnInv'
  BY <1>1 DEF IInv, TypeOK, TxnInv, Begin
<1>7. QED
  BY <1>1, <1>2, <1>3, <1>4, <1>5, <1>6 DEF IInv

LEMMA SpillKeeps ==
    ASSUME NEW d \in DB, IInv, Spill(d) PROVE IInv'
<1>1. TypeOK'
  <2>1. [jrnl[d] EXCEPT !.state = "synced"] \in Journal
    BY JournalTypes DEF IInv, TypeOK
  <2>2. jrnl' \in [DB -> Journal]
    BY <2>1 DEF IInv, TypeOK, Spill
  <2>3. QED
    BY <2>2 DEF IInv, TypeOK, Spill, progVars
<1>2. ASSUME NEW e \in DB, jrnl'[e].state # "absent" PROVE JournalInv(e)'
  BY <1>2, <1>1 DEF IInv, JournalInv, PartInv, Clean, Spill
<1>3. ASSUME NEW e \in DB PROVE FileInv(e)'
  BY <1>1 DEF IInv, TypeOK, FileInv, PartInv, Clean, Full, Spill
<1>4. ASSUME NEW e \in part' PROVE PartInv(e)'
  BY <1>1 DEF IInv, PartInv, Spill, progVars
<1>5. ASSUME NEW e \in DB PROVE RecInv(e)'
  BY <1>1 DEF IInv, RecInv, Spill, progVars
<1>6. TxnInv'
  BY <1>1 DEF IInv, TxnInv, Spill, progVars
<1>7. QED
  BY <1>1, <1>2, <1>3, <1>4, <1>5, <1>6 DEF IInv

LEMMA RollbackKeeps ==
    ASSUME IInv, Rollback PROVE IInv'
<1>1. TypeOK'
  BY DEF IInv, TypeOK, Rollback, RollbackAll, diskVars
<1>2. ASSUME NEW e \in DB, jrnl'[e].state # "absent" PROVE JournalInv(e)'
  BY <1>2, <1>1 DEF IInv, JournalInv, Clean, Rollback, RollbackAll, diskVars
<1>3. ASSUME NEW e \in DB PROVE FileInv(e)'
  BY <1>1 DEF IInv, FileInv, Clean, Full, Rollback, RollbackAll, diskVars
<1>4. ASSUME NEW e \in part' PROVE PartInv(e)'
  BY <1>1 DEF PartInv, Rollback, RollbackAll
<1>5. ASSUME NEW e \in DB PROVE RecInv(e)'
  BY <1>1 DEF IInv, RecInv, Rollback, RollbackAll, diskVars
<1>6. TxnInv'
  BY <1>1 DEF IInv, TxnInv, Rollback, RollbackAll, diskVars
<1>7. QED
  BY <1>1, <1>2, <1>3, <1>4, <1>5, <1>6 DEF IInv

LEMMA vdbeCommitKeeps ==
    ASSUME IInv, vdbeCommit PROVE IInv'
<1>1. TypeOK'
  BY DEF IInv, TypeOK, vdbeCommit, diskVars
<1>2. ASSUME NEW e \in DB, jrnl'[e].state # "absent" PROVE JournalInv(e)'
  BY <1>2, <1>1 DEF IInv, JournalInv, Clean, vdbeCommit, diskVars
<1>3. ASSUME NEW e \in DB PROVE FileInv(e)'
  BY <1>1 DEF IInv, FileInv, Clean, Full, vdbeCommit, diskVars
<1>4. ASSUME NEW e \in part' PROVE PartInv(e)'
  BY <1>1 DEF IInv, PartInv, vdbeCommit, diskVars
<1>5. ASSUME NEW e \in DB PROVE RecInv(e)'
  BY <1>1 DEF IInv, RecInv, vdbeCommit, diskVars
<1>6. TxnInv'
  BY <1>1 DEF IInv, TxnInv, vdbeCommit, diskVars
<1>7. QED
  BY <1>1, <1>2, <1>3, <1>4, <1>5, <1>6 DEF IInv

LEMMA CreateSuperKeeps ==
    ASSUME IInv, CreateSuper PROVE IInv'
<1>1. TypeOK'
  BY DEF IInv, TypeOK, JournalInv, TxnInv, RecInv, Journal, CreateSuper, Fault, RollbackAll
<1>2. ASSUME NEW e \in DB, jrnl'[e].state # "absent" PROVE JournalInv(e)'
  BY <1>2, <1>1 DEF IInv, TypeOK, JournalInv, Clean, Journal, CreateSuper, Fault, RollbackAll
<1>3. ASSUME NEW e \in DB PROVE FileInv(e)'
  BY <1>1 DEF IInv, TypeOK, JournalInv, FileInv, Clean, Full, Journal, CreateSuper, Fault,
     RollbackAll
<1>4. ASSUME NEW e \in part' PROVE PartInv(e)'
  BY <1>1 DEF IInv, PartInv, CreateSuper, Fault, RollbackAll
<1>5. ASSUME NEW e \in DB PROVE RecInv(e)'
  BY <1>1 DEF IInv, TypeOK, JournalInv, RecInv, Journal, CreateSuper, Fault, RollbackAll
<1>6. TxnInv'
  BY <1>1 DEF IInv, TypeOK, TxnInv, CreateSuper, Fault, RollbackAll
<1>7. QED
  BY <1>1, <1>2, <1>3, <1>4, <1>5, <1>6 DEF IInv

LEMMA SyncSuperKeeps ==
    ASSUME IInv, SyncSuper PROVE IInv'
<1>1. TypeOK'
  BY DEF IInv, TypeOK, RecInv, Journal, SyncSuper, Fault, RollbackAll
<1>2. ASSUME NEW e \in DB, jrnl'[e].state # "absent" PROVE JournalInv(e)'
  BY <1>2, <1>1 DEF IInv, TypeOK, JournalInv, Clean, Journal, SyncSuper, Fault, RollbackAll
<1>3. ASSUME NEW e \in DB PROVE FileInv(e)'
  BY <1>1 DEF IInv, TypeOK, JournalInv, FileInv, Clean, Full, Journal, SyncSuper, Fault,
     RollbackAll
<1>4. ASSUME NEW e \in part' PROVE PartInv(e)'
  BY <1>1 DEF IInv, PartInv, SyncSuper, Fault, RollbackAll
<1>5. ASSUME NEW e \in DB PROVE RecInv(e)'
  BY <1>1 DEF IInv, TypeOK, JournalInv, RecInv, Journal, SyncSuper, Fault, RollbackAll
<1>6. TxnInv'
  BY <1>1 DEF IInv, TypeOK, TxnInv, SyncSuper, Fault, RollbackAll
<1>7. QED
  BY <1>1, <1>2, <1>3, <1>4, <1>5, <1>6 DEF IInv

\* One step of sqlite3BtreeCommitPhaseOne, that succeeds or fails.
PhaseOneStep(d) ==
    /\ pc = "phaseOne" /\ d \in part
    /\ pc' \in {"phaseOne", "rollback"}
    /\ faults' \in 0 .. MaxFault
    /\ UNCHANGED <<super, names, part, rec, members, cur, committed, losses>>

LEMMA WriteMasterJournalKeeps ==
    ASSUME NEW d \in DB, PhaseOneStep(d), IInv, WriteMasterJournal(d) PROVE IInv'
<1>1. TypeOK'
  <2>1. [jrnl[d] EXCEPT !.ptr = cur, !.sure = FALSE] \in Journal
    BY JournalTypes DEF IInv, TypeOK
  <2>2. jrnl' \in [DB -> Journal]
    BY <2>1 DEF IInv, TypeOK, PhaseOneStep, WriteMasterJournal
  <2>3. QED
    BY <2>2 DEF IInv, TypeOK, PhaseOneStep, WriteMasterJournal
<1>2. ASSUME NEW e \in DB, jrnl'[e].state # "absent" PROVE JournalInv(e)'
  <2>1. CASE e = d
    <3>1. JournalInv(e) /\ PartInv(e) /\ e \in part
      BY <2>1 DEF IInv, PartInv, PhaseOneStep, WriteMasterJournal
    <3>2. CASE NeedsSuper
      <4>1. jrnl'[e] = [jrnl[e] EXCEPT !.ptr = cur, !.sure = FALSE]
        BY <2>1, <3>2 DEF IInv, TypeOK, PhaseOneStep, WriteMasterJournal
      <4>2. jrnl'[e].orig = jrnl[e].orig /\ jrnl'[e].ptr = cur
        BY <4>1 DEF IInv, TypeOK, Journal
      <4>3. cur \notin committed /\ names[cur] = part /\ super[cur] = "synced" /\ cur \in Nat
        BY <3>2 DEF IInv, TypeOK, TxnInv, PhaseOneStep, WriteMasterJournal
      <4>4. \A t \in committed : e \in members[t] => t \in jrnl[e].orig
        BY <3>1, <4>3 DEF JournalInv, PartInv, IInv, TypeOK, PhaseOneStep, WriteMasterJournal
      <4>5. /\ UNCHANGED <<super, names, part, members, cur, committed>>
            /\ pc' \in {"phaseOne", "rollback"} /\ NeedsSuper' /\ e \in part
        BY <3>1, <3>2 DEF PhaseOneStep, WriteMasterJournal
      <4>6. Clean(jrnl[e].orig, e)'
        BY <3>1, <4>2, <4>5 DEF JournalInv, Clean
      <4>7. QED
        BY <4>2, <4>3, <4>4, <4>5, <4>6 DEF JournalInv, Committing
    <3>3. CASE ~NeedsSuper
      BY <3>1, <3>3 DEF JournalInv, Clean, PhaseOneStep, WriteMasterJournal
    <3>4. QED
      BY <3>2, <3>3
  <2>2. CASE e # d
    BY <1>2, <2>2 DEF IInv, TypeOK, JournalInv, Clean, PhaseOneStep, WriteMasterJournal
  <2>3. QED
    BY <2>1, <2>2
<1>3. ASSUME NEW e \in DB PROVE FileInv(e)'
  BY <1>1 DEF IInv, TypeOK, FileInv, TxnInv, Clean, Full, PhaseOneStep, WriteMasterJournal
<1>4. ASSUME NEW e \in part' PROVE PartInv(e)'
  BY <1>1 DEF IInv, TypeOK, PartInv, PhaseOneStep, WriteMasterJournal
<1>5. ASSUME NEW e \in DB PROVE RecInv(e)'
  BY <1>1 DEF IInv, TypeOK, JournalInv, RecInv, PhaseOneStep, WriteMasterJournal
<1>6. TxnInv'
  BY <1>1 DEF IInv, TxnInv, PhaseOneStep, WriteMasterJournal
<1>7. QED
  BY <1>1, <1>2, <1>3, <1>4, <1>5, <1>6 DEF IInv

LEMMA SyncJournalKeeps ==
    ASSUME NEW d \in DB, PhaseOneStep(d), IInv, SyncJournal(d) PROVE IInv'
<1>1. TypeOK'
  <2>1. [jrnl[d] EXCEPT !.state = "synced", !.sure = TRUE] \in Journal
    BY JournalTypes DEF IInv, TypeOK
  <2>2. jrnl' \in [DB -> Journal]
    BY <2>1 DEF IInv, TypeOK, PhaseOneStep, SyncJournal
  <2>3. QED
    BY <2>2 DEF IInv, TypeOK, PhaseOneStep, SyncJournal
<1>2. ASSUME NEW e \in DB, jrnl'[e].state # "absent" PROVE JournalInv(e)'
  BY <1>2, <1>1 DEF IInv, TypeOK, JournalInv, PartInv, Clean, Full, PhaseOneStep, SyncJournal
<1>3. ASSUME NEW e \in DB PROVE FileInv(e)'
  BY <1>1 DEF IInv, TypeOK, FileInv, Clean, Full, PhaseOneStep, SyncJournal
<1>4. ASSUME NEW e \in part' PROVE PartInv(e)'
  BY <1>1 DEF IInv, TypeOK, PartInv, PhaseOneStep, SyncJournal
<1>5. ASSUME NEW e \in DB PROVE RecInv(e)'
  BY <1>1 DEF IInv, TypeOK, RecInv, PhaseOneStep, SyncJournal
<1>6. TxnInv'
  BY <1>1 DEF IInv, TxnInv, PhaseOneStep, SyncJournal
<1>7. QED
  BY <1>1, <1>2, <1>3, <1>4, <1>5, <1>6 DEF IInv

LEMMA WritePagesKeeps ==
    ASSUME NEW d \in DB, PhaseOneStep(d), IInv, WritePages(d) PROVE IInv'
<1>1. TypeOK'
  BY DEF IInv, TypeOK, JournalInv, TxnInv, RecInv, NoJournal, Journal, PhaseOneStep, WritePages
<1>2. ASSUME NEW e \in DB, jrnl'[e].state # "absent" PROVE JournalInv(e)'
  BY <1>2, <1>1 DEF IInv, JournalInv, Clean, PhaseOneStep, WritePages
<1>3. ASSUME NEW e \in DB PROVE FileInv(e)'
  BY <1>1 DEF IInv, FileInv, PartInv, TxnInv, Clean, Full, PhaseOneStep, WritePages
<1>4. ASSUME NEW e \in part' PROVE PartInv(e)'
  BY <1>1 DEF IInv, PartInv, PhaseOneStep, WritePages
<1>5. ASSUME NEW e \in DB PROVE RecInv(e)'
  BY <1>1 DEF IInv, RecInv, PhaseOneStep, WritePages
<1>6. TxnInv'
  BY <1>1 DEF IInv, TxnInv, PhaseOneStep, WritePages
<1>7. QED
  BY <1>1, <1>2, <1>3, <1>4, <1>5, <1>6 DEF IInv

LEMMA SyncFileKeeps ==
    ASSUME NEW d \in DB, PhaseOneStep(d), IInv, SyncFile(d) PROVE IInv'
<1>1. TypeOK'
  BY DEF IInv, TypeOK, JournalInv, TxnInv, RecInv, NoJournal, Journal, PhaseOneStep, SyncFile
<1>2. ASSUME NEW e \in DB, jrnl'[e].state # "absent" PROVE JournalInv(e)'
  BY <1>2, <1>1 DEF IInv, JournalInv, Clean, PhaseOneStep, SyncFile
<1>3. ASSUME NEW e \in DB PROVE FileInv(e)'
  BY <1>1 DEF IInv, TypeOK, FileInv, PartInv, TxnInv, Clean, Full, PhaseOneStep, SyncFile
<1>4. ASSUME NEW e \in part' PROVE PartInv(e)'
  BY <1>1 DEF IInv, TypeOK, PartInv, PhaseOneStep, SyncFile
<1>5. ASSUME NEW e \in DB PROVE RecInv(e)'
  BY <1>1 DEF IInv, RecInv, PhaseOneStep, SyncFile
<1>6. TxnInv'
  BY <1>1 DEF IInv, TxnInv, PhaseOneStep, SyncFile
<1>7. QED
  BY <1>1, <1>2, <1>3, <1>4, <1>5, <1>6 DEF IInv

LEMMA NothingKeeps ==
    ASSUME NEW d \in DB, PhaseOneStep(d), IInv, UNCHANGED <<stage, jrnl, dirty, file>> PROVE IInv'
<1>1. TypeOK'
  BY DEF IInv, TypeOK, JournalInv, TxnInv, RecInv, NoJournal, Journal, PhaseOneStep
<1>2. ASSUME NEW e \in DB, jrnl'[e].state # "absent" PROVE JournalInv(e)'
  BY <1>2, <1>1 DEF IInv, JournalInv, Clean, PhaseOneStep
<1>3. ASSUME NEW e \in DB PROVE FileInv(e)'
  BY <1>1 DEF IInv, FileInv, Clean, Full, PhaseOneStep
<1>4. ASSUME NEW e \in part' PROVE PartInv(e)'
  BY <1>1 DEF IInv, PartInv, PhaseOneStep
<1>5. ASSUME NEW e \in DB PROVE RecInv(e)'
  BY <1>1 DEF IInv, RecInv, PhaseOneStep
<1>6. TxnInv'
  BY <1>1 DEF IInv, TxnInv, PhaseOneStep
<1>7. QED
  BY <1>1, <1>2, <1>3, <1>4, <1>5, <1>6 DEF IInv

LEMMA PhaseOneKeeps ==
    ASSUME NEW d \in DB, IInv, PhaseOne(d) PROVE IInv'
<1>1. PhaseOneStep(d)
  BY DEF PhaseOne, PhaseOneStep, Fault, IInv, TypeOK
<1>2. \/ WriteMasterJournal(d) \/ SyncJournal(d) \/ WritePages(d) \/ SyncFile(d)
      \/ UNCHANGED <<stage, jrnl, dirty, file>>
  BY DEF PhaseOne
<1>3. QED
  BY <1>1, <1>2, WriteMasterJournalKeeps, SyncJournalKeeps, WritePagesKeeps, SyncFileKeeps,
     NothingKeeps

LEMMA PhaseOneDoneKeeps ==
    ASSUME IInv, PhaseOneDone PROVE IInv'
<1>1. TypeOK'
  BY DEF IInv, TypeOK, PhaseOneDone, diskVars
<1>2. ASSUME NEW e \in DB, jrnl'[e].state # "absent" PROVE JournalInv(e)'
  BY <1>2, <1>1 DEF IInv, JournalInv, Clean, PhaseOneDone, diskVars
<1>3. ASSUME NEW e \in DB PROVE FileInv(e)'
  BY <1>1 DEF IInv, FileInv, Clean, Full, PhaseOneDone, diskVars
<1>4. ASSUME NEW e \in part' PROVE PartInv(e)'
  <2>1. /\ e \in part /\ e \in DB /\ PartInv(e) /\ JournalInv(e)
        /\ stage[e] = "ready" /\ jrnl[e].state = "synced"
        /\ file[e] = jrnl[e].orig \cup {cur} /\ ~dirty[e]
    BY DEF IInv, TypeOK, PartInv, PhaseOneDone
  <2>2. CASE NeedsSuper
    BY <2>1, <2>2 DEF PartInv, PhaseOneDone, diskVars
  <2>3. CASE ~NeedsSuper
    <3>1. members[cur] \subseteq {e} /\ cur \in Nat /\ jrnl[e].ptr = 0
      BY <2>1, <2>3 DEF IInv, TypeOK, TxnInv, PartInv, PhaseOneDone
    <3>2. Clean(file[e], e)
      BY <2>1, <3>1 DEF JournalInv, Clean
    <3>3. Full(file[e], e)
      BY <2>1, <3>1 DEF IInv, TypeOK, JournalInv, Full
    <3>4. QED
      BY <2>1, <2>3, <3>2, <3>3 DEF PartInv, Clean, Full, PhaseOneDone, diskVars
  <2>4. QED
    BY <2>2, <2>3
<1>5. ASSUME NEW e \in DB PROVE RecInv(e)'
  BY <1>1 DEF IInv, RecInv, PhaseOneDone, diskVars
<1>6. TxnInv'
  BY <1>1 DEF IInv, TxnInv, PhaseOneDone, diskVars
<1>7. QED
  BY <1>1, <1>2, <1>3, <1>4, <1>5, <1>6 DEF IInv

LEMMA DeleteSuperKeeps ==
    ASSUME IInv, DeleteSuper PROVE IInv'
<1>1. TypeOK'
  <2>1. cur \in Txn
    BY DEF IInv, TypeOK, TxnInv, DeleteSuper, Fault, RollbackAll
  <2>2. super' \in [Txn -> FileState] /\ committed' \subseteq Txn
    BY <2>1 DEF IInv, TypeOK, DeleteSuper, Fault, RollbackAll
  <2>3. QED
    BY <2>2 DEF IInv, TypeOK, DeleteSuper, Fault, RollbackAll
<1>2. ASSUME NEW e \in DB, jrnl'[e].state # "absent" PROVE JournalInv(e)'
  <2>1. CASE committed' = committed /\ super' = super
    BY <1>2, <2>1 DEF IInv, TypeOK, JournalInv, Clean, DeleteSuper, RollbackAll
  <2>2. CASE committed' = committed \cup {cur} /\ super' = [super EXCEPT ![cur] = "absent"] /\ pc' = "phaseTwo"
    <3>1. JournalInv(e) /\ jrnl' = jrnl /\ names' = names /\ members' = members /\ cur' = cur
      BY <1>2 DEF IInv, DeleteSuper
    <3>2. e \in members[cur] => jrnl[e].ptr = cur /\ jrnl[e].sure
      BY DEF IInv, TypeOK, PartInv, TxnInv, DeleteSuper
    <3>3. super'[jrnl[e].ptr] # "open" \/ jrnl[e].ptr = 0
      BY <2>2, <3>1 DEF IInv, TypeOK, JournalInv, Journal
    <3>4. QED
      BY <2>2, <3>1, <3>2, <3>3 DEF JournalInv, Clean
  <2>3. QED
    BY <2>1, <2>2 DEF DeleteSuper, RollbackAll
<1>3. ASSUME NEW e \in DB PROVE FileInv(e)'
  BY <1>1 DEF IInv, TypeOK, JournalInv, FileInv, PartInv, TxnInv, Clean, Full, Journal,
     DeleteSuper, Fault, RollbackAll
<1>4. ASSUME NEW e \in part' PROVE PartInv(e)'
  BY <1>1 DEF IInv, TypeOK, JournalInv, PartInv, TxnInv, Clean, Full, DeleteSuper, Fault,
     RollbackAll
<1>5. ASSUME NEW e \in DB PROVE RecInv(e)'
  BY <1>1 DEF IInv, TypeOK, JournalInv, RecInv, TxnInv, Journal, DeleteSuper, Fault, RollbackAll
<1>6. TxnInv'
  BY <1>1 DEF IInv, TypeOK, TxnInv, DeleteSuper, Fault, RollbackAll
<1>7. QED
  BY <1>1, <1>2, <1>3, <1>4, <1>5, <1>6 DEF IInv

LEMMA PhaseTwoKeeps ==
    ASSUME NEW d \in DB, IInv, PhaseTwo(d) PROVE IInv'
<1>1. TypeOK'
  <2>1. [jrnl[d] EXCEPT !.state = "deleted"] \in Journal
    BY JournalTypes DEF IInv, TypeOK
  <2>2. jrnl' \in [DB -> Journal]
    BY <2>1 DEF IInv, TypeOK, PhaseTwo, Fault
  <2>3. QED
    BY <2>2 DEF IInv, TypeOK, PhaseTwo, Fault
<1>2. ASSUME NEW e \in DB, jrnl'[e].state # "absent" PROVE JournalInv(e)'
  <2>1. JournalInv(e) /\ UNCHANGED <<super, names, members, cur, committed>>
    BY <1>2 DEF IInv, TypeOK, PartInv, PhaseTwo
  <2>2. /\ jrnl'[e].orig = jrnl[e].orig
        /\ jrnl'[e].ptr = jrnl[e].ptr
        /\ jrnl'[e].sure = jrnl[e].sure
    <3>1. CASE jrnl' = jrnl
      BY <3>1
    <3>2. CASE jrnl' = [jrnl EXCEPT ![d].state = "deleted"]
      BY <3>2 DEF IInv, TypeOK, Journal
    <3>3. QED
      BY <3>1, <3>2 DEF PhaseTwo
  <2>3. pc' \in {"idle", "phaseTwo"}
    BY DEF PhaseTwo
  <2>4. QED
    BY <2>1, <2>2, <2>3 DEF JournalInv, Clean
<1>3. ASSUME NEW e \in DB PROVE FileInv(e)'
  BY <1>1 DEF IInv, TypeOK, JournalInv, FileInv, PartInv, TxnInv, Clean, Full, Journal, PhaseTwo,
     Fault
<1>4. ASSUME NEW e \in part' PROVE PartInv(e)'
  BY <1>1 DEF IInv, TypeOK, PartInv, Clean, Full, PhaseTwo, Fault
<1>5. ASSUME NEW e \in DB PROVE RecInv(e)'
  BY <1>1 DEF IInv, TypeOK, RecInv, PhaseTwo, Fault
<1>6. TxnInv'
  BY <1>1 DEF IInv, TxnInv, PhaseTwo, Fault
<1>7. QED
  BY <1>1, <1>2, <1>3, <1>4, <1>5, <1>6 DEF IInv

LEMMA PlaybackStartKeeps ==
    ASSUME NEW d \in DB, IInv, PlaybackStart(d) PROVE IInv'
<1>1. TypeOK'
  BY DEF IInv, TypeOK, PlaybackStart, Recoverable, diskVars
<1>2. ASSUME NEW e \in DB, jrnl'[e].state # "absent" PROVE JournalInv(e)'
  BY <1>2, <1>1 DEF IInv, JournalInv, Clean, PlaybackStart, Recoverable, diskVars
<1>3. ASSUME NEW e \in DB PROVE FileInv(e)'
  BY <1>1 DEF IInv, FileInv, Clean, Full, PlaybackStart, Recoverable, diskVars
<1>4. ASSUME NEW e \in part' PROVE PartInv(e)'
  BY <1>1 DEF IInv, PartInv, Clean, Full, PlaybackStart, Recoverable, diskVars
<1>5. ASSUME NEW e \in DB PROVE RecInv(e)'
  BY <1>1 DEF IInv, RecInv, PlaybackStart, Recoverable, diskVars
<1>6. TxnInv'
  BY <1>1 DEF IInv, TxnInv, PlaybackStart, Recoverable, diskVars
<1>7. QED
  BY <1>1, <1>2, <1>3, <1>4, <1>5, <1>6 DEF IInv

LEMMA PlaybackWriteKeeps ==
    ASSUME NEW d \in DB, IInv, PlaybackWrite(d) PROVE IInv'
<1>1. TypeOK'
  <2>1. [jrnl[d] EXCEPT !.state = "synced", !.sure = TRUE] \in Journal
    BY JournalTypes DEF IInv, TypeOK
  <2>2. jrnl' \in [DB -> Journal]
    BY <2>1 DEF IInv, TypeOK, PlaybackWrite
  <2>3. dirty' \in [DB -> BOOLEAN]
    BY Zenon DEF IInv, TypeOK, PlaybackWrite
  <2>4. QED
    BY <2>2, <2>3 DEF IInv, TypeOK, PlaybackWrite
<1>2. ASSUME NEW e \in DB, jrnl'[e].state # "absent" PROVE JournalInv(e)'
  BY <1>2, <1>1 DEF IInv, TypeOK, JournalInv, FileInv, RecInv, Clean, PlaybackWrite
<1>3. ASSUME NEW e \in DB PROVE FileInv(e)'
  BY <1>1 DEF IInv, TypeOK, FileInv, RecInv, Clean, Full, PlaybackWrite
<1>4. ASSUME NEW e \in part' PROVE PartInv(e)'
  BY <1>1 DEF IInv, TypeOK, PartInv, RecInv, Clean, Full, PlaybackWrite
<1>5. ASSUME NEW e \in DB PROVE RecInv(e)'
  BY <1>1 DEF IInv, TypeOK, RecInv, PlaybackWrite
<1>6. TxnInv'
  BY <1>1 DEF IInv, TxnInv, PlaybackWrite
<1>7. QED
  BY <1>1, <1>2, <1>3, <1>4, <1>5, <1>6 DEF IInv

LEMMA PlaybackSyncKeeps ==
    ASSUME NEW d \in DB, IInv, PlaybackSync(d) PROVE IInv'
<1>1. TypeOK'
  BY DEF IInv, TypeOK, Journal, PlaybackSync
<1>2. ASSUME NEW e \in DB, jrnl'[e].state # "absent" PROVE JournalInv(e)'
  BY <1>2, <1>1 DEF IInv, JournalInv, Clean, PlaybackSync
<1>3. ASSUME NEW e \in DB PROVE FileInv(e)'
  <2>1. CASE e = d
    BY <2>1, <1>1 DEF IInv, JournalInv, FileInv, RecInv, Clean, PlaybackSync
  <2>2. CASE e # d
    BY <2>2, <1>1 DEF IInv, FileInv, Clean, Full, PlaybackSync
  <2>3. QED
    BY <2>1, <2>2
<1>4. ASSUME NEW e \in part' PROVE PartInv(e)'
  BY <1>1 DEF IInv, PartInv, RecInv, Clean, Full, PlaybackSync
<1>5. ASSUME NEW e \in DB PROVE RecInv(e)'
  BY <1>1 DEF IInv, TypeOK, RecInv, PlaybackSync
<1>6. TxnInv'
  BY <1>1 DEF IInv, TxnInv, PlaybackSync
<1>7. QED
  BY <1>1, <1>2, <1>3, <1>4, <1>5, <1>6 DEF IInv

LEMMA PlaybackEndKeeps ==
    ASSUME NEW d \in DB, IInv, PlaybackEnd(d) PROVE IInv'
<1>1. TypeOK'
  <2>1. [jrnl[d] EXCEPT !.state = "deleted"] \in Journal
    BY JournalTypes DEF IInv, TypeOK
  <2>2. jrnl' \in [DB -> Journal]
    BY <2>1 DEF IInv, TypeOK, PlaybackEnd, Leave
  <2>3. QED
    BY <2>2 DEF IInv, TypeOK, PlaybackEnd, Leave
<1>0. /\ pc # "rollback" => part' = part /\ pc' = pc
      /\ pc = "rollback" => pc' \in {"rollback", "idle"} /\ (pc' = "idle" => part' = {})
      /\ part' \subseteq part
  <2>1. d \notin part \/ pc = "rollback"
    BY DEF IInv, RecInv, PlaybackEnd
  <2>2. CASE UNCHANGED <<pc, part>>
    BY <2>1, <2>2 DEF IInv, TxnInv
  <2>3. CASE Leave(d)
    BY <2>1, <2>3 DEF IInv, TypeOK, TxnInv, Leave
  <2>4. QED
    BY <2>2, <2>3 DEF PlaybackEnd
<1>2. ASSUME NEW e \in DB, jrnl'[e].state # "absent" PROVE JournalInv(e)'
  BY <1>2, <1>1, <1>0 DEF IInv, JournalInv, FileInv, RecInv, Clean, PlaybackEnd, Leave
<1>3. ASSUME NEW e \in DB PROVE FileInv(e)'
  <2>1. CASE e = d
    <3>1. ~RollsBack(e) \/ (~dirty[e] /\ file[e] = jrnl[e].orig)
      BY <2>1 DEF IInv, RecInv, PlaybackEnd
    <3>2. jrnl[e].state # "absent" /\ JournalInv(e) /\ FileInv(e)
      BY <2>1 DEF IInv, RecInv, PlaybackEnd
    <3>3. ~RollsBack(e) \/ Full(jrnl[e].orig, e)
      BY <3>2 DEF IInv, TypeOK, TxnInv, JournalInv, Full
    <3>4. ~dirty[e] /\ Clean(file[e], e) /\ Full(file[e], e)
      BY <3>1, <3>2, <3>3 DEF JournalInv, FileInv
    <3>5. jrnl'[e].state = "deleted"
      BY <2>1 DEF IInv, TypeOK, PlaybackEnd
    <3>6. QED
      BY <3>2, <3>4, <3>5 DEF FileInv, Clean, Full, PlaybackEnd
  <2>2. CASE e # d
    BY <2>2, <1>1 DEF IInv, TypeOK, FileInv, Clean, Full, PlaybackEnd
  <2>3. QED
    BY <2>1, <2>2
<1>4. ASSUME NEW e \in part' PROVE PartInv(e)'
  BY <1>1, <1>0 DEF IInv, PartInv, RecInv, Clean, Full, PlaybackEnd, Leave
<1>5. ASSUME NEW e \in DB PROVE RecInv(e)'
  BY <1>1, <1>0 DEF IInv, TypeOK, RecInv, PlaybackEnd, Leave
<1>6. TxnInv'
  <2>1. CASE pc = "rollback"
    BY <1>0, <1>1, <2>1 DEF IInv, TypeOK, TxnInv, PlaybackEnd
  <2>2. CASE pc # "rollback"
    <3>1. part' = part /\ pc' = pc
      BY <1>0, <2>2
    <3>2. QED
      BY <3>1, <2>2, <1>1 DEF IInv, TypeOK, TxnInv, PlaybackEnd
  <2>3. QED
    BY <2>1, <2>2
<1>7. QED
  BY <1>1, <1>2, <1>3, <1>4, <1>5, <1>6 DEF IInv

LEMMA PlaybackFailsKeeps ==
    ASSUME NEW d \in DB, IInv, PlaybackFails(d) PROVE IInv'
<1>1. TypeOK'
  BY DEF IInv, TypeOK, PlaybackFails, Fault, Leave, diskVars
<1>0. /\ pc # "rollback" => part' = part /\ pc' = pc
      /\ pc = "rollback" => pc' \in {"rollback", "idle"} /\ (pc' = "idle" => part' = {})
      /\ part' \subseteq part
  BY DEF IInv, RecInv, PlaybackFails, Fault, Leave
<1>2. ASSUME NEW e \in DB, jrnl'[e].state # "absent" PROVE JournalInv(e)'
  BY <1>2, <1>1, <1>0 DEF IInv, JournalInv, Clean, PlaybackFails, Fault, Leave, diskVars
<1>3. ASSUME NEW e \in DB PROVE FileInv(e)'
  BY <1>1, <1>0 DEF IInv, FileInv, Clean, Full, PlaybackFails, Fault, Leave, diskVars
<1>4. ASSUME NEW e \in part' PROVE PartInv(e)'
  BY <1>1, <1>0 DEF IInv, PartInv, Clean, Full, PlaybackFails, Fault, Leave, diskVars
<1>5. ASSUME NEW e \in DB PROVE RecInv(e)'
  BY <1>1, <1>0 DEF IInv, RecInv, PlaybackFails, Fault, Leave, diskVars
<1>6. TxnInv'
  <2>1. CASE pc = "rollback"
    BY <1>0, <1>1, <2>1 DEF IInv, TxnInv, PlaybackFails, diskVars
  <2>2. CASE pc # "rollback"
    <3>1. part' = part /\ pc' = pc
      BY <1>0, <2>2
    <3>2. QED
      BY <3>1, <2>2, <1>1 DEF IInv, TxnInv, PlaybackFails, diskVars
  <2>3. QED
    BY <2>1, <2>2
<1>7. QED
  BY <1>1, <1>2, <1>3, <1>4, <1>5, <1>6 DEF IInv

LEMMA DelmasterKeeps ==
    ASSUME NEW d \in DB, IInv, pager_delmaster(d) PROVE IInv'
<1>1. TypeOK'
  BY DEF IInv, TypeOK, pager_delmaster, Leave, StillNamed
<1>0. /\ pc # "rollback" => part' = part /\ pc' = pc
      /\ pc = "rollback" => pc' \in {"rollback", "idle"} /\ (pc' = "idle" => part' = {})
      /\ part' \subseteq part
  BY DEF IInv, RecInv, pager_delmaster, Leave, StillNamed
<1>8. Committing => jrnl[d].ptr # cur
  BY DEF IInv, JournalInv, RecInv, TxnInv, pager_delmaster, Leave, StillNamed
<1>2. ASSUME NEW e \in DB, jrnl'[e].state # "absent" PROVE JournalInv(e)'
  BY <1>2, <1>1, <1>0, <1>8 DEF IInv, JournalInv, Clean, pager_delmaster, Leave, StillNamed
<1>3. ASSUME NEW e \in DB PROVE FileInv(e)'
  <2>1. RollsBack(e) => RollsBack(e)'
    BY <1>1 DEF IInv, JournalInv, pager_delmaster, Leave, StillNamed
  <2>2. QED
    BY <2>1, <1>1 DEF IInv, FileInv, Clean, Full, pager_delmaster, Leave, StillNamed
<1>4. ASSUME NEW e \in part' PROVE PartInv(e)'
  <2>1. e \in part /\ e \in DB /\ PartInv(e)
    BY <1>0 DEF IInv, TypeOK
  <2>2. CASE pc = "rollback"
    BY <1>0, <2>2 DEF PartInv
  <2>3. CASE pc # "rollback"
    <3>1. part' = part /\ pc' = pc
      BY <1>0, <2>3
    <3>2. QED
      BY <2>1, <2>3, <3>1 DEF PartInv, Clean, Full, pager_delmaster
  <2>4. QED
    BY <2>2, <2>3
<1>5. ASSUME NEW e \in DB PROVE RecInv(e)'
  BY <1>1, <1>0, <1>8 DEF IInv, JournalInv, RecInv, pager_delmaster, Leave, StillNamed
<1>6. TxnInv'
  <2>1. CASE pc = "rollback"
    BY <1>0, <1>1, <2>1 DEF IInv, TypeOK, TxnInv, pager_delmaster
  <2>2. CASE pc # "rollback"
    <3>1. part' = part /\ pc' = pc
      BY <1>0, <2>2
    <3>2. QED
      BY <3>1, <2>2, <1>1, <1>8 DEF IInv, TypeOK, TxnInv, pager_delmaster
  <2>3. QED
    BY <2>1, <2>2
<1>7. QED
  BY <1>1, <1>2, <1>3, <1>4, <1>5, <1>6 DEF IInv

(* What a power loss can make of a journal. *)
LEMMA JournalAfterLoss ==
    ASSUME NEW j \in Journal, NEW k \in JournalAfter(j)
    PROVE  /\ k \in Journal
           /\ \/ k = j /\ j.state = "absent"
              \/ k = NoJournal /\ j.state \in {"open", "deleted"}
              \/ /\ j.state # "absent"
                 /\ k.state = "synced" /\ k.sure /\ k.orig = j.orig
                 /\ \/ k.ptr = j.ptr
                    \/ k.ptr = 0 /\ (j.state = "open" \/ (j.state = "synced" /\ ~j.sure))
<1>0. j.ptr \in 0 .. MaxTxn /\ NoJournal \in Journal
  BY DEF Journal, NoJournal
<1>1. CASE j.state = "absent"
  BY <1>1 DEF JournalAfter
<1>2. CASE j.state = "open"
  <2>1. PICK p \in {0, j.ptr} :
          k = NoJournal \/ k = [j EXCEPT !.state = "synced", !.ptr = p, !.sure = TRUE]
    BY <1>2 DEF JournalAfter
  <2>2. k \in Journal
    <3>1. p \in 0 .. MaxTxn
      BY <1>0
    <3>2. [j EXCEPT !.state = "synced", !.ptr = p, !.sure = TRUE] \in Journal
      BY <3>1, JournalTypes, "synced" \in FileState, TRUE \in BOOLEAN
    <3>3. QED
      BY <1>0, <2>1, <3>2
  <2>3. QED
    BY <1>2, <2>1, <2>2 DEF Journal, NoJournal
<1>3. CASE j.state = "synced"
  <2>1. PICK p \in {0, j.ptr} :
          /\ k = [j EXCEPT !.ptr = p, !.sure = TRUE]
          /\ j.sure => p = j.ptr
    BY <1>3 DEF JournalAfter
  <2>2. k \in Journal
    <3>1. p \in 0 .. MaxTxn
      BY <1>0
    <3>2. [j EXCEPT !.ptr = p, !.sure = TRUE] \in Journal
      BY <3>1, JournalTypes, "synced" \in FileState, TRUE \in BOOLEAN
    <3>3. QED
      BY <2>1, <3>2
  <2>3. QED
    BY <1>3, <2>1, <2>2 DEF Journal
<1>4. CASE j.state = "deleted"
  <2>1. k = NoJournal \/ k = [j EXCEPT !.state = "synced", !.sure = TRUE]
    BY <1>4 DEF JournalAfter
  <2>2. k \in Journal
    BY <1>0, <2>1, JournalTypes
  <2>3. QED
    BY <1>4, <2>1, <2>2 DEF Journal, NoJournal
<1>5. QED
  BY <1>1, <1>2, <1>3, <1>4 DEF Journal

LEMMA PowerLossKeeps ==
    ASSUME IInv, PowerLoss PROVE IInv'
<1>1. PICK j \in [DB -> UNION {JournalAfter(jrnl[d]) : d \in DB}] :
        (\A d \in DB : j[d] \in JournalAfter(jrnl[d])) /\ jrnl' = j
  BY DEF PowerLoss
<1>2. PICK s \in [Txn -> {"absent", "synced"}] :
        (\A t \in Txn : s[t] \in SuperAfter(super[t])) /\ super' = s
  BY DEF PowerLoss
<1>3. PICK S \in SUBSET DB :
        names' = [t \in Txn |-> IF super[t] = "open" THEN names[t] \cap S ELSE names[t]]
  BY DEF PowerLoss
<1>4. ASSUME NEW t \in Txn
      PROVE  /\ super'[t] \in {"absent", "synced"}
             /\ super'[t] = "absent" => super[t] # "synced"
             /\ super[t] = "absent" => super'[t] = "absent"
             /\ super[t] # "open" => names'[t] = names[t]
  BY <1>2, <1>3 DEF SuperAfter, IInv, TypeOK
<1>5. ASSUME NEW d \in DB
      PROVE  jrnl[d] \in Journal /\ jrnl'[d] \in JournalAfter(jrnl[d])
  BY <1>1 DEF IInv, TypeOK
<1>6. /\ UNCHANGED <<file, dirty, members, cur, committed, faults>>
      /\ pc' = "idle" /\ part' = {} /\ losses' \in 0 .. MaxLoss
      /\ stage' = [d \in DB |-> "start"] /\ rec' = [d \in DB |-> "idle"]
  BY DEF PowerLoss, IInv, TypeOK
<1>7. TypeOK'
  <2>1. jrnl' \in [DB -> Journal]
    BY <1>1, <1>5, JournalAfterLoss
  <2>2. super' \in [Txn -> FileState] /\ names' \in [Txn -> SUBSET DB]
    BY <1>2, <1>3 DEF IInv, TypeOK
  <2>3. QED
    BY <1>6, <2>1, <2>2 DEF IInv, TypeOK
<1>8. ASSUME NEW d \in DB, jrnl'[d].state # "absent" PROVE JournalInv(d)'
  <2>1. /\ jrnl[d].state # "absent" /\ jrnl'[d].orig = jrnl[d].orig /\ jrnl'[d].sure
        /\ jrnl'[d].ptr = jrnl[d].ptr \/ (jrnl'[d].ptr = 0 /\ ~jrnl[d].sure)
    BY <1>5, <1>8, JournalAfterLoss DEF NoJournal, IInv, FileInv
  <2>2. JournalInv(d) /\ FileInv(d) /\ jrnl[d] \in Journal
    BY <2>1, <1>5 DEF IInv
  <2>3. Clean(jrnl[d].orig, d)'
    BY <1>6, <2>1, <2>2 DEF JournalInv, Clean
  <2>4. \A t \in committed : d \in members[t] =>
          t \in jrnl'[d].orig \/ (jrnl'[d].ptr = t /\ jrnl'[d].sure)
    BY <2>1, <2>2 DEF JournalInv
  <2>5. jrnl'[d].ptr # 0 =>
          /\ jrnl'[d].ptr <= cur
          /\ d \in names'[jrnl'[d].ptr]
          /\ super'[jrnl'[d].ptr] # "open"
    BY <1>4, <2>1, <2>2 DEF JournalInv, Journal
  <2>6. QED
    BY <1>6, <2>3, <2>4, <2>5 DEF JournalInv, Clean
<1>9. ASSUME NEW d \in DB PROVE FileInv(d)'
  <2>1. FileInv(d) /\ jrnl[d] \in Journal /\ (jrnl[d].state # "absent" => JournalInv(d))
    BY <1>5 DEF IInv
  <2>2. ASSUME ~RollsBack(d)' PROVE ~dirty[d] /\ Clean(file[d], d) /\ Full(file[d], d)
    <3>1. CASE ~RollsBack(d)
      BY <2>1, <3>1 DEF FileInv
    <3>2. CASE RollsBack(d) /\ jrnl'[d] = NoJournal
      <4>1. jrnl[d].state = "open"
        BY <1>5, <3>2, JournalAfterLoss DEF NoJournal
      <4>2. QED
        BY <2>1, <4>1 DEF FileInv, JournalInv, Full
    <3>3. CASE RollsBack(d) /\ jrnl'[d].state = "synced"
      <4>1. jrnl'[d].ptr # 0 /\ jrnl'[d].ptr \in Txn /\ super'[jrnl'[d].ptr] = "absent"
        BY <1>4, <1>5, <2>2, <3>3, JournalAfterLoss DEF Journal
      <4>2. jrnl'[d].ptr = jrnl[d].ptr
        BY <1>5, <3>3, <4>1, JournalAfterLoss DEF NoJournal
      <4>3. QED
        BY <1>4, <2>1, <3>3, <4>1, <4>2 DEF JournalInv
    <3>4. QED
      BY <1>5, <3>1, <3>2, <3>3, JournalAfterLoss
  <2>3. jrnl'[d].state # "open"
    BY <1>5, JournalAfterLoss DEF NoJournal
  <2>4. QED
    BY <1>6, <2>1, <2>2, <2>3 DEF FileInv, Clean, Full
<1>10. ASSUME NEW d \in DB PROVE RecInv(d)'
  BY <1>6 DEF RecInv
<1>11. TxnInv'
  BY <1>4, <1>6 DEF IInv, TypeOK, TxnInv
<1>12. QED
  BY <1>6, <1>7, <1>8, <1>9, <1>10, <1>11 DEF IInv

LEMMA InitHolds == Init => IInv
<1> SUFFICES ASSUME Init PROVE IInv
  OBVIOUS
<1>1. TypeOK
  <2>1. NoJournal \in Journal
    BY DEF NoJournal, Journal
  <2>2. QED
    BY <2>1 DEF Init, TypeOK
<1>2. QED
  BY <1>1 DEF Init, IInv, JournalInv, FileInv, PartInv, RecInv, TxnInv, Clean, Full, NoJournal

LEMMA NextKeeps == IInv /\ [Next]_vars => IInv'
<1> SUFFICES ASSUME IInv, [Next]_vars PROVE IInv'
  OBVIOUS
<1>1. CASE UNCHANGED vars
  BY <1>1 DEF IInv, TypeOK, JournalInv, FileInv, PartInv, RecInv, TxnInv, Clean, Full,
     vars, diskVars, progVars
<1>2. ASSUME NEW T \in SUBSET DB, Begin(T) PROVE IInv'
  BY <1>2, BeginKeeps
<1>3. CASE vdbeCommit \/ Rollback \/ CreateSuper \/ SyncSuper \/ PhaseOneDone \/ DeleteSuper
  BY <1>3, vdbeCommitKeeps, RollbackKeeps, CreateSuperKeeps, SyncSuperKeeps,
     PhaseOneDoneKeeps, DeleteSuperKeeps
<1>4. ASSUME NEW d \in DB, Spill(d) \/ PhaseOne(d) \/ PhaseTwo(d) PROVE IInv'
  BY <1>4, SpillKeeps, PhaseOneKeeps, PhaseTwoKeeps
<1>5. ASSUME NEW d \in DB,
             \/ PlaybackStart(d) \/ PlaybackWrite(d) \/ PlaybackSync(d) \/ PlaybackEnd(d)
             \/ PlaybackFails(d) \/ pager_delmaster(d)
      PROVE  IInv'
  BY <1>5, PlaybackStartKeeps, PlaybackWriteKeeps, PlaybackSyncKeeps, PlaybackEndKeeps,
     PlaybackFailsKeeps, DelmasterKeeps
<1>6. CASE PowerLoss
  BY <1>6, PowerLossKeeps
<1>7. QED
  BY <1>1, <1>2, <1>3, <1>4, <1>5, <1>6 DEF Next

LEMMA Inductive == Spec => []IInv
BY InitHolds, NextKeeps, PTL DEF Spec

LEMMA CommittedInContents == IInv => CommittedStays
<1> SUFFICES ASSUME IInv, NEW t \in committed, NEW d \in members[t] PROVE t \in Contents(d)
  BY DEF CommittedStays
<1>1. t \in Txn /\ d \in DB /\ super[t] = "absent"
  BY DEF IInv, TypeOK, TxnInv
<1>2. CASE RollsBack(d)
  BY <1>1, <1>2 DEF IInv, JournalInv, Contents
<1>3. CASE ~RollsBack(d)
  BY <1>1, <1>3 DEF IInv, FileInv, Full, Contents
<1>4. QED
  BY <1>2, <1>3

LEMMA ContentsClean == ASSUME IInv, NEW d \in DB PROVE Clean(Contents(d), d)
BY DEF IInv, JournalInv, FileInv, Contents

\* Every variable keeps its type, whatever the number of databases and transactions.
THEOREM TypeCorrect == Spec => []TypeOK
<1>1. IInv => TypeOK
  BY DEF IInv
<1>2. QED
  BY <1>1, Inductive, PTL

\* A transaction whose master journal was deleted by vdbeCommit stays in every one
\* of its files.
THEOREM CommittedForGood == Spec => []CommittedStays
BY CommittedInContents, Inductive, PTL

\* vdbeCommit, pager_playback and pager_delmaster together keep a transaction over
\* any number of files whole, through every failure and power loss.
THEOREM MultiFileAtomic == Spec => []AllOrNone
<1>1. IInv => AllOrNone
  <2> SUFFICES ASSUME IInv, NEW t \in Txn, NEW d \in members[t], NEW e \in members[t],
                      t \in Contents(d)
               PROVE  t \in Contents(e)
    BY DEF AllOrNone
  <2>1. d \in DB
    BY DEF IInv, TypeOK
  <2>2. CASE t \in committed
    BY <2>2, CommittedInContents DEF CommittedStays
  <2>3. CASE t \notin committed
    BY <2>1, <2>3, ContentsClean DEF Clean
  <2>4. QED
    BY <2>2, <2>3
<1>2. QED
  BY <1>1, Inductive, PTL

\* No half-written file is ever without a journal that the next connection rolls back.
THEOREM TornFilesRecover == Spec => []NothingTorn
<1>1. IInv => NothingTorn
  BY DEF IInv, FileInv, NothingTorn
<1>2. QED
  BY <1>1, Inductive, PTL
=============================================================================
