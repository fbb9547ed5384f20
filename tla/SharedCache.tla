----------------------------- MODULE SharedCache -----------------------------
(***************************************************************************)
(* Connections of one process that share a cache (btree.c): their table    *)
(* locks, the one write transaction, and what a statement does to them     *)
(* when it starts (OP_Transaction, OP_TableLock), halts (sqlite3VdbeHalt), *)
(* and at BEGIN, COMMIT and ROLLBACK (OP_AutoCommit).                      *)
(*                                                                         *)
(* sqlite3_step holds the mutex of the shared cache, so each call is one   *)
(* step; a writing statement runs from its start to its end in one call, a *)
(* reading one returns rows in between.                                    *)
(***************************************************************************)
EXTENDS Naturals, FiniteSets

CONSTANTS
    Handle,         \* the Btree handles that share the cache
    NoHandle,
    Tables,         \* root pages; the schema is table 1
    ReadUncommit,   \* the handles whose connection reads uncommitted data
    MaxStmt,        \* bound on the statements of a transaction
    MaxFault        \* bound on locks of the file in other processes, and I/O errors

ASSUME SharedCacheAssumption ==
    /\ NoHandle \notin Handle /\ IsFiniteSet(Handle)
    /\ ReadUncommit \subseteq Handle
    /\ 1 \in Tables /\ Tables \subseteq Nat \ {0}
    /\ MaxStmt \in Nat /\ MaxFault \in Nat

VARIABLES
    cache,      \* the BtShared object, and inTrans of every handle
    autoCommit, \* of every connection
    stmts,      \* its active statements
    started,    \* statements since its transaction began
    faults

vars == <<cache, autoCommit, stmts, started, faults>>

TRANS_NONE == 0  TRANS_READ == 1  TRANS_WRITE == 2
READ_LOCK == 1   WRITE_LOCK == 2
Trans == 0 .. 2
MASTER_ROOT == 1

\* dirty: the tables that the write transaction has changed.
BtShared == [inTrans : [Handle -> Trans], lock : [Handle -> [Tables -> 0 .. 2]],
             pWriter : Handle \cup {NoHandle}, pending : BOOLEAN, exclusive : BOOLEAN,
             inTransaction : Trans, nTransaction : 0 .. Cardinality(Handle),
             dirty : SUBSET Tables]

\* A statement that is not running waits to be called again after SQLITE_BUSY.
Stmt == [op : {"read", "write"}, arg : Tables, running : BOOLEAN]
        \cup [op : {"begin"}, arg : {1, 2}, running : {FALSE}]
        \cup [op : {"commit"}, arg : {0}, running : {FALSE}]

TypeOK ==
    /\ cache \in BtShared
    /\ autoCommit \in [Handle -> BOOLEAN]
    /\ stmts \in [Handle -> SUBSET Stmt]
    /\ started \in [Handle -> 0 .. MaxStmt]
    /\ faults \in 0 .. MaxFault

Init ==
    /\ cache = [inTrans |-> [h \in Handle |-> TRANS_NONE],
                lock |-> [h \in Handle |-> [t \in Tables |-> 0]],
                pWriter |-> NoHandle, pending |-> FALSE, exclusive |-> FALSE,
                inTransaction |-> TRANS_NONE, nTransaction |-> 0,
                dirty |-> {}]
    /\ autoCommit = [h \in Handle |-> TRUE]
    /\ stmts = [h \in Handle |-> {}]
    /\ started = [h \in Handle |-> 0]
    /\ faults = 0
-----------------------------------------------------------------------------
(* Table locks.  c is the shared cache. *)

OK(c) == [rc |-> "OK", cache |-> c]
LOCKED(c) == [rc |-> "LOCKED", cache |-> c]
BUSY(c) == [rc |-> "BUSY", cache |-> c]

\* A reader does not look at the locks of the writer.
MutantLock(c, h, t, eLock) ==
    IF c.pWriter # h /\ c.exclusive THEN LOCKED(c)
    ELSE IF eLock = WRITE_LOCK /\ \E g \in Handle \ {h} : c.lock[g][t] = READ_LOCK
    THEN LOCKED([c EXCEPT !.pending = TRUE])
    ELSE OK(c)

\* Locks conflict when they differ: only one handle holds write locks.
querySharedCacheTableLock(c, h, t, eLock) ==
    IF c.pWriter # h /\ c.exclusive THEN LOCKED(c)
    ELSE IF \E g \in Handle \ {h} : c.lock[g][t] \notin {0, eLock}
    THEN LOCKED(IF eLock = WRITE_LOCK THEN [c EXCEPT !.pending = TRUE] ELSE c)
    ELSE OK(c)

sqlite3BtreeLockTable(c, h, t, eLock) ==
    LET q == querySharedCacheTableLock(c, h, t, eLock)
    IN  IF q.rc = "OK" /\ eLock > c.lock[h][t]
        THEN [q EXCEPT !.cache.lock[h][t] = eLock] ELSE q

clearAllSharedCacheTableLocks(c, h) ==
    LET free == [c EXCEPT !.lock[h] = [t \in Tables |-> 0]]
    IN  IF c.pWriter = h
        THEN [free EXCEPT !.pWriter = NoHandle, !.exclusive = FALSE, !.pending = FALSE]
        ELSE IF c.nTransaction = 2 THEN [free EXCEPT !.pending = FALSE]
        ELSE free

\* The flags stay.
MutantDowngrade(c, h) ==
    IF c.pWriter # h THEN c
    ELSE [c EXCEPT !.pWriter = NoHandle,
                   !.lock = [g \in Handle |-> [t \in Tables |->
                               IF @[g][t] = WRITE_LOCK THEN READ_LOCK ELSE @[g][t]]]]

downgradeAllSharedCacheTableLocks(c, h) ==
    IF c.pWriter # h THEN c
    ELSE [c EXCEPT !.pWriter = NoHandle, !.exclusive = FALSE, !.pending = FALSE,
                   !.lock = [g \in Handle |-> [t \in Tables |->
                               IF @[g][t] = WRITE_LOCK THEN READ_LOCK ELSE @[g][t]]]]
-----------------------------------------------------------------------------
(* Transactions *)

\* The transaction of handle h is opened or made a write transaction.
Opened(c, h, wrflag) ==
    LET trans == IF wrflag > 0 THEN TRANS_WRITE ELSE TRANS_READ
        first == c.inTrans[h] = TRANS_NONE
        opened == [c EXCEPT
            !.nTransaction = IF first THEN @ + 1 ELSE @,
            !.lock[h][MASTER_ROOT] = IF first THEN READ_LOCK ELSE @,
            !.inTrans[h] = trans,
            !.inTransaction = IF trans > @ THEN trans ELSE @]
    IN  IF wrflag > 0 THEN [opened EXCEPT !.pWriter = h, !.exclusive = wrflag > 1] ELSE opened

\* A new reader is let in while a writer waits for the old ones.
MutantBeginTrans(c, h, wrflag) ==
    IF c.inTrans[h] = TRANS_WRITE \/ (c.inTrans[h] = TRANS_READ /\ wrflag = 0) THEN {OK(c)}
    ELSE IF \/ wrflag > 0 /\ c.inTransaction = TRANS_WRITE
            \/ wrflag > 1 /\ \E g \in Handle \ {h}, t \in Tables : c.lock[g][t] # 0
            \/ querySharedCacheTableLock(c, h, MASTER_ROOT, READ_LOCK).rc = "LOCKED"
    THEN {LOCKED(c)}
    ELSE {OK(Opened(c, h, wrflag))}
         \cup IF (wrflag > 0 \/ c.inTransaction = TRANS_NONE) /\ faults < MaxFault
              THEN {BUSY(c)} ELSE {}

\* Another process may have the file locked when the first reader or a writer locks it.
sqlite3BtreeBeginTrans(c, h, wrflag) ==
    IF c.inTrans[h] = TRANS_WRITE \/ (c.inTrans[h] = TRANS_READ /\ wrflag = 0) THEN {OK(c)}
    ELSE IF \/ wrflag > 0 /\ c.inTransaction = TRANS_WRITE
            \/ c.pending
            \/ wrflag > 1 /\ \E g \in Handle \ {h}, t \in Tables : c.lock[g][t] # 0
            \/ querySharedCacheTableLock(c, h, MASTER_ROOT, READ_LOCK).rc = "LOCKED"
    THEN {LOCKED(c)}
    ELSE {OK(Opened(c, h, wrflag))}
         \cup IF (wrflag > 0 \/ c.inTransaction = TRANS_NONE) /\ faults < MaxFault
              THEN {BUSY(c)} ELSE {}

\* The other statements of the connection are not looked at.
MutantEndTransaction(c, h, nVdbeRead) ==
    IF c.inTrans[h] = TRANS_NONE THEN c
    ELSE [clearAllSharedCacheTableLocks(c, h) EXCEPT
            !.inTrans[h] = TRANS_NONE,
            !.nTransaction = @ - 1,
            !.inTransaction = IF c.nTransaction = 1 THEN TRANS_NONE ELSE @]

\* With other statements of the connection active, the transaction goes on as a
\* reading one.
btreeEndTransaction(c, h, nVdbeRead) ==
    IF c.inTrans[h] = TRANS_NONE THEN c
    ELSE IF nVdbeRead > 1
    THEN [downgradeAllSharedCacheTableLocks(c, h) EXCEPT !.inTrans[h] = TRANS_READ]
    ELSE [clearAllSharedCacheTableLocks(c, h) EXCEPT
            !.inTrans[h] = TRANS_NONE,
            !.nTransaction = @ - 1,
            !.inTransaction = IF c.nTransaction = 1 THEN TRANS_NONE ELSE @]

sqlite3BtreeCommitPhaseTwo(c, h, nVdbeRead) ==
    LET done == [c EXCEPT !.inTransaction = TRANS_READ, !.dirty = {}]
    IN  btreeEndTransaction(IF c.inTrans[h] = TRANS_WRITE THEN done ELSE c, h, nVdbeRead)

sqlite3BtreeRollback(c, h, nVdbeRead) ==
    LET undone == [c EXCEPT !.inTransaction = TRANS_READ, !.dirty = {}]
    IN  btreeEndTransaction(IF c.inTrans[h] = TRANS_WRITE THEN undone ELSE c, h, nVdbeRead)
-----------------------------------------------------------------------------
(* Statements.  S are the active statements of the connection, s among them. *)

IsWriter(s) == s.op = "write" \/ s.op = "begin"
nVdbeWrite(S) == Cardinality({s \in S : IsWriter(s)})

\* Whether the end of s is the end of the transaction.
EndsTransaction(h, S, s) == autoCommit[h] /\ nVdbeWrite(S) = IF IsWriter(s) THEN 1 ELSE 0

\* sqlite3VdbeHalt of a statement that failed.
HaltError(c, h, S, s) ==
    IF EndsTransaction(h, S, s) THEN sqlite3BtreeRollback(c, h, Cardinality(S)) ELSE c

\* sqlite3VdbeHalt of a statement that did not; the commit may fail.
HaltOK(c, h, S, s) ==
    IF ~EndsTransaction(h, S, s) THEN {c}
    ELSE {sqlite3BtreeCommitPhaseTwo(c, h, Cardinality(S))}
         \cup IF c.inTrans[h] = TRANS_WRITE
              THEN {sqlite3BtreeRollback(c, h, Cardinality(S))} ELSE {}

\* The connection of statement s goes on with the statements S and the cache c.
Goes(h, s, S, c) ==
    /\ cache' = c
    /\ stmts' = [stmts EXCEPT ![h] = S]
    /\ started' = [started EXCEPT ![h] =
                     IF c.inTrans[h] = TRANS_NONE /\ S = {} THEN 0
                     ELSE IF s \in stmts[h] \/ s.op = "commit" THEN @ ELSE @ + 1]

\* s is called for the first time, or again.
Called(h, s) == s \in stmts[h] \/ started[h] < MaxStmt

Waiting(op, arg) == [op |-> op, arg |-> arg, running |-> FALSE]

\* SQLITE_BUSY: the statement waits.
Waits(h, s) ==
    /\ faults' = faults + 1
    /\ Goes(h, s, stmts[h] \cup {s}, cache)
    /\ UNCHANGED autoCommit

\* SQLITE_LOCKED: the statement halts.
Fails(h, s, c) ==
    LET S == stmts[h] \cup {s}
    IN  Goes(h, s, S \ {s}, HaltError(c, h, S, s)) /\ UNCHANGED <<autoCommit, faults>>

\* An I/O error rolls the transaction back, also one that BEGIN started.
Aborted(h, s, c) ==
    LET S == stmts[h] \cup {s}
    IN  /\ faults < MaxFault /\ faults' = faults + 1
        /\ Goes(h, s, S \ {s}, sqlite3BtreeRollback(c, h, Cardinality(S)))
        /\ autoCommit' = [autoCommit EXCEPT ![h] = TRUE]

Read(h, t) ==
    LET s == Waiting("read", t)
        run == [s EXCEPT !.running = TRUE]
    IN  /\ Called(h, s) /\ run \notin stmts[h]
        /\ \E r \in sqlite3BtreeBeginTrans(cache, h, 0) :
             LET q == IF r.rc # "OK" \/ h \in ReadUncommit THEN r
                      ELSE sqlite3BtreeLockTable(r.cache, h, t, READ_LOCK)
             IN  \/ q.rc = "BUSY" /\ Waits(h, s)
                 \/ q.rc = "LOCKED" /\ Fails(h, s, q.cache)
                 \/ /\ q.rc = "OK"
                    /\ Goes(h, s, (stmts[h] \ {s}) \cup {run}, q.cache)
                    /\ UNCHANGED <<autoCommit, faults>>

EndRead(h, s) ==
    /\ s \in stmts[h] /\ s.running
    /\ \E c \in HaltOK(cache, h, stmts[h], s) : Goes(h, s, stmts[h] \ {s}, c)
    /\ UNCHANGED <<autoCommit, faults>>

ReadError(h, s) ==
    /\ s \in stmts[h] /\ s.running
    /\ Aborted(h, s, cache)

Write(h, t) ==
    LET s == Waiting("write", t)
        S == stmts[h] \cup {s}
    IN  /\ Called(h, s)
        /\ \E r \in sqlite3BtreeBeginTrans(cache, h, 1) :
             LET q == IF r.rc # "OK" THEN r
                      ELSE sqlite3BtreeLockTable(r.cache, h, t, WRITE_LOCK)
                 c == [q.cache EXCEPT !.dirty = @ \cup {t}]
             IN  \/ q.rc = "BUSY" /\ Waits(h, s)
                 \/ q.rc = "LOCKED" /\ Fails(h, s, q.cache)
                 \/ /\ q.rc = "OK"
                    /\ \E d \in HaltOK(c, h, S, s) : Goes(h, s, S \ {s}, d)
                    /\ UNCHANGED <<autoCommit, faults>>
                 \/ q.rc = "OK" /\ Aborted(h, s, c)

\* BEGIN, or with wrflag BEGIN IMMEDIATE and BEGIN EXCLUSIVE, which lock before they
\* find that a transaction is open already.
Begin(h, wrflag) ==
    LET s == Waiting("begin", wrflag)
    IN  \/ /\ wrflag = 0 /\ autoCommit[h]
           /\ autoCommit' = [autoCommit EXCEPT ![h] = FALSE]
           /\ UNCHANGED <<cache, stmts, started, faults>>
        \/ /\ wrflag > 0 /\ Called(h, s)
           /\ \E r \in sqlite3BtreeBeginTrans(cache, h, wrflag) :
                \/ r.rc = "BUSY" /\ Waits(h, s)
                \/ r.rc = "LOCKED" /\ Fails(h, s, r.cache)
                \/ /\ r.rc = "OK"
                   /\ Goes(h, s, stmts[h] \ {s}, r.cache)
                   /\ autoCommit' = [autoCommit EXCEPT ![h] = FALSE]
                   /\ UNCHANGED faults

\* COMMIT waits, with SQLITE_BUSY, for readers in other processes, or fails and rolls
\* back.
Commit(h) ==
    LET s == Waiting("commit", 0)
        S == stmts[h] \cup {s}
        n == Cardinality(S)
    IN  /\ ~autoCommit[h] /\ nVdbeWrite(stmts[h]) = 0
        /\ \/ cache.inTrans[h] = TRANS_WRITE /\ faults < MaxFault /\ Waits(h, s)
           \/ /\ \/ Goes(h, s, S \ {s}, sqlite3BtreeCommitPhaseTwo(cache, h, n))
                 \/ /\ cache.inTrans[h] = TRANS_WRITE
                    /\ Goes(h, s, S \ {s}, sqlite3BtreeRollback(cache, h, n))
              /\ autoCommit' = [autoCommit EXCEPT ![h] = TRUE]
              /\ UNCHANGED faults

\* ROLLBACK counts itself among the statements.
Rollback(h) ==
    /\ ~autoCommit[h]
    /\ Goes(h, Waiting("commit", 0), stmts[h],
            sqlite3BtreeRollback(cache, h, Cardinality(stmts[h]) + 1))
    /\ autoCommit' = [autoCommit EXCEPT ![h] = TRUE]
    /\ UNCHANGED faults

\* sqlite3_reset of a statement that waits.
Reset(h, s) ==
    /\ s \in stmts[h] /\ ~s.running
    /\ Goes(h, s, stmts[h] \ {s}, HaltError(cache, h, stmts[h], s))
    /\ UNCHANGED <<autoCommit, faults>>

\* Every transaction has a lock on the schema table, so reading that is not a case of
\* its own.
Next ==
    \E h \in Handle :
      \/ \E t \in Tables \ {MASTER_ROOT} : Read(h, t)
      \/ \E t \in Tables : Write(h, t)
      \/ \E s \in stmts[h] : EndRead(h, s) \/ ReadError(h, s) \/ Reset(h, s)
      \/ \E wrflag \in 0 .. 2 : Begin(h, wrflag)
      \/ Commit(h) \/ Rollback(h)

Spec == Init /\ [][Next]_vars

\* A statement ends or, once none is left, the transaction.
Ends(h) ==
    \/ \E s \in stmts[h] : EndRead(h, s) \/ Reset(h, s)
    \/ stmts[h] = {} /\ cache.pWriter # h /\ (Commit(h) \/ Rollback(h))

\* Connections do not read for ever; only the writer may wait for ever.
FairSpec == Spec /\ \A h \in Handle : WF_vars(Ends(h))
-----------------------------------------------------------------------------
\* What the functions of btree.c assert and rely on, in whatever order statements of
\* all connections come: BTS_PENDING, BTS_EXCLUSIVE and a write transaction have a
\* writer, whose pWriter->db is read (sqlite3BtreeBeginTrans); the transactions are
\* counted; no lock is stronger than the transaction of its handle; and a handle with
\* BTS_EXCLUSIVE has the only locks.
BtreeIntegrity ==
    LET c == cache
        open == {h \in Handle : c.inTrans[h] # TRANS_NONE}
    IN  /\ c.pending \/ c.exclusive \/ c.inTransaction = TRANS_WRITE => c.pWriter # NoHandle
        /\ \A h \in Handle : c.inTrans[h] = TRANS_WRITE <=> c.pWriter = h
        /\ c.nTransaction = Cardinality(open)
        /\ c.inTransaction = TRANS_NONE <=> open = {}
        /\ \A h \in Handle, t \in Tables : c.lock[h][t] <= c.inTrans[h]
        /\ c.exclusive => \A h \in open : h = c.pWriter

\* A statement that has begun to read keeps its lock, so that no writer gets in, until
\* it ends, though other statements of its connection halt, commit and roll back.
ReadersKeepLocks ==
    \A h \in Handle \ ReadUncommit : \A s \in stmts[h] :
      s.running => cache.lock[h][s.arg] # 0 /\ cache.lock[h][MASTER_ROOT] # 0

\* No reader sees what another connection has not committed, unless it asked to.
NoDirtyRead ==
    \A h \in Handle \ ReadUncommit : \A s \in stmts[h] :
      s.running /\ s.arg \in cache.dirty => cache.pWriter = h

\* A writer that was refused a table finds the other transactions ended some time,
\* though their connections and others go on beginning new ones.
WriterNotStarved ==
    \A h \in Handle :
      cache.pending /\ cache.pWriter = h
        ~> cache.pWriter # h \/ \A g \in Handle \ {h} : cache.inTrans[g] = TRANS_NONE
=============================================================================
