-------------------------- MODULE SharedCacheProofs --------------------------
(***************************************************************************)
(* The table locks of a shared cache keep what a connection has not        *)
(* committed from every other, for any number of connections and tables,   *)
(* whatever their statements do.                                           *)
(*                                                                         *)
(* Every function of btree.c takes a cache to a cache.  CacheInv says of   *)
(* one cache what they keep (one lemma per function, which also says what  *)
(* it does to the locks of the handle and of the others), and StmtInv ties *)
(* the cache to the statements that run.                                   *)
(***************************************************************************)
EXTENDS SharedCache, FiniteSetTheorems, TLAPS

Open(c) == {h \in Handle : c.inTrans[h] # TRANS_NONE}

\* BtreeIntegrity of any cache and, beyond it, what makes it inductive and gives
\* locks their meaning: a transaction has its lock on the schema, a write lock is
\* the only lock on its table, and a changed table is locked for writing.
CacheInv(c) ==
    /\ c \in BtShared
    /\ c.pending \/ c.exclusive => c.pWriter # NoHandle
    /\ c.inTransaction = TRANS_WRITE <=> c.pWriter # NoHandle
    /\ \A h \in Handle : c.inTrans[h] = TRANS_WRITE <=> c.pWriter = h
    /\ c.nTransaction = Cardinality(Open(c))
    /\ c.inTransaction = TRANS_NONE <=> Open(c) = {}
    /\ \A h \in Handle, t \in Tables : c.lock[h][t] <= c.inTrans[h]
    /\ \A h \in Handle : c.inTrans[h] # TRANS_NONE => c.lock[h][MASTER_ROOT] # 0
    /\ \A g, h \in Handle, t \in Tables :
          g # h /\ c.lock[h][t] = WRITE_LOCK => c.lock[g][t] = 0
    /\ c.exclusive => \A h \in Open(c) : h = c.pWriter
    /\ \A t \in c.dirty : \E h \in Handle : c.lock[h][t] = WRITE_LOCK

\* Statement s of handle h keeps what it reads locked in cache c.
Keeps(c, h, s) ==
    s.running => /\ c.inTrans[h] # TRANS_NONE
                 /\ h \notin ReadUncommit => c.lock[h][s.arg] # 0

StmtInv ==
    \A h \in Handle : IsFiniteSet(stmts[h]) /\ \A s \in stmts[h] : Keeps(cache, h, s)

IInv == TypeOK /\ CacheInv(cache) /\ StmtInv

-----------------------------------------------------------------------------
(* What a call does to the locks of its handle and of the others. *)

OthersStay(c, e, h) ==
    \A g \in Handle \ {h} :
        e.inTrans[g] = c.inTrans[g] /\ \A t \in Tables : e.lock[g][t] = c.lock[g][t]

LocksKept(c, e, h) ==
    /\ c.inTrans[h] # TRANS_NONE => e.inTrans[h] # TRANS_NONE
    /\ \A t \in Tables : c.lock[h][t] # 0 => e.lock[h][t] # 0

USE SharedCacheAssumption DEF TRANS_NONE, TRANS_READ, TRANS_WRITE, READ_LOCK, WRITE_LOCK, MASTER_ROOT

LEMMA Types ==
    ASSUME NEW c \in BtShared
    PROVE  /\ c.inTrans \in [Handle -> 0 .. 2]
           /\ c.lock \in [Handle -> [Tables -> 0 .. 2]]
           /\ c.pWriter \in Handle \cup {NoHandle}
           /\ c.pending \in BOOLEAN /\ c.exclusive \in BOOLEAN
           /\ c.inTransaction \in 0 .. 2
           /\ c.nTransaction \in 0 .. Cardinality(Handle)
           /\ c.dirty \in SUBSET Tables
           /\ Cardinality(Handle) \in Nat
<1>1. Cardinality(Handle) \in Nat
  BY FS_CardinalityType
<1> QED
  BY <1>1 DEF BtShared, Trans

\* The number of open transactions is a number, and one more or one less when a
\* handle is added or removed.
LEMMA OpenCount ==
    ASSUME NEW S \in SUBSET Handle, NEW h \in Handle
    PROVE  /\ IsFiniteSet(S) /\ Cardinality(S) \in 0 .. Cardinality(Handle)
           /\ h \notin S => Cardinality(S \cup {h}) = Cardinality(S) + 1
           /\ h \in S => /\ Cardinality(S \ {h}) = Cardinality(S) - 1
                         /\ Cardinality(S) = 1 <=> S = {h}
<1>1. IsFiniteSet(S) /\ Cardinality(S) <= Cardinality(Handle)
  BY FS_Subset
<1>2. Cardinality(S) \in Nat /\ Cardinality(Handle) \in Nat
  BY <1>1, FS_CardinalityType
<1>3. h \notin S => Cardinality(S \cup {h}) = Cardinality(S) + 1
  BY <1>1, FS_AddElement
<1>4. h \in S => Cardinality(S \ {h}) = Cardinality(S) - 1
  BY <1>1, FS_RemoveElement
<1>5. h \in S => (Cardinality(S) = 1 <=> S = {h})
  <2>1. ASSUME h \in S, Cardinality(S) = 1 PROVE S = {h}
    <3>1. PICK x : S = {x}
      BY <1>1, <2>1, FS_Singleton
    <3> QED
      BY <2>1, <3>1
  <2>2. ASSUME S = {h} PROVE Cardinality(S) = 1
    BY <2>2, FS_Singleton
  <2> QED
    BY <2>1, <2>2
<1> QED
  BY <1>1, <1>2, <1>3, <1>4, <1>5

-----------------------------------------------------------------------------
(* The functions of btree.c keep CacheInv. *)

\* A lock is only asked for within a transaction that allows it.
LEMMA LockTable ==
    ASSUME NEW c, CacheInv(c), NEW h \in Handle, NEW t \in Tables, NEW eLock \in {READ_LOCK, WRITE_LOCK},
           eLock <= c.inTrans[h], NEW q, q = sqlite3BtreeLockTable(c, h, t, eLock)
    PROVE  /\ CacheInv(q.cache) /\ OthersStay(c, q.cache, h) /\ LocksKept(c, q.cache, h)
           /\ q.cache.inTrans = c.inTrans
           /\ q.rc = "OK" => q.cache.lock[h][t] >= eLock
           /\ q.rc \in {"OK", "LOCKED"}
<1>0. c \in BtShared
  BY DEF CacheInv
<1> USE Types DEF CacheInv
<1>1. CASE c.pWriter # h /\ c.exclusive
  <2>1. q = LOCKED(c)
    BY <1>1 DEF sqlite3BtreeLockTable, querySharedCacheTableLock, LOCKED
  <2> QED
    BY <2>1 DEF LOCKED, OthersStay, LocksKept
<1>2. CASE ~(c.pWriter # h /\ c.exclusive) /\ \E g \in Handle \ {h} : c.lock[g][t] \notin {0, eLock}
  <2> DEFINE e == IF eLock = WRITE_LOCK THEN [c EXCEPT !.pending = TRUE] ELSE c
  <2>1. q = LOCKED(e)
    BY <1>2 DEF sqlite3BtreeLockTable, querySharedCacheTableLock, LOCKED
  <2>2. e \in BtShared
    BY ONLY <1>0 DEF BtShared
  <2>3. /\ e.inTrans = c.inTrans /\ e.lock = c.lock /\ e.pWriter = c.pWriter
        /\ e.exclusive = c.exclusive /\ e.inTransaction = c.inTransaction
        /\ e.nTransaction = c.nTransaction /\ e.dirty = c.dirty
        /\ e.pending => c.pending \/ eLock = WRITE_LOCK
    BY ONLY <1>0 DEF BtShared
  <2> HIDE DEF e
  <2>4. Open(e) = Open(c)
    BY <2>3 DEF Open
  <2>5. eLock = WRITE_LOCK => c.pWriter = h /\ h # NoHandle
    OBVIOUS
  <2>6. CacheInv(e)
    BY <2>2, <2>3, <2>4, <2>5
  <2>7. OthersStay(c, e, h) /\ LocksKept(c, e, h)
    BY <2>3 DEF OthersStay, LocksKept
  <2> QED
    BY <2>1, <2>3, <2>6, <2>7 DEF LOCKED
<1>3. CASE ~(c.pWriter # h /\ c.exclusive) /\ ~\E g \in Handle \ {h} : c.lock[g][t] \notin {0, eLock}
  <2>1. q = IF eLock > c.lock[h][t] THEN [OK(c) EXCEPT !.cache.lock[h][t] = eLock] ELSE OK(c)
    BY <1>3 DEF sqlite3BtreeLockTable, querySharedCacheTableLock, OK
  <2>2. CASE ~(eLock > c.lock[h][t])
    <3>1. q.rc = "OK" /\ q.cache = c
      BY <2>1, <2>2 DEF OK
    <3> QED
      BY <2>2, <3>1 DEF OthersStay, LocksKept
  <2>3. CASE eLock > c.lock[h][t]
    <3> DEFINE e == [c EXCEPT !.lock[h][t] = eLock]
    <3>1. q.rc = "OK" /\ q.cache = e
      BY <2>1, <2>3 DEF OK
    <3>2. /\ e.lock = [c.lock EXCEPT ![h][t] = eLock]
          /\ e.inTrans = c.inTrans /\ e.pWriter = c.pWriter /\ e.pending = c.pending
          /\ e.exclusive = c.exclusive /\ e.inTransaction = c.inTransaction
          /\ e.nTransaction = c.nTransaction /\ e.dirty = c.dirty
      BY ONLY <1>0 DEF BtShared
    <3>3. e \in BtShared
      <4>1. [c.lock EXCEPT ![h][t] = eLock] \in [Handle -> [Tables -> 0 .. 2]]
        OBVIOUS
      <4> QED
        BY ONLY <1>0, <4>1 DEF BtShared, Trans
    <3> HIDE DEF e
    <3>4. Open(e) = Open(c)
      BY <3>2 DEF Open
    <3>5. /\ e.lock[h][t] = eLock
          /\ \A g \in Handle, u \in Tables : g # h \/ u # t => e.lock[g][u] = c.lock[g][u]
      BY <3>2
    <3>6. \A g \in Handle \ {h} : c.lock[g][t] = 0 \/ (c.lock[g][t] = eLock /\ eLock = READ_LOCK)
      <4>1. \A g \in Handle \ {h} : c.lock[g][t] = 0 \/ c.lock[g][t] = eLock
        BY ONLY <1>3
      <4>2. ASSUME NEW g \in Handle \ {h}, c.lock[g][t] = eLock, eLock # READ_LOCK
            PROVE  FALSE
        <5>1. c.inTrans[g] \in 0 .. 2 /\ c.inTrans[h] \in 0 .. 2 /\ eLock = WRITE_LOCK
          BY ONLY <1>0, <4>2, Types, eLock \in {READ_LOCK, WRITE_LOCK}
        <5>2. c.lock[g][t] <= c.inTrans[g]
          OBVIOUS
        <5>3. c.inTrans[g] = TRANS_WRITE /\ c.inTrans[h] = TRANS_WRITE
          BY ONLY <4>2, <5>1, <5>2, eLock <= c.inTrans[h] DEF WRITE_LOCK, TRANS_WRITE
        <5>4. c.pWriter = g /\ c.pWriter = h
          BY <5>3
        <5> QED
          BY ONLY <5>4
      <4> QED
        BY ONLY <4>1, <4>2
    <3>7. \A u \in e.dirty : \E g \in Handle : e.lock[g][u] = WRITE_LOCK
      BY <3>2, <3>5, <2>3
    <3>8. \A g, k \in Handle, u \in Tables : g # k /\ e.lock[k][u] = WRITE_LOCK => e.lock[g][u] = 0
      BY <3>5, <3>6, <2>3
    <3>9. \A g \in Handle, u \in Tables : e.lock[g][u] <= e.inTrans[g]
      BY <3>2, <3>5
    <3>10. \A g \in Handle : e.inTrans[g] # TRANS_NONE => e.lock[g][MASTER_ROOT] # 0
      BY <3>2, <3>5
    <3>11. CacheInv(e)
      BY <3>2, <3>3, <3>4, <3>7, <3>8, <3>9, <3>10
    <3>12. OthersStay(c, e, h) /\ LocksKept(c, e, h)
      BY <3>2, <3>5 DEF OthersStay, LocksKept
    <3> QED
      BY <3>1, <3>2, <3>5, <3>11, <3>12
  <2> QED
    BY <2>2, <2>3
<1> QED
  BY <1>1, <1>2, <1>3


\* The transaction that sqlite3BtreeBeginTrans opens, once nothing stands against it.
LEMMA OpenedKeeps ==
    ASSUME NEW c, CacheInv(c), NEW h \in Handle, NEW wrflag \in 0 .. 2,
           c.inTrans[h] # TRANS_WRITE, wrflag = 0 => c.inTrans[h] = TRANS_NONE,
           wrflag > 0 => c.inTransaction # TRANS_WRITE,
           wrflag > 1 => \A g \in Handle \ {h}, t \in Tables : c.lock[g][t] = 0,
           ~(c.pWriter # h /\ c.exclusive),
           \A g \in Handle \ {h} : c.lock[g][MASTER_ROOT] \in {0, READ_LOCK},
           NEW e, e = Opened(c, h, wrflag)
    PROVE  /\ CacheInv(e) /\ OthersStay(c, e, h) /\ LocksKept(c, e, h)
           /\ e.inTrans[h] = IF wrflag > 0 THEN TRANS_WRITE ELSE TRANS_READ
<1>0. c \in BtShared
  BY DEF CacheInv
<1> USE Types DEF CacheInv
<1> DEFINE trans == IF wrflag > 0 THEN TRANS_WRITE ELSE TRANS_READ
           first == c.inTrans[h] = TRANS_NONE
           locks == [c.lock EXCEPT ![h][MASTER_ROOT] = IF first THEN READ_LOCK ELSE @]
           count == IF first THEN c.nTransaction + 1 ELSE c.nTransaction
           highest == IF trans > c.inTransaction THEN trans ELSE c.inTransaction
           writer == IF wrflag > 0 THEN h ELSE c.pWriter
           only == IF wrflag > 0 THEN wrflag > 1 ELSE c.exclusive
           trs == [c.inTrans EXCEPT ![h] = trans]
           opened == [c EXCEPT !.nTransaction = count, !.lock = locks, !.inTrans = trs,
                               !.inTransaction = highest]
<1>1. e = IF wrflag > 0 THEN [opened EXCEPT !.pWriter = h, !.exclusive = wrflag > 1] ELSE opened
  BY DEF Opened
<1>a. /\ trs \in [Handle -> 0 .. 2] /\ locks \in [Handle -> [Tables -> 0 .. 2]]
      /\ highest \in 0 .. 2 /\ writer \in Handle \cup {NoHandle} /\ only \in BOOLEAN
  <2>1. trs \in [Handle -> 0 .. 2] /\ highest \in 0 .. 2 /\ writer \in Handle \cup {NoHandle}
    BY <1>0, Types
  <2>2. locks \in [Handle -> [Tables -> 0 .. 2]]
    BY <1>0, Types
  <2>3. only \in BOOLEAN
    <3>1. (wrflag > 1) \in BOOLEAN /\ c.exclusive \in BOOLEAN
      BY <1>0, Types
    <3> QED
      BY <3>1
  <2> QED
    BY <2>1, <2>2, <2>3
<1> HIDE DEF count, locks, highest, trs
<1>2. /\ e.inTrans = trs /\ e.lock = locks
      /\ e.pWriter = writer /\ e.pending = c.pending /\ e.exclusive = only
      /\ e.inTransaction = highest /\ e.nTransaction = count /\ e.dirty = c.dirty
  BY ONLY <1>0, <1>1 DEF BtShared
<1>b. ASSUME count \in 0 .. Cardinality(Handle) PROVE e \in BtShared
  <2>1. opened \in BtShared
    BY ONLY <1>0, <1>a, <1>b DEF BtShared, Trans
  <2> QED
    BY ONLY <1>1, <1>a, <2>1 DEF BtShared
<1> HIDE DEF opened, writer, only
<1>3. /\ \A g \in Handle \ {h} : e.inTrans[g] = c.inTrans[g]
      /\ e.inTrans[h] = trans
      /\ \A g \in Handle, t \in Tables :
            e.lock[g][t] = IF first /\ g = h /\ t = MASTER_ROOT THEN READ_LOCK ELSE c.lock[g][t]
  BY <1>2 DEF locks, trs
<1>4. Open(e) = Open(c) \cup {h} /\ (h \in Open(c) <=> ~first)
  BY <1>3 DEF Open
<1>5. e.nTransaction = Cardinality(Open(e)) /\ count \in 0 .. Cardinality(Handle)
  <2>1. Open(c) \in SUBSET Handle /\ Open(e) \in SUBSET Handle
    BY DEF Open
  <2>2. CASE first
    <3>1. Cardinality(Open(c) \cup {h}) = Cardinality(Open(c)) + 1
      BY <1>4, <2>1, <2>2, OpenCount
    <3>2. Cardinality(Open(e)) \in 0 .. Cardinality(Handle)
      BY <2>1, OpenCount
    <3> QED
      BY <1>2, <1>4, <2>2, <3>1, <3>2 DEF count
  <2>3. CASE ~first
    <3>1. Open(e) = Open(c)
      BY <1>4, <2>3
    <3> QED
      BY <1>2, <2>3, <3>1 DEF count
  <2> QED
    BY <2>2, <2>3
<1>6. e \in BtShared
  BY <1>5, <1>b
<1> HIDE DEF trans
<1>7. wrflag > 0 => c.pWriter = NoHandle
  OBVIOUS
<1>8. e.inTransaction = TRANS_WRITE <=> e.pWriter # NoHandle
  BY <1>2, <1>7 DEF highest, trans, writer
<1>9. e.pending \/ e.exclusive => e.pWriter # NoHandle
  BY <1>2, <1>7 DEF writer, only
<1>10. \A g \in Handle : e.inTrans[g] = TRANS_WRITE <=> e.pWriter = g
  BY <1>2, <1>3, <1>7 DEF trans, writer
<1>11. e.inTransaction = TRANS_NONE <=> Open(e) = {}
  BY <1>2, <1>4 DEF highest, trans
<1>12. \A g \in Handle, t \in Tables : e.lock[g][t] <= e.inTrans[g]
  <2>1. c.inTrans[h] <= trans /\ trans \in 1 .. 2
    BY <1>0, Types DEF trans
  <2>2. \A t \in Tables : c.lock[h][t] <= trans
    BY <1>0, <2>1, Types
  <2> SUFFICES ASSUME NEW g \in Handle, NEW t \in Tables PROVE e.lock[g][t] <= e.inTrans[g]
    OBVIOUS
  <2>3. CASE g = h
    BY <1>3, <2>1, <2>2, <2>3
  <2>4. CASE g # h
    BY <1>3, <2>4
  <2> QED
    BY <2>3, <2>4
<1>13. \A g \in Handle : e.inTrans[g] # TRANS_NONE => e.lock[g][MASTER_ROOT] # 0
  BY <1>3
<1>14. \A g, k \in Handle, t \in Tables : g # k /\ e.lock[k][t] = WRITE_LOCK => e.lock[g][t] = 0
  BY <1>3
<1>15. e.exclusive => \A g \in Open(e) : g = e.pWriter
  <2>1. CASE wrflag > 1
    <3>1. \A g \in Handle \ {h} : c.inTrans[g] = TRANS_NONE
      BY <2>1
    <3> QED
      BY <1>2, <1>3, <2>1, <3>1 DEF Open, writer
  <2>2. CASE ~(wrflag > 1)
    BY <1>2, <1>4, <1>7, <2>2 DEF writer, only
  <2> QED
    BY <2>1, <2>2
<1>16. \A t \in e.dirty : \E g \in Handle : e.lock[g][t] = WRITE_LOCK
  <2> SUFFICES ASSUME NEW t \in c.dirty PROVE \E g \in Handle : e.lock[g][t] = WRITE_LOCK
    BY <1>2
  <2>1. PICK g \in Handle : c.lock[g][t] = WRITE_LOCK
    OBVIOUS
  <2>2. t \in Tables /\ c.inTrans[g] # TRANS_NONE
    <3>1. t \in Tables
      BY <1>0, Types
    <3>2. c.lock[g][t] <= c.inTrans[g]
      BY <3>1
    <3> QED
      BY <2>1, <3>1, <3>2
  <2>3. e.lock[g][t] = WRITE_LOCK
    BY <1>3, <2>1, <2>2
  <2> QED
    BY <2>3
<1>17. CacheInv(e)
  BY <1>5, <1>6, <1>8, <1>9, <1>10, <1>11, <1>12, <1>13, <1>14, <1>15, <1>16
<1>18. OthersStay(c, e, h) /\ LocksKept(c, e, h)
  BY <1>3 DEF OthersStay, LocksKept, trans
<1> QED
  BY <1>3, <1>17, <1>18 DEF trans

LEMMA BeginTrans ==
    ASSUME NEW c, CacheInv(c), NEW h \in Handle, NEW wrflag \in 0 .. 2,
           NEW r \in sqlite3BtreeBeginTrans(c, h, wrflag)
    PROVE  /\ CacheInv(r.cache) /\ OthersStay(c, r.cache, h) /\ LocksKept(c, r.cache, h)
           /\ r.rc \in {"OK", "LOCKED", "BUSY"}
           /\ r.rc # "OK" => r.cache = c
           /\ r.rc = "OK" => r.cache.inTrans[h] >= IF wrflag > 0 THEN TRANS_WRITE ELSE TRANS_READ
           /\ r.rc = "BUSY" => faults < MaxFault
<1> DEFINE inside == c.inTrans[h] = TRANS_WRITE \/ (c.inTrans[h] = TRANS_READ /\ wrflag = 0)
           refused == \/ wrflag > 0 /\ c.inTransaction = TRANS_WRITE
                      \/ c.pending
                      \/ wrflag > 1 /\ \E g \in Handle \ {h}, t \in Tables : c.lock[g][t] # 0
                      \/ querySharedCacheTableLock(c, h, MASTER_ROOT, READ_LOCK).rc = "LOCKED"
<1>0. c \in BtShared /\ c.inTrans[h] \in 0 .. 2
  BY Types DEF CacheInv
<1>1. OthersStay(c, c, h) /\ LocksKept(c, c, h)
  BY DEF OthersStay, LocksKept
<1>2. CASE inside
  <2>1. r = OK(c)
    BY <1>2 DEF sqlite3BtreeBeginTrans
  <2> QED
    BY <1>0, <1>1, <1>2, <2>1 DEF OK
<1>3. CASE ~inside /\ refused
  <2>1. r = LOCKED(c)
    BY <1>3 DEF sqlite3BtreeBeginTrans
  <2> QED
    BY <1>1, <2>1 DEF LOCKED
<1>4. CASE ~inside /\ ~refused
  <2>1. r = OK(Opened(c, h, wrflag)) \/ (r = BUSY(c) /\ faults < MaxFault)
    BY <1>4 DEF sqlite3BtreeBeginTrans
  <2>2. CASE r = BUSY(c) /\ faults < MaxFault
    BY <1>1, <2>2 DEF BUSY
  <2>3. CASE r = OK(Opened(c, h, wrflag))
    <3> DEFINE e == Opened(c, h, wrflag)
    <3>1. r.rc = "OK" /\ r.cache = e
      BY <2>3 DEF OK
    <3>2. ~(c.pWriter # h /\ c.exclusive)
      BY <1>4 DEF querySharedCacheTableLock, LOCKED
    <3>3. \A g \in Handle \ {h} : c.lock[g][MASTER_ROOT] \in {0, READ_LOCK}
      BY <1>4, <3>2 DEF querySharedCacheTableLock, LOCKED
    <3>4. wrflag > 1 => \A g \in Handle \ {h}, t \in Tables : c.lock[g][t] = 0
      BY <1>4
    <3>5. c.inTrans[h] # TRANS_WRITE /\ (wrflag = 0 => c.inTrans[h] = TRANS_NONE)
      BY <1>0, <1>4
    <3>6. wrflag > 0 => c.inTransaction # TRANS_WRITE
      BY <1>4
    <3>7. /\ CacheInv(e) /\ OthersStay(c, e, h) /\ LocksKept(c, e, h)
          /\ e.inTrans[h] = IF wrflag > 0 THEN TRANS_WRITE ELSE TRANS_READ
      BY <3>2, <3>3, <3>4, <3>5, <3>6, OpenedKeeps
    <3> QED
      BY <3>1, <3>7
  <2> QED
    BY <2>1, <2>2, <2>3
<1> QED
  BY <1>2, <1>3, <1>4


\* The end of a transaction, committed or rolled back: n counts the active
\* statements of the connection.
LEMMA EndTransaction ==
    ASSUME NEW c, CacheInv(c), NEW h \in Handle, NEW n \in Nat,
           NEW e, e = sqlite3BtreeRollback(c, h, n)
    PROVE  /\ CacheInv(e) /\ OthersStay(c, e, h)
           /\ n > 1 => LocksKept(c, e, h)
<1>0. c \in BtShared
  BY DEF CacheInv
<1> USE DEF CacheInv
<1>1. CASE c.inTrans[h] = TRANS_NONE
  <2>1. e = c
    BY <1>1 DEF sqlite3BtreeRollback, btreeEndTransaction
  <2> QED
    BY <2>1 DEF OthersStay, LocksKept
<1>2. CASE c.inTrans[h] = TRANS_READ /\ n > 1
  <2>1. c.pWriter # h
    BY <1>2
  <2>2. e = [c EXCEPT !.inTrans[h] = TRANS_READ]
    BY <1>2, <2>1 DEF sqlite3BtreeRollback, btreeEndTransaction, downgradeAllSharedCacheTableLocks
  <2>3. [c.inTrans EXCEPT ![h] = TRANS_READ] = c.inTrans
    BY <1>0, <1>2, Types
  <2>4. e = c
    BY ONLY <1>0, <2>2, <2>3 DEF BtShared
  <2> QED
    BY <2>4 DEF OthersStay, LocksKept
<1>3. CASE c.inTrans[h] = TRANS_WRITE /\ n > 1
  <2> DEFINE undone == [c EXCEPT !.inTransaction = TRANS_READ, !.dirty = {}]
             locks == [g \in Handle |-> [t \in Tables |->
                          IF undone.lock[g][t] = WRITE_LOCK THEN READ_LOCK ELSE undone.lock[g][t]]]
             trs == [c.inTrans EXCEPT ![h] = TRANS_READ]
             down == [undone EXCEPT !.pWriter = NoHandle, !.exclusive = FALSE, !.pending = FALSE,
                                    !.lock = locks]
  <2>1. c.pWriter = h
    BY <1>3
  <2>2. undone.inTrans = c.inTrans /\ undone.pWriter = c.pWriter /\ undone.lock = c.lock
    BY ONLY <1>0 DEF BtShared
  <2>3. e = [down EXCEPT !.inTrans[h] = TRANS_READ]
    <3>1. e = btreeEndTransaction(undone, h, n)
      BY <1>3 DEF sqlite3BtreeRollback
    <3> HIDE DEF undone
    <3>2. e = [downgradeAllSharedCacheTableLocks(undone, h) EXCEPT !.inTrans[h] = TRANS_READ]
      BY <1>3, <2>2, <3>1 DEF btreeEndTransaction
    <3>3. downgradeAllSharedCacheTableLocks(undone, h) = down
      BY <2>1, <2>2 DEF downgradeAllSharedCacheTableLocks
    <3> QED
      BY <3>2, <3>3
  <2>4. locks \in [Handle -> [Tables -> 0 .. 2]] /\ trs \in [Handle -> 0 .. 2]
    BY <1>0, <2>2, Types
  <2> HIDE DEF locks
  <2>5. /\ e.inTrans = trs /\ e.lock = locks /\ e.pWriter = NoHandle
        /\ e.pending = FALSE /\ e.exclusive = FALSE /\ e.inTransaction = TRANS_READ
        /\ e.nTransaction = c.nTransaction /\ e.dirty = {}
    BY ONLY <1>0, <2>3 DEF BtShared
  <2>6. e \in BtShared
    <3>1. down \in BtShared
      BY ONLY <1>0, <2>4 DEF BtShared, Trans
    <3> QED
      BY ONLY <2>3, <2>4, <3>1 DEF BtShared, Trans
  <2> HIDE DEF trs
  <2>7. /\ \A g \in Handle, t \in Tables :
              e.lock[g][t] = IF c.lock[g][t] = WRITE_LOCK THEN READ_LOCK ELSE c.lock[g][t]
        /\ \A g \in Handle \ {h} : e.inTrans[g] = c.inTrans[g]
        /\ e.inTrans[h] = TRANS_READ
    BY <1>0, <2>2, <2>5, Types DEF locks, trs
  <2>8. \A g \in Handle \ {h}, t \in Tables : c.inTrans[g] # TRANS_WRITE /\ c.lock[g][t] # WRITE_LOCK
    <3> SUFFICES ASSUME NEW g \in Handle \ {h}, NEW t \in Tables
                 PROVE  c.inTrans[g] # TRANS_WRITE /\ c.lock[g][t] # WRITE_LOCK
      OBVIOUS
    <3>1. c.inTrans[g] # TRANS_WRITE /\ c.inTrans[g] \in 0 .. 2
      BY <1>0, <2>1, Types
    <3>2. c.lock[g][t] <= c.inTrans[g]
      OBVIOUS
    <3> QED
      BY <3>1, <3>2
  <2>9. Open(e) = Open(c) /\ h \in Open(c)
    BY <1>3, <2>7 DEF Open
  <2>10. \A g \in Handle, t \in Tables : e.lock[g][t] <= e.inTrans[g] /\ e.lock[g][t] # WRITE_LOCK
    <3> SUFFICES ASSUME NEW g \in Handle, NEW t \in Tables
                 PROVE  e.lock[g][t] <= e.inTrans[g] /\ e.lock[g][t] # WRITE_LOCK
      OBVIOUS
    <3>1. c.lock[g][t] \in 0 .. 2 /\ c.lock[g][t] <= c.inTrans[g]
      BY <1>0, Types
    <3>2. CASE g = h
      BY <2>7, <3>1, <3>2
    <3>3. CASE g # h
      BY <2>7, <2>8, <3>1, <3>3
    <3> QED
      BY <3>2, <3>3
  <2>11. \A g \in Handle : e.inTrans[g] # TRANS_NONE => e.lock[g][MASTER_ROOT] # 0
    BY <1>3, <2>7
  <2>12. \A g \in Handle : e.inTrans[g] # TRANS_WRITE
    BY <2>7, <2>8
  <2>13. CacheInv(e)
    BY <2>5, <2>6, <2>9, <2>10, <2>11, <2>12
  <2>14. OthersStay(c, e, h)
    BY <2>7, <2>8 DEF OthersStay
  <2>15. LocksKept(c, e, h)
    BY <2>7 DEF LocksKept
  <2> QED
    BY <2>13, <2>14, <2>15
<1>4. CASE c.inTrans[h] # TRANS_NONE /\ ~(n > 1)
  <2> DEFINE wasWriter == c.pWriter = h
             locks == [c.lock EXCEPT ![h] = [t \in Tables |-> 0]]
             trs == [c.inTrans EXCEPT ![h] = TRANS_NONE]
             left == IF c.nTransaction = 1 THEN TRANS_NONE
                     ELSE IF wasWriter THEN TRANS_READ ELSE c.inTransaction
  <2>1. wasWriter <=> c.inTrans[h] = TRANS_WRITE
    OBVIOUS
  <2>2. locks \in [Handle -> [Tables -> 0 .. 2]] /\ trs \in [Handle -> 0 .. 2] /\ left \in 0 .. 2
    BY <1>0, Types
  <2>3. /\ e.inTrans = trs /\ e.lock = locks
        /\ e.pWriter = (IF wasWriter THEN NoHandle ELSE c.pWriter)
        /\ e.exclusive = (IF wasWriter THEN FALSE ELSE c.exclusive)
        /\ e.pending = (IF wasWriter \/ c.nTransaction = 2 THEN FALSE ELSE c.pending)
        /\ e.inTransaction = left /\ e.nTransaction = c.nTransaction - 1
        /\ e.dirty = (IF wasWriter THEN {} ELSE c.dirty)
        /\ (c.nTransaction - 1 \in 0 .. Cardinality(Handle) => e \in BtShared)
    <3> DEFINE b == IF wasWriter THEN [c EXCEPT !.inTransaction = TRANS_READ, !.dirty = {}] ELSE c
               free == [b EXCEPT !.lock[h] = [t \in Tables |-> 0]]
               cleared == clearAllSharedCacheTableLocks(b, h)
    <3>1. e = btreeEndTransaction(b, h, n)
      BY <2>1 DEF sqlite3BtreeRollback
    <3>2. /\ b.inTrans = c.inTrans /\ b.lock = c.lock /\ b.pWriter = c.pWriter
          /\ b.pending = c.pending /\ b.exclusive = c.exclusive /\ b.nTransaction = c.nTransaction
          /\ b.inTransaction = (IF wasWriter THEN TRANS_READ ELSE c.inTransaction)
          /\ b.dirty = (IF wasWriter THEN {} ELSE c.dirty)
          /\ b \in BtShared
      <4> HIDE DEF wasWriter
      <4>1. CASE wasWriter
        <5>1. b = [c EXCEPT !.inTransaction = TRANS_READ, !.dirty = {}]
          BY ONLY <4>1
        <5> HIDE DEF b
        <5>2. /\ b.inTrans = c.inTrans /\ b.lock = c.lock /\ b.pWriter = c.pWriter
              /\ b.pending = c.pending /\ b.exclusive = c.exclusive
              /\ b.nTransaction = c.nTransaction
              /\ b.inTransaction = TRANS_READ /\ b.dirty = {}
          BY ONLY <1>0, <5>1 DEF BtShared
        <5>3. b \in BtShared
          <6>1. [c EXCEPT !.inTransaction = TRANS_READ] \in BtShared
            BY ONLY <1>0 DEF BtShared, Trans
          <6>2. ASSUME NEW d \in BtShared PROVE [d EXCEPT !.dirty = {}] \in BtShared
            BY ONLY <6>2 DEF BtShared
          <6> QED
            BY ONLY <5>1, <6>1, <6>2
        <5> QED
          BY ONLY <4>1, <5>2, <5>3
      <4>2. CASE ~wasWriter
        <5>1. b = c
          BY ONLY <4>2
        <5> HIDE DEF b
        <5> QED
          BY ONLY <1>0, <4>2, <5>1
      <4> QED
        BY ONLY <4>1, <4>2
    <3> HIDE DEF b
    <3>3. e = [cleared EXCEPT !.inTrans[h] = TRANS_NONE, !.nTransaction = @ - 1,
                  !.inTransaction = IF b.nTransaction = 1 THEN TRANS_NONE ELSE @]
      BY <1>4, <3>1, <3>2 DEF btreeEndTransaction
    <3>4. /\ free.inTrans = c.inTrans /\ free.lock = locks /\ free.pWriter = c.pWriter
          /\ free.pending = c.pending /\ free.exclusive = c.exclusive
          /\ free.nTransaction = c.nTransaction
          /\ free.inTransaction = b.inTransaction /\ free.dirty = b.dirty
          /\ free \in BtShared
      BY ONLY <3>2, <2>2 DEF BtShared, Trans
    <3>5. cleared = IF wasWriter
                    THEN [free EXCEPT !.pWriter = NoHandle, !.exclusive = FALSE, !.pending = FALSE]
                    ELSE IF c.nTransaction = 2 THEN [free EXCEPT !.pending = FALSE] ELSE free
      BY <3>2 DEF clearAllSharedCacheTableLocks
    <3> HIDE DEF free, locks, cleared
    <3>6. /\ cleared.inTrans = c.inTrans /\ cleared.lock = locks
          /\ cleared.pWriter = (IF wasWriter THEN NoHandle ELSE c.pWriter)
          /\ cleared.exclusive = (IF wasWriter THEN FALSE ELSE c.exclusive)
          /\ cleared.pending = (IF wasWriter \/ c.nTransaction = 2 THEN FALSE ELSE c.pending)
          /\ cleared.nTransaction = c.nTransaction
          /\ cleared.inTransaction = b.inTransaction /\ cleared.dirty = b.dirty
          /\ cleared \in BtShared
      BY ONLY <3>4, <3>5 DEF BtShared
    <3> HIDE DEF wasWriter
    <3>7. e = [cleared EXCEPT !.inTrans = trs, !.nTransaction = c.nTransaction - 1,
                              !.inTransaction = left]
      BY <3>2, <3>3, <3>6
    <3> HIDE DEF trs, left
    <3>8. /\ e.inTrans = trs /\ e.lock = cleared.lock /\ e.pWriter = cleared.pWriter
          /\ e.pending = cleared.pending /\ e.exclusive = cleared.exclusive
          /\ e.nTransaction = c.nTransaction - 1
          /\ e.inTransaction = left /\ e.dirty = cleared.dirty
          /\ (c.nTransaction - 1 \in 0 .. Cardinality(Handle) => e \in BtShared)
      BY ONLY <2>2, <3>6, <3>7 DEF BtShared, Trans
    <3> QED
      BY <3>2, <3>6, <3>8
  <2>4. /\ \A g \in Handle, t \in Tables : e.lock[g][t] = IF g = h THEN 0 ELSE c.lock[g][t]
        /\ \A g \in Handle \ {h} : e.inTrans[g] = c.inTrans[g]
        /\ e.inTrans[h] = TRANS_NONE
    BY <1>0, <2>3, Types
  <2> HIDE DEF locks, trs
  <2>5. Open(e) = Open(c) \ {h} /\ h \in Open(c) /\ Open(c) \in SUBSET Handle
    BY <1>4, <2>4 DEF Open
  <2>6. /\ Cardinality(Open(e)) = Cardinality(Open(c)) - 1
        /\ Cardinality(Open(e)) \in 0 .. Cardinality(Handle)
        /\ c.nTransaction = 1 <=> Open(c) = {h}
    <3>1. Cardinality(Open(c) \ {h}) = Cardinality(Open(c)) - 1
      BY <2>5, OpenCount
    <3>2. Open(e) \in SUBSET Handle
      BY <2>5
    <3>3. Cardinality(Open(e)) \in 0 .. Cardinality(Handle)
      BY <3>2, OpenCount
    <3>4. Cardinality(Open(c)) = 1 <=> Open(c) = {h}
      BY <2>5, OpenCount
    <3> QED
      BY <2>5, <3>1, <3>3, <3>4
  <2>7. e \in BtShared /\ e.nTransaction = Cardinality(Open(e))
    BY <2>3, <2>6
  <2>8. \A g \in Handle : e.inTrans[g] = TRANS_WRITE <=> e.pWriter = g
    <3>1. CASE wasWriter
      <4>1. \A g \in Handle \ {h} : c.inTrans[g] # TRANS_WRITE
        BY <3>1
      <4> QED
        BY <2>3, <2>4, <3>1, <4>1
    <3>2. CASE ~wasWriter
      <4>1. \A g \in Handle : c.inTrans[g] = TRANS_WRITE <=> c.pWriter = g
        OBVIOUS
      <4> QED
        BY <2>3, <2>4, <3>2, <4>1
    <3> QED
      BY <3>1, <3>2
  <2>9. e.inTransaction = TRANS_WRITE <=> e.pWriter # NoHandle
    <3>1. ASSUME c.nTransaction = 1, ~wasWriter PROVE c.pWriter = NoHandle
      <4>1. c.pWriter \in Handle => c.inTrans[c.pWriter] = TRANS_WRITE
        OBVIOUS
      <4>2. c.pWriter \in Handle => c.pWriter \in Open(c)
        BY <4>1 DEF Open
      <4> QED
        BY <1>0, <2>6, <3>1, <4>2, Types
    <3> QED
      BY <2>3, <3>1
  <2>10. e.inTransaction = TRANS_NONE <=> Open(e) = {}
    BY <2>3, <2>5, <2>6
  <2>11. e.pending \/ e.exclusive => e.pWriter # NoHandle
    BY <2>3
  <2>12. \A g \in Handle, t \in Tables : e.lock[g][t] <= e.inTrans[g]
    BY <2>4
  <2>13. \A g \in Handle : e.inTrans[g] # TRANS_NONE => e.lock[g][MASTER_ROOT] # 0
    BY <2>4
  <2>14. \A g, k \in Handle, t \in Tables : g # k /\ e.lock[k][t] = WRITE_LOCK => e.lock[g][t] = 0
    BY <2>4
  <2>15. e.exclusive => \A g \in Open(e) : g = e.pWriter
    BY <2>3, <2>5
  <2>16. \A t \in e.dirty : \E g \in Handle : e.lock[g][t] = WRITE_LOCK
    <3> SUFFICES ASSUME NEW t \in c.dirty, ~wasWriter PROVE \E g \in Handle : e.lock[g][t] = WRITE_LOCK
      BY <2>3
    <3>1. t \in Tables
      BY <1>0, Types
    <3>2. PICK g \in Handle : c.lock[g][t] = WRITE_LOCK
      OBVIOUS
    <3>3. c.lock[h][t] <= c.inTrans[h] /\ c.inTrans[h] \in 0 .. 1
      BY <1>0, <2>1, <3>1, Types
    <3>4. g # h
      BY <3>2, <3>3
    <3> QED
      BY <2>4, <3>1, <3>2, <3>4
  <2>17. CacheInv(e)
    BY <2>7, <2>8, <2>9, <2>10, <2>11, <2>12, <2>13, <2>14, <2>15, <2>16
  <2>18. OthersStay(c, e, h)
    BY <2>4 DEF OthersStay
  <2> QED
    BY <1>4, <2>17, <2>18
<1> QED
  BY <1>1, <1>2, <1>3, <1>4, <1>0, Types


\* The writer changes a table it has locked.
LEMMA DirtyKeeps ==
    ASSUME NEW c, CacheInv(c), NEW h \in Handle, NEW t \in Tables, c.lock[h][t] = WRITE_LOCK,
           NEW e, e = [c EXCEPT !.dirty = @ \cup {t}]
    PROVE  CacheInv(e) /\ OthersStay(c, e, h) /\ LocksKept(c, e, h)
<1>0. c \in BtShared
  BY DEF CacheInv
<1>1. /\ e.inTrans = c.inTrans /\ e.lock = c.lock /\ e.pWriter = c.pWriter
      /\ e.pending = c.pending /\ e.exclusive = c.exclusive
      /\ e.inTransaction = c.inTransaction /\ e.nTransaction = c.nTransaction
      /\ e.dirty = c.dirty \cup {t} /\ e \in BtShared
  BY ONLY <1>0, e = [c EXCEPT !.dirty = @ \cup {t}], t \in Tables DEF BtShared
<1>2. Open(e) = Open(c)
  BY <1>1 DEF Open
<1>3. \A u \in e.dirty : \E g \in Handle : e.lock[g][u] = WRITE_LOCK
  <2>1. e.lock[h][t] = WRITE_LOCK
    BY <1>1
  <2>2. \A u \in c.dirty : \E g \in Handle : e.lock[g][u] = WRITE_LOCK
    BY <1>1 DEF CacheInv
  <2> QED
    BY <1>1, <2>1, <2>2
<1>4. CacheInv(e)
  <2> DEFINE Rest(d) ==
        /\ d.pending \/ d.exclusive => d.pWriter # NoHandle
        /\ d.inTransaction = TRANS_WRITE <=> d.pWriter # NoHandle
        /\ \A g \in Handle : d.inTrans[g] = TRANS_WRITE <=> d.pWriter = g
        /\ d.nTransaction = Cardinality(Open(d))
        /\ d.inTransaction = TRANS_NONE <=> Open(d) = {}
        /\ \A g \in Handle, u \in Tables : d.lock[g][u] <= d.inTrans[g]
        /\ \A g \in Handle : d.inTrans[g] # TRANS_NONE => d.lock[g][MASTER_ROOT] # 0
        /\ \A g, k \in Handle, u \in Tables :
              g # k /\ d.lock[k][u] = WRITE_LOCK => d.lock[g][u] = 0
        /\ d.exclusive => \A g \in Open(d) : g = d.pWriter
  <2>1. Rest(c)
    BY DEF CacheInv
  <2>2. Rest(e)
    BY ONLY <1>1, <1>2, <2>1
  <2> QED
    BY ONLY <1>1, <1>3, <2>2 DEF CacheInv
<1> QED
  BY <1>1, <1>4 DEF OthersStay, LocksKept

-----------------------------------------------------------------------------
(* Statements keep the locks of what they read. *)

LEMMA OthersTwice ==
    ASSUME NEW c, NEW d, NEW e, NEW h \in Handle, OthersStay(c, d, h), OthersStay(d, e, h)
    PROVE  OthersStay(c, e, h)
BY DEF OthersStay

LEMMA KeepsOn ==
    ASSUME NEW c, NEW e, NEW h \in Handle, NEW x \in Stmt, Keeps(c, h, x), LocksKept(c, e, h)
    PROVE  Keeps(e, h, x)
<1>1. x.running => x.arg \in Tables
  BY DEF Stmt
<1> QED
  BY <1>1 DEF Keeps, LocksKept

\* Where another statement is active, the connection has more than one.
LEMMA MoreThanOne ==
    ASSUME NEW S, IsFiniteSet(S), NEW s \in S
    PROVE  /\ Cardinality(S) \in Nat
           /\ S \ {s} # {} => Cardinality(S) > 1
<1>1. Cardinality(S) \in Nat
  BY FS_CardinalityType
<1>2. Cardinality(S \ {s}) = Cardinality(S) - 1 /\ IsFiniteSet(S \ {s})
  BY FS_RemoveElement
<1>3. Cardinality(S \ {s}) = 0 <=> S \ {s} = {}
  BY <1>2, FS_EmptySet
<1>4. Cardinality(S \ {s}) \in Nat
  BY <1>2, FS_CardinalityType
<1> QED
  BY <1>1, <1>2, <1>3, <1>4

\* A transaction that ends leaves the statements that stay active their locks.
LEMMA EndKeeps ==
    ASSUME NEW c, CacheInv(c), NEW h \in Handle, NEW n \in Nat, NEW T \in SUBSET Stmt,
           T # {} => n > 1, \A x \in T : Keeps(c, h, x),
           NEW e, e = sqlite3BtreeRollback(c, h, n)
    PROVE  CacheInv(e) /\ OthersStay(c, e, h) /\ \A x \in T : Keeps(e, h, x)
<1>1. CacheInv(e) /\ OthersStay(c, e, h) /\ (n > 1 => LocksKept(c, e, h))
  BY EndTransaction
<1>2. ASSUME NEW x \in T PROVE Keeps(e, h, x)
  BY <1>1, <1>2, KeepsOn
<1> QED
  BY <1>1, <1>2

LEMMA HaltKeeps ==
    ASSUME NEW c, CacheInv(c), NEW h \in Handle, NEW S \in SUBSET Stmt, IsFiniteSet(S), NEW s \in S,
           \A x \in S \ {s} : Keeps(c, h, x),
           NEW e, e = HaltError(c, h, S, s) \/ e \in HaltOK(c, h, S, s)
                  \/ e = sqlite3BtreeRollback(c, h, Cardinality(S))
    PROVE  CacheInv(e) /\ OthersStay(c, e, h) /\ \A x \in S \ {s} : Keeps(e, h, x)
<1>1. e = c \/ e = sqlite3BtreeRollback(c, h, Cardinality(S))
  BY DEF HaltError, HaltOK, sqlite3BtreeCommitPhaseTwo, sqlite3BtreeRollback
<1>2. CASE e = c
  BY <1>2 DEF OthersStay
<1>3. CASE e = sqlite3BtreeRollback(c, h, Cardinality(S))
  <2>1. Cardinality(S) \in Nat /\ (S \ {s} # {} => Cardinality(S) > 1)
    BY MoreThanOne
  <2>2. S \ {s} \in SUBSET Stmt
    OBVIOUS
  <2> QED
    BY <1>3, <2>1, <2>2, EndKeeps
<1> QED
  BY <1>1, <1>2, <1>3

-----------------------------------------------------------------------------
(* Every action keeps the invariant. *)

LEMMA Waitings ==
    /\ \A t \in Tables : /\ Waiting("read", t) \in Stmt /\ Waiting("write", t) \in Stmt
                         /\ [Waiting("read", t) EXCEPT !.running = TRUE] \in Stmt
                         /\ [Waiting("read", t) EXCEPT !.running = TRUE].arg = t
                         /\ [Waiting("read", t) EXCEPT !.running = TRUE].running
    /\ \A w \in 1 .. 2 : Waiting("begin", w) \in Stmt
    /\ Waiting("commit", 0) \in Stmt
    /\ \A op, arg : Waiting(op, arg).running = FALSE /\ Waiting(op, arg).op = op
<1>1. \A t \in Tables : Waiting("read", t) \in Stmt /\ Waiting("write", t) \in Stmt
  BY DEF Waiting, Stmt
<1>2. ASSUME NEW t \in Tables
      PROVE  /\ [Waiting("read", t) EXCEPT !.running = TRUE] \in Stmt
             /\ [Waiting("read", t) EXCEPT !.running = TRUE].arg = t
             /\ [Waiting("read", t) EXCEPT !.running = TRUE].running
  <2> DEFINE W == [op |-> "read", arg |-> t, running |-> FALSE]
             A == [op : {"read", "write"}, arg : Tables, running : BOOLEAN]
  <2>1. W \in A /\ W.arg = t
    OBVIOUS
  <2>2. ASSUME NEW x \in A PROVE /\ [x EXCEPT !.running = TRUE] \in A
                                 /\ [x EXCEPT !.running = TRUE].arg = x.arg
                                 /\ [x EXCEPT !.running = TRUE].running
    BY ONLY <2>2
  <2>3. /\ [W EXCEPT !.running = TRUE] \in A
        /\ [W EXCEPT !.running = TRUE].arg = t
        /\ [W EXCEPT !.running = TRUE].running
    <3> HIDE DEF W
    <3> QED
      BY ONLY <2>1, <2>2
  <2> HIDE DEF W, A
  <2>4. Waiting("read", t) = W
    BY DEF Waiting, W
  <2>5. A \in SUBSET Stmt
    BY DEF Stmt, A
  <2> QED
    BY ONLY <2>3, <2>4, <2>5
<1>3. \A w \in 1 .. 2 : Waiting("begin", w) \in Stmt
  BY DEF Waiting, Stmt
<1>4. Waiting("commit", 0) \in Stmt
  BY DEF Waiting, Stmt
<1>5. \A op, arg : Waiting(op, arg).running = FALSE /\ Waiting(op, arg).op = op
  BY DEF Waiting
<1> QED
  BY <1>1, <1>2, <1>3, <1>4, <1>5

LEMMA GoesKeeps ==
    ASSUME IInv, NEW h \in Handle, NEW s \in Stmt, NEW S \in SUBSET Stmt, IsFiniteSet(S), NEW c,
           CacheInv(c), OthersStay(cache, c, h), \A x \in S : Keeps(c, h, x),
           Called(h, s) \/ s.op = "commit", Goes(h, s, S, c),
           autoCommit' \in [Handle -> BOOLEAN], faults' \in 0 .. MaxFault
    PROVE  IInv'
<1>1. cache' = c /\ stmts' = [stmts EXCEPT ![h] = S]
  BY DEF Goes
<1>2. stmts' \in [Handle -> SUBSET Stmt]
  BY <1>1 DEF IInv, TypeOK
<1>3. started' \in [Handle -> 0 .. MaxStmt]
  <2>1. started \in [Handle -> 0 .. MaxStmt] /\ started[h] \in 0 .. MaxStmt
    BY DEF IInv, TypeOK
  <2>2. s \in stmts[h] \/ s.op = "commit" \/ started[h] + 1 \in 0 .. MaxStmt
    BY <2>1 DEF Called
  <2>3. PICK k \in 0 .. MaxStmt : started' = [started EXCEPT ![h] = k]
    <3>1. CASE c.inTrans[h] = TRANS_NONE /\ S = {}
      <4>1. started' = [started EXCEPT ![h] = 0]
        BY <3>1 DEF Goes
      <4>2. 0 \in 0 .. MaxStmt
        BY SharedCacheAssumption
      <4> QED
        BY <4>1, <4>2
    <3>2. CASE ~(c.inTrans[h] = TRANS_NONE /\ S = {}) /\ (s \in stmts[h] \/ s.op = "commit")
      BY <2>1, <3>2 DEF Goes
    <3>3. CASE ~(c.inTrans[h] = TRANS_NONE /\ S = {}) /\ ~(s \in stmts[h] \/ s.op = "commit")
      BY <2>1, <2>2, <3>3 DEF Goes
    <3> QED
      BY <3>1, <3>2, <3>3
  <2> QED
    BY <2>1, <2>3
<1>4. TypeOK'
  <2>1. c \in BtShared
    BY DEF CacheInv
  <2> QED
    BY <1>1, <1>2, <1>3, <2>1 DEF TypeOK
<1>5. CacheInv(cache')
  BY <1>1
<1>6. StmtInv'
  <2> SUFFICES ASSUME NEW g \in Handle
               PROVE  IsFiniteSet(stmts'[g]) /\ \A x \in stmts'[g] : Keeps(cache', g, x)
    BY DEF StmtInv, Keeps
  <2>1. CASE g = h
    BY <1>1, <2>1 DEF IInv, TypeOK
  <2>2. CASE g # h
    <3>1. stmts'[g] = stmts[g]
      BY <1>1, <2>2 DEF IInv, TypeOK
    <3>2. IsFiniteSet(stmts[g]) /\ \A x \in stmts[g] : Keeps(cache, g, x)
      BY DEF IInv, StmtInv
    <3>3. ASSUME NEW x \in stmts[g] PROVE Keeps(c, g, x)
      <4>1. x \in Stmt
        BY DEF IInv, TypeOK
      <4>2. x.running => x.arg \in Tables
        BY <4>1 DEF Stmt
      <4> QED
        BY <2>2, <3>2, <3>3, <4>2 DEF Keeps, OthersStay
    <3> QED
      BY <1>1, <3>1, <3>2, <3>3
  <2> QED
    BY <2>1, <2>2
<1>7. CacheInv(cache)'
  BY <1>5 DEF CacheInv, Open
<1> QED
  BY <1>4, <1>6, <1>7 DEF IInv

LEMMA Active ==
    ASSUME IInv, NEW h \in Handle, NEW s \in Stmt
    PROVE  /\ stmts[h] \in SUBSET Stmt /\ IsFiniteSet(stmts[h])
           /\ stmts[h] \cup {s} \in SUBSET Stmt /\ IsFiniteSet(stmts[h] \cup {s})
           /\ stmts[h] \ {s} \in SUBSET Stmt /\ IsFiniteSet(stmts[h] \ {s})
           /\ (stmts[h] \cup {s}) \ {s} = stmts[h] \ {s}
           /\ \A x \in stmts[h] : Keeps(cache, h, x)
           /\ CacheInv(cache) /\ TypeOK
<1>1. stmts[h] \in SUBSET Stmt
  BY DEF IInv, TypeOK
<1>2. IsFiniteSet(stmts[h]) /\ \A x \in stmts[h] : Keeps(cache, h, x)
  BY DEF IInv, StmtInv
<1>3. IsFiniteSet(stmts[h] \cup {s}) /\ IsFiniteSet(stmts[h] \ {s})
  BY <1>2, FS_AddElement, FS_RemoveElement
<1> QED
  BY <1>1, <1>2, <1>3 DEF IInv

LEMMA WaitsKeeps ==
    ASSUME IInv, NEW h \in Handle, NEW s \in Stmt, ~s.running,
           Called(h, s) \/ s.op = "commit", faults < MaxFault, Waits(h, s)
    PROVE  IInv'
<1>1. \A x \in stmts[h] \cup {s} : Keeps(cache, h, x)
  BY Active DEF Keeps
<1>2. CacheInv(cache) /\ OthersStay(cache, cache, h)
  BY Active DEF OthersStay
<1>3. autoCommit' \in [Handle -> BOOLEAN] /\ faults' \in 0 .. MaxFault
  BY DEF Waits, IInv, TypeOK
<1>4. Goes(h, s, stmts[h] \cup {s}, cache)
  BY DEF Waits
<1>5. stmts[h] \cup {s} \in SUBSET Stmt /\ IsFiniteSet(stmts[h] \cup {s})
  BY Active
<1> QED
  BY <1>1, <1>2, <1>3, <1>4, <1>5, GoesKeeps

\* However a statement halts, with c the cache as it left it.
LEMMA HaltsKeeps ==
    ASSUME IInv, NEW h \in Handle, NEW s \in Stmt, Called(h, s) \/ s.op = "commit", NEW c,
           CacheInv(c), OthersStay(cache, c, h), LocksKept(cache, c, h),
           NEW S, S = stmts[h] \cup {s},
           NEW e, e = HaltError(c, h, S, s) \/ e \in HaltOK(c, h, S, s)
                  \/ e = sqlite3BtreeRollback(c, h, Cardinality(S)),
           Goes(h, s, S \ {s}, e),
           autoCommit' \in [Handle -> BOOLEAN], faults' \in 0 .. MaxFault
    PROVE  IInv'
<1>1. /\ S \in SUBSET Stmt /\ IsFiniteSet(S) /\ s \in S
      /\ S \ {s} \in SUBSET Stmt /\ IsFiniteSet(S \ {s}) /\ S \ {s} \in SUBSET stmts[h]
  BY Active
<1>2. ASSUME NEW x \in S \ {s} PROVE Keeps(c, h, x)
  <2>1. x \in Stmt /\ Keeps(cache, h, x)
    BY <1>1, Active
  <2> QED
    BY <2>1, KeepsOn
<1>3. CacheInv(e) /\ OthersStay(c, e, h) /\ \A x \in S \ {s} : Keeps(e, h, x)
  BY <1>1, <1>2, HaltKeeps
<1>4. OthersStay(cache, e, h)
  BY <1>3, OthersTwice
<1> QED
  BY <1>1, <1>3, <1>4, GoesKeeps

LEMMA FailsKeeps ==
    ASSUME IInv, NEW h \in Handle, NEW s \in Stmt, Called(h, s), NEW c,
           CacheInv(c), OthersStay(cache, c, h), LocksKept(cache, c, h), Fails(h, s, c)
    PROVE  IInv'
<1> DEFINE S == stmts[h] \cup {s}
<1>1. Goes(h, s, S \ {s}, HaltError(c, h, S, s))
  BY DEF Fails
<1>2. autoCommit' \in [Handle -> BOOLEAN] /\ faults' \in 0 .. MaxFault
  BY DEF Fails, IInv, TypeOK
<1> HIDE DEF S
<1>3. S = stmts[h] \cup {s}
  BY DEF S
<1> QED
  BY <1>1, <1>2, <1>3, HaltsKeeps

LEMMA AbortedKeeps ==
    ASSUME IInv, NEW h \in Handle, NEW s \in Stmt, Called(h, s), NEW c,
           CacheInv(c), OthersStay(cache, c, h), LocksKept(cache, c, h), Aborted(h, s, c)
    PROVE  IInv'
<1> DEFINE S == stmts[h] \cup {s}
<1>1. Goes(h, s, S \ {s}, sqlite3BtreeRollback(c, h, Cardinality(S)))
  BY DEF Aborted
<1>2. autoCommit' \in [Handle -> BOOLEAN] /\ faults' \in 0 .. MaxFault
  BY DEF Aborted, IInv, TypeOK
<1> HIDE DEF S
<1>3. S = stmts[h] \cup {s}
  BY DEF S
<1> QED
  BY <1>1, <1>2, <1>3, HaltsKeeps

LEMMA NothingDone ==
    ASSUME NEW h \in Handle
    PROVE  OthersStay(cache, cache, h) /\ LocksKept(cache, cache, h)
BY DEF OthersStay, LocksKept

LEMMA EndReadKeeps ==
    ASSUME IInv, NEW h \in Handle, NEW s \in stmts[h], EndRead(h, s)
    PROVE  IInv'
<1>1. s \in Stmt /\ Called(h, s) /\ stmts[h] \cup {s} = stmts[h]
  BY DEF IInv, TypeOK, Called
<1>2. PICK e \in HaltOK(cache, h, stmts[h] \cup {s}, s) : Goes(h, s, (stmts[h] \cup {s}) \ {s}, e)
  BY <1>1 DEF EndRead
<1>3. autoCommit' \in [Handle -> BOOLEAN] /\ faults' \in 0 .. MaxFault
  BY DEF EndRead, IInv, TypeOK
<1>4. CacheInv(cache)
  BY DEF IInv
<1> QED
  BY <1>1, <1>2, <1>3, <1>4, NothingDone, HaltsKeeps

LEMMA ResetKeeps ==
    ASSUME IInv, NEW h \in Handle, NEW s \in stmts[h], Reset(h, s)
    PROVE  IInv'
<1>1. s \in Stmt /\ Called(h, s) /\ stmts[h] \cup {s} = stmts[h]
  BY DEF IInv, TypeOK, Called
<1>2. Fails(h, s, cache)
  BY <1>1 DEF Reset, Fails
<1>3. CacheInv(cache)
  BY DEF IInv
<1> QED
  BY <1>1, <1>2, <1>3, NothingDone, FailsKeeps

LEMMA ReadErrorKeeps ==
    ASSUME IInv, NEW h \in Handle, NEW s \in stmts[h], ReadError(h, s)
    PROVE  IInv'
<1>1. s \in Stmt /\ Called(h, s) /\ Aborted(h, s, cache)
  BY DEF IInv, TypeOK, Called, ReadError
<1>2. CacheInv(cache)
  BY DEF IInv
<1> QED
  BY <1>1, <1>2, NothingDone, AbortedKeeps

\* The beginning of Read and Write: the transaction, then the lock on the table.
LEMMA BeginAndLock ==
    ASSUME IInv, NEW h \in Handle, NEW t \in Tables, NEW wrflag \in 0 .. 1,
           NEW r \in sqlite3BtreeBeginTrans(cache, h, wrflag),
           NEW eLock, eLock = IF wrflag = 0 THEN READ_LOCK ELSE WRITE_LOCK,
           NEW q, q = r \/ (r.rc = "OK" /\ q = sqlite3BtreeLockTable(r.cache, h, t, eLock))
    PROVE  /\ CacheInv(q.cache) /\ OthersStay(cache, q.cache, h) /\ LocksKept(cache, q.cache, h)
           /\ q.rc = "OK" => /\ q.cache.inTrans[h] # TRANS_NONE
                             /\ q # r => q.cache.lock[h][t] >= eLock
           /\ q.rc = "BUSY" => faults < MaxFault
<1>1. /\ CacheInv(r.cache) /\ OthersStay(cache, r.cache, h) /\ LocksKept(cache, r.cache, h)
      /\ r.rc = "OK" => r.cache.inTrans[h] >= IF wrflag > 0 THEN TRANS_WRITE ELSE TRANS_READ
      /\ r.rc = "BUSY" => faults < MaxFault
  <2>1. CacheInv(cache) /\ wrflag \in 0 .. 2
    BY DEF IInv
  <2> QED
    BY <2>1, BeginTrans
<1>2. r.cache.inTrans[h] \in 0 .. 2
  BY <1>1, Types DEF CacheInv
<1>3. r.rc = "OK" => r.cache.inTrans[h] # TRANS_NONE
  BY <1>1, <1>2
<1>4. CASE q = r
  BY <1>1, <1>3, <1>4
<1>5. CASE r.rc = "OK" /\ q = sqlite3BtreeLockTable(r.cache, h, t, eLock)
  <2>1. eLock \in {READ_LOCK, WRITE_LOCK} /\ eLock <= r.cache.inTrans[h]
    BY <1>1, <1>2, <1>5
  <2>2. /\ CacheInv(q.cache) /\ OthersStay(r.cache, q.cache, h) /\ LocksKept(r.cache, q.cache, h)
        /\ q.cache.inTrans = r.cache.inTrans /\ q.rc \in {"OK", "LOCKED"}
        /\ q.rc = "OK" => q.cache.lock[h][t] >= eLock
    BY <1>1, <1>5, <2>1, LockTable
  <2>3. OthersStay(cache, q.cache, h)
    BY <1>1, <2>2, OthersTwice
  <2>4. LocksKept(cache, q.cache, h)
    BY <1>1, <2>2 DEF LocksKept
  <2> QED
    BY <1>3, <1>5, <2>2, <2>3, <2>4
<1> QED
  BY <1>4, <1>5

LEMMA ReadKeeps ==
    ASSUME IInv, NEW h \in Handle, NEW t \in Tables, Read(h, t)
    PROVE  IInv'
<1> DEFINE s == Waiting("read", t)
           run == [s EXCEPT !.running = TRUE]
           locked(r) == IF r.rc # "OK" \/ h \in ReadUncommit THEN r
                        ELSE sqlite3BtreeLockTable(r.cache, h, t, READ_LOCK)
<1>1. /\ s \in Stmt /\ run \in Stmt /\ run.arg = t /\ ~s.running
  BY Waitings
<1>2. Called(h, s)
  BY DEF Read
<1>3. PICK r \in sqlite3BtreeBeginTrans(cache, h, 0) :
         \/ locked(r).rc = "BUSY" /\ Waits(h, s)
         \/ locked(r).rc = "LOCKED" /\ Fails(h, s, locked(r).cache)
         \/ /\ locked(r).rc = "OK"
            /\ Goes(h, s, (stmts[h] \ {s}) \cup {run}, locked(r).cache)
            /\ UNCHANGED <<autoCommit, faults>>
  BY DEF Read
<1> DEFINE q == locked(r)
<1>4. /\ q = r \/ (r.rc = "OK" /\ q = sqlite3BtreeLockTable(r.cache, h, t, READ_LOCK))
      /\ h \notin ReadUncommit /\ r.rc = "OK" => q = sqlite3BtreeLockTable(r.cache, h, t, READ_LOCK)
  OBVIOUS
<1> HIDE DEF locked, s, run
<1>5. /\ CacheInv(q.cache) /\ OthersStay(cache, q.cache, h) /\ LocksKept(cache, q.cache, h)
      /\ q.rc = "OK" => /\ q.cache.inTrans[h] # TRANS_NONE
                        /\ q # r => q.cache.lock[h][t] >= READ_LOCK
      /\ q.rc = "BUSY" => faults < MaxFault
  BY <1>4, BeginAndLock, 0 \in 0 .. 1
<1>6. q.rc = "OK" => Keeps(q.cache, h, run)
  <2> SUFFICES ASSUME q.rc = "OK", h \notin ReadUncommit PROVE q.cache.lock[h][t] # 0
    BY <1>1, <1>5 DEF Keeps
  <2>1. CASE q # r
    BY <1>5, <2>1
  <2>2. CASE q = r
    <3>1. q = sqlite3BtreeLockTable(r.cache, h, t, READ_LOCK)
      BY <1>4, <2>2
    <3>2. CacheInv(r.cache) /\ r.cache.inTrans[h] >= TRANS_READ
      BY <1>5, <2>2, Types DEF CacheInv
    <3>3. q.cache.lock[h][t] >= READ_LOCK
      BY <3>1, <3>2, LockTable
    <3> QED
      BY <3>3
  <2> QED
    BY <2>1, <2>2
<1>7. CASE q.rc = "BUSY" /\ Waits(h, s)
  BY <1>1, <1>2, <1>5, <1>7, WaitsKeeps
<1>8. CASE q.rc = "LOCKED" /\ Fails(h, s, q.cache)
  BY <1>1, <1>2, <1>5, <1>8, FailsKeeps
<1>9. CASE /\ q.rc = "OK" /\ Goes(h, s, (stmts[h] \ {s}) \cup {run}, q.cache)
           /\ UNCHANGED <<autoCommit, faults>>
  <2> DEFINE S == (stmts[h] \ {s}) \cup {run}
  <2>1. S \in SUBSET Stmt /\ IsFiniteSet(S)
    BY <1>1, Active, FS_AddElement
  <2>2. ASSUME NEW x \in S PROVE Keeps(q.cache, h, x)
    <3>1. CASE x = run
      BY <1>6, <1>9, <3>1
    <3>2. CASE x \in stmts[h]
      <4>1. x \in Stmt /\ Keeps(cache, h, x)
        BY <3>2, Active, <1>1
      <4> QED
        BY <1>5, <4>1, KeepsOn
    <3> QED
      BY <3>1, <3>2
  <2>3. autoCommit' \in [Handle -> BOOLEAN] /\ faults' \in 0 .. MaxFault
    BY <1>9 DEF IInv, TypeOK
  <2>4. Goes(h, s, S, q.cache)
    BY <1>9
  <2> HIDE DEF S, q
  <2> QED
    BY <1>1, <1>2, <1>5, <2>1, <2>2, <2>3, <2>4, GoesKeeps
<1> QED
  BY <1>3, <1>7, <1>8, <1>9

LEMMA WriteKeeps ==
    ASSUME IInv, NEW h \in Handle, NEW t \in Tables, Write(h, t)
    PROVE  IInv'
<1> DEFINE s == Waiting("write", t)
           S == stmts[h] \cup {s}
           locked(r) == IF r.rc # "OK" THEN r
                        ELSE sqlite3BtreeLockTable(r.cache, h, t, WRITE_LOCK)
           changed(k) == [k EXCEPT !.dirty = @ \cup {t}]
<1>1. s \in Stmt /\ ~s.running
  BY Waitings
<1>2. Called(h, s)
  BY DEF Write
<1>3. PICK r \in sqlite3BtreeBeginTrans(cache, h, 1) :
         \/ locked(r).rc = "BUSY" /\ Waits(h, s)
         \/ locked(r).rc = "LOCKED" /\ Fails(h, s, locked(r).cache)
         \/ /\ locked(r).rc = "OK"
            /\ \E d \in HaltOK(changed(locked(r).cache), h, S, s) : Goes(h, s, S \ {s}, d)
            /\ UNCHANGED <<autoCommit, faults>>
         \/ locked(r).rc = "OK" /\ Aborted(h, s, changed(locked(r).cache))
  BY DEF Write
<1> DEFINE q == locked(r)
           c == changed(q.cache)
<1>4. /\ q = r \/ (r.rc = "OK" /\ q = sqlite3BtreeLockTable(r.cache, h, t, WRITE_LOCK))
      /\ q.rc = "OK" => r.rc = "OK" /\ q = sqlite3BtreeLockTable(r.cache, h, t, WRITE_LOCK)
  OBVIOUS
<1> HIDE DEF locked, s
<1>5. /\ CacheInv(q.cache) /\ OthersStay(cache, q.cache, h) /\ LocksKept(cache, q.cache, h)
      /\ q.rc = "BUSY" => faults < MaxFault
  BY <1>4, BeginAndLock, 1 \in 0 .. 1
<1>6. q.rc = "OK" => q.cache.lock[h][t] = WRITE_LOCK
  <2> SUFFICES ASSUME q.rc = "OK" PROVE q.cache.lock[h][t] = WRITE_LOCK
    OBVIOUS
  <2>1. CacheInv(r.cache) /\ r.cache.inTrans[h] >= TRANS_WRITE
    <3>1. CacheInv(cache) /\ 1 \in 0 .. 2
      BY DEF IInv
    <3>2. r.rc = "OK"
      BY <1>4
    <3> QED
      BY <3>1, <3>2, BeginTrans
  <2>2. q.cache.lock[h][t] >= WRITE_LOCK
    BY <1>4, <2>1, LockTable
  <2>3. q.cache.lock[h][t] \in 0 .. 2
    BY <1>5, Types DEF CacheInv
  <2> QED
    BY <2>2, <2>3
<1>7. q.rc = "OK" => CacheInv(c) /\ OthersStay(cache, c, h) /\ LocksKept(cache, c, h)
  <2> SUFFICES ASSUME q.rc = "OK" PROVE CacheInv(c) /\ OthersStay(cache, c, h) /\ LocksKept(cache, c, h)
    OBVIOUS
  <2>0. c = [q.cache EXCEPT !.dirty = @ \cup {t}]
    OBVIOUS
  <2> HIDE DEF c, q
  <2>1. CacheInv(c) /\ OthersStay(q.cache, c, h) /\ LocksKept(q.cache, c, h)
    BY <1>5, <1>6, <2>0, DirtyKeeps
  <2>2. OthersStay(cache, c, h)
    BY <1>5, <2>1, OthersTwice
  <2>3. LocksKept(cache, c, h)
    BY <1>5, <2>1 DEF LocksKept
  <2> QED
    BY <2>1, <2>2, <2>3
<1>8. CASE q.rc = "BUSY" /\ Waits(h, s)
  BY <1>1, <1>2, <1>5, <1>8, WaitsKeeps
<1>9. CASE q.rc = "LOCKED" /\ Fails(h, s, q.cache)
  BY <1>1, <1>2, <1>5, <1>9, FailsKeeps
<1>10. CASE /\ q.rc = "OK" /\ \E d \in HaltOK(c, h, S, s) : Goes(h, s, S \ {s}, d)
            /\ UNCHANGED <<autoCommit, faults>>
  <2>1. PICK d \in HaltOK(c, h, S, s) : Goes(h, s, S \ {s}, d)
    BY <1>10
  <2>2. autoCommit' \in [Handle -> BOOLEAN] /\ faults' \in 0 .. MaxFault
    BY <1>10 DEF IInv, TypeOK
  <2>3. S = stmts[h] \cup {s} /\ CacheInv(c) /\ OthersStay(cache, c, h) /\ LocksKept(cache, c, h)
    BY <1>7, <1>10
  <2> HIDE DEF S, c
  <2> QED
    BY <1>1, <1>2, <2>1, <2>2, <2>3, HaltsKeeps
<1>11. CASE q.rc = "OK" /\ Aborted(h, s, c)
  <2> HIDE DEF c, q
  <2> QED
    BY <1>1, <1>2, <1>7, <1>11, AbortedKeeps
<1> QED
  BY <1>3, <1>8, <1>9, <1>10, <1>11

LEMMA BeginKeeps ==
    ASSUME IInv, NEW h \in Handle, NEW wrflag \in 0 .. 2, Begin(h, wrflag)
    PROVE  IInv'
<1> DEFINE s == Waiting("begin", wrflag)
<1>1. CASE /\ autoCommit' = [autoCommit EXCEPT ![h] = FALSE]
           /\ UNCHANGED <<cache, stmts, started, faults>>
  <2>1. TypeOK'
    BY <1>1 DEF IInv, TypeOK
  <2>2. CacheInv(cache)'
    BY <1>1 DEF IInv, CacheInv, Open
  <2>3. StmtInv'
    BY <1>1 DEF IInv, StmtInv, Keeps
  <2> QED
    BY <2>1, <2>2, <2>3 DEF IInv
<1>2. CASE wrflag > 0 /\ Called(h, s)
           /\ \E r \in sqlite3BtreeBeginTrans(cache, h, wrflag) :
                \/ r.rc = "BUSY" /\ Waits(h, s)
                \/ r.rc = "LOCKED" /\ Fails(h, s, r.cache)
                \/ /\ r.rc = "OK"
                   /\ Goes(h, s, stmts[h] \ {s}, r.cache)
                   /\ autoCommit' = [autoCommit EXCEPT ![h] = FALSE]
                   /\ UNCHANGED faults
  <2>1. s \in Stmt /\ ~s.running
    BY <1>2, Waitings
  <2> HIDE DEF s
  <2>2. PICK r \in sqlite3BtreeBeginTrans(cache, h, wrflag) :
                \/ r.rc = "BUSY" /\ Waits(h, s)
                \/ r.rc = "LOCKED" /\ Fails(h, s, r.cache)
                \/ /\ r.rc = "OK"
                   /\ Goes(h, s, stmts[h] \ {s}, r.cache)
                   /\ autoCommit' = [autoCommit EXCEPT ![h] = FALSE]
                   /\ UNCHANGED faults
    BY <1>2
  <2>3. /\ CacheInv(r.cache) /\ OthersStay(cache, r.cache, h) /\ LocksKept(cache, r.cache, h)
        /\ r.rc = "BUSY" => faults < MaxFault
    <3>1. CacheInv(cache)
      BY DEF IInv
    <3> QED
      BY <3>1, BeginTrans
  <2>4. CASE r.rc = "BUSY" /\ Waits(h, s)
    BY <1>2, <2>1, <2>3, <2>4, WaitsKeeps
  <2>5. CASE r.rc = "LOCKED" /\ Fails(h, s, r.cache)
    BY <1>2, <2>1, <2>3, <2>5, FailsKeeps
  <2>6. CASE /\ Goes(h, s, stmts[h] \ {s}, r.cache)
             /\ autoCommit' = [autoCommit EXCEPT ![h] = FALSE] /\ UNCHANGED faults
    <3>1. stmts[h] \ {s} \in SUBSET Stmt /\ IsFiniteSet(stmts[h] \ {s})
      BY <2>1, Active
    <3>2. ASSUME NEW x \in stmts[h] \ {s} PROVE Keeps(r.cache, h, x)
      <4>1. x \in Stmt /\ Keeps(cache, h, x)
        BY <2>1, Active
      <4> QED
        BY <2>3, <4>1, KeepsOn
    <3>3. autoCommit' \in [Handle -> BOOLEAN] /\ faults' \in 0 .. MaxFault
      BY <2>6 DEF IInv, TypeOK
    <3> QED
      BY <1>2, <2>1, <2>3, <2>6, <3>1, <3>2, <3>3, GoesKeeps
  <2> QED
    BY <2>2, <2>4, <2>5, <2>6
<1> QED
  BY <1>1, <1>2 DEF Begin

LEMMA CommitKeeps ==
    ASSUME IInv, NEW h \in Handle, Commit(h)
    PROVE  IInv'
<1> DEFINE s == Waiting("commit", 0)
           S == stmts[h] \cup {s}
           n == Cardinality(S)
<1>1. s \in Stmt /\ ~s.running /\ s.op = "commit"
  BY Waitings
<1>2. CASE faults < MaxFault /\ Waits(h, s)
  <2> HIDE DEF s
  <2> QED
    BY <1>1, <1>2, WaitsKeeps
<1>3. ASSUME NEW e, e = sqlite3BtreeCommitPhaseTwo(cache, h, n) \/ e = sqlite3BtreeRollback(cache, h, n),
             Goes(h, s, S \ {s}, e), autoCommit' = [autoCommit EXCEPT ![h] = TRUE], UNCHANGED faults
      PROVE  IInv'
  <2>1. e = sqlite3BtreeRollback(cache, h, n)
    BY <1>3 DEF sqlite3BtreeCommitPhaseTwo, sqlite3BtreeRollback
  <2>2. autoCommit' \in [Handle -> BOOLEAN] /\ faults' \in 0 .. MaxFault
    BY <1>3 DEF IInv, TypeOK
  <2>3. CacheInv(cache)
    BY DEF IInv
  <2>4. S = stmts[h] \cup {s} /\ n = Cardinality(S)
    OBVIOUS
  <2> HIDE DEF s, S, n
  <2> QED
    BY <1>1, <1>3, <2>1, <2>2, <2>3, <2>4, NothingDone, HaltsKeeps
<1> QED
  BY <1>2, <1>3 DEF Commit

LEMMA RollbackKeeps ==
    ASSUME IInv, NEW h \in Handle, Rollback(h)
    PROVE  IInv'
<1> DEFINE s == Waiting("commit", 0)
           n == Cardinality(stmts[h]) + 1
           e == sqlite3BtreeRollback(cache, h, n)
<1>1. s \in Stmt /\ s.op = "commit"
  BY Waitings
<1>2. stmts[h] \in SUBSET Stmt /\ IsFiniteSet(stmts[h]) /\ CacheInv(cache)
      /\ \A x \in stmts[h] : Keeps(cache, h, x)
  BY <1>1, Active
<1>3. n \in Nat /\ (stmts[h] # {} => n > 1)
  <2>1. Cardinality(stmts[h]) \in Nat /\ (Cardinality(stmts[h]) = 0 <=> stmts[h] = {})
    BY <1>2, FS_CardinalityType, FS_EmptySet
  <2> QED
    BY <2>1
<1> HIDE DEF n
<1>4. CacheInv(e) /\ OthersStay(cache, e, h) /\ \A x \in stmts[h] : Keeps(e, h, x)
  BY <1>2, <1>3, EndKeeps
<1>5. autoCommit' \in [Handle -> BOOLEAN] /\ faults' \in 0 .. MaxFault
  BY DEF Rollback, IInv, TypeOK
<1>6. Goes(h, s, stmts[h], e)
  BY DEF Rollback, n
<1> HIDE DEF s, e
<1> QED
  BY <1>1, <1>2, <1>4, <1>5, <1>6, GoesKeeps

LEMMA InitKeeps == Init => IInv
<1> SUFFICES ASSUME Init PROVE IInv
  OBVIOUS
<1>1. /\ \A h \in Handle : cache.inTrans[h] = 0
      /\ \A h \in Handle, t \in Tables : cache.lock[h][t] = 0
      /\ cache.pWriter = NoHandle /\ cache.pending = FALSE /\ cache.exclusive = FALSE
      /\ cache.inTransaction = 0 /\ cache.nTransaction = 0 /\ cache.dirty = {}
  BY DEF Init
<1>2. cache \in BtShared
  <2>1. Cardinality(Handle) \in Nat
    BY FS_CardinalityType
  <2> QED
    BY <2>1 DEF Init, BtShared, Trans
<1>3. Open(cache) = {} /\ Cardinality(Open(cache)) = 0
  <2>1. Open(cache) = {}
    BY <1>1 DEF Open
  <2> QED
    BY <2>1, FS_EmptySet
<1>4. CacheInv(cache)
  <2>1. /\ cache.pending \/ cache.exclusive => cache.pWriter # NoHandle
        /\ cache.inTransaction = TRANS_WRITE <=> cache.pWriter # NoHandle
        /\ cache.exclusive => \A h \in Open(cache) : h = cache.pWriter
    BY <1>1
  <2>2. \A h \in Handle : cache.inTrans[h] = TRANS_WRITE <=> cache.pWriter = h
    BY <1>1
  <2>3. /\ cache.nTransaction = Cardinality(Open(cache))
        /\ cache.inTransaction = TRANS_NONE <=> Open(cache) = {}
    BY <1>1, <1>3
  <2>4. \A h \in Handle, t \in Tables : cache.lock[h][t] <= cache.inTrans[h]
    BY <1>1
  <2>5. \A h \in Handle : cache.inTrans[h] # TRANS_NONE => cache.lock[h][MASTER_ROOT] # 0
    BY <1>1
  <2>6. \A g, h \in Handle, t \in Tables :
           g # h /\ cache.lock[h][t] = WRITE_LOCK => cache.lock[g][t] = 0
    BY <1>1
  <2>7. \A t \in cache.dirty : \E h \in Handle : cache.lock[h][t] = WRITE_LOCK
    BY <1>1
  <2> QED
    BY <1>2, <2>1, <2>2, <2>3, <2>4, <2>5, <2>6, <2>7 DEF CacheInv
<1>5. TypeOK
  BY <1>2 DEF TypeOK, Init
<1>6. StmtInv
  BY FS_EmptySet DEF StmtInv, Init
<1> QED
  BY <1>4, <1>5, <1>6 DEF IInv

LEMMA NextKeeps == IInv /\ [Next]_vars => IInv'
<1> SUFFICES ASSUME IInv, [Next]_vars PROVE IInv'
  OBVIOUS
<1>1. CASE Next
  <2> PICK h \in Handle :
         \/ \E t \in Tables \ {MASTER_ROOT} : Read(h, t)
         \/ \E t \in Tables : Write(h, t)
         \/ \E s \in stmts[h] : EndRead(h, s) \/ ReadError(h, s) \/ Reset(h, s)
         \/ \E wrflag \in 0 .. 2 : Begin(h, wrflag)
         \/ Commit(h) \/ Rollback(h)
    BY <1>1 DEF Next
  <2>1. CASE \E t \in Tables \ {MASTER_ROOT} : Read(h, t)
    BY <2>1, ReadKeeps
  <2>2. CASE \E t \in Tables : Write(h, t)
    BY <2>2, WriteKeeps
  <2>3. CASE \E s \in stmts[h] : EndRead(h, s)
    BY <2>3, EndReadKeeps
  <2>4. CASE \E s \in stmts[h] : ReadError(h, s)
    BY <2>4, ReadErrorKeeps
  <2>5. CASE \E s \in stmts[h] : Reset(h, s)
    BY <2>5, ResetKeeps
  <2>6. CASE \E wrflag \in 0 .. 2 : Begin(h, wrflag)
    BY <2>6, BeginKeeps
  <2>7. CASE Commit(h)
    BY <2>7, CommitKeeps
  <2>8. CASE Rollback(h)
    BY <2>8, RollbackKeeps
  <2> QED
    BY <2>1, <2>2, <2>3, <2>4, <2>5, <2>6, <2>7, <2>8
<1>2. CASE UNCHANGED vars
  <2> USE <1>2 DEF vars
  <2>1. TypeOK'
    BY DEF IInv, TypeOK
  <2>2. CacheInv(cache)'
    BY DEF IInv, CacheInv, Open
  <2>3. StmtInv'
    BY DEF IInv, StmtInv, Keeps
  <2> QED
    BY <2>1, <2>2, <2>3 DEF IInv
<1> QED
  BY <1>1, <1>2

LEMMA Invariance == Spec => []IInv
BY InitKeeps, NextKeeps, PTL DEF Spec

-----------------------------------------------------------------------------
LEMMA IntegrityFollows == IInv => BtreeIntegrity
<1> SUFFICES ASSUME IInv PROVE BtreeIntegrity
  OBVIOUS
<1>1. CacheInv(cache)
  BY DEF IInv
<1>2. {h \in Handle : cache.inTrans[h] # TRANS_NONE} = Open(cache)
  BY DEF Open
<1>3. /\ cache.pending \/ cache.exclusive \/ cache.inTransaction = TRANS_WRITE => cache.pWriter # NoHandle
      /\ \A h \in Handle : cache.inTrans[h] = TRANS_WRITE <=> cache.pWriter = h
      /\ cache.nTransaction = Cardinality(Open(cache))
      /\ cache.inTransaction = TRANS_NONE <=> Open(cache) = {}
      /\ \A h \in Handle, t \in Tables : cache.lock[h][t] <= cache.inTrans[h]
      /\ cache.exclusive => \A h \in Open(cache) : h = cache.pWriter
  BY <1>1 DEF CacheInv
<1> QED
  BY <1>2, <1>3 DEF BtreeIntegrity

LEMMA RunningStatement ==
    ASSUME IInv, NEW h \in Handle \ ReadUncommit, NEW s \in stmts[h], s.running
    PROVE  s.arg \in Tables /\ cache.lock[h][s.arg] # 0 /\ cache.lock[h][MASTER_ROOT] # 0
<1>1. s \in Stmt /\ Keeps(cache, h, s) /\ CacheInv(cache)
  BY DEF IInv, TypeOK, StmtInv
<1>2. cache.inTrans[h] # TRANS_NONE /\ cache.lock[h][s.arg] # 0
  BY <1>1 DEF Keeps
<1> QED
  BY <1>1, <1>2 DEF CacheInv, Stmt

LEMMA LocksFollow == IInv => ReadersKeepLocks
BY RunningStatement DEF ReadersKeepLocks

LEMMA CommittedFollows == IInv => NoDirtyRead
<1> SUFFICES ASSUME IInv, NEW h \in Handle \ ReadUncommit, NEW s \in stmts[h],
                    s.running, s.arg \in cache.dirty
             PROVE  cache.pWriter = h
  BY DEF NoDirtyRead
<1>1. CacheInv(cache) /\ cache \in BtShared
  BY DEF IInv, CacheInv
<1>2. s.arg \in Tables /\ cache.lock[h][s.arg] # 0
  BY RunningStatement
<1>3. PICK g \in Handle : cache.lock[g][s.arg] = WRITE_LOCK
  BY <1>1 DEF CacheInv
<1>4. g = h
  BY <1>1, <1>2, <1>3 DEF CacheInv
<1>5. cache.lock[h][s.arg] <= cache.inTrans[h] /\ cache.inTrans[h] \in 0 .. 2
  BY <1>1, <1>2, Types DEF CacheInv
<1>6. cache.inTrans[h] = TRANS_WRITE
  BY <1>3, <1>4, <1>5
<1> QED
  BY <1>1, <1>6 DEF CacheInv

\* For any number of handles and tables, the shared cache, the connections and their
\* statements stay what their declarations say: nTransaction never leaves its range.
THEOREM TypeCorrect == Spec => []TypeOK
BY Invariance, PTL DEF IInv

\* What the functions of btree.c assert and rely on (a writer behind every flag, the
\* count of transactions, no lock beyond its transaction) holds for any number of
\* connections in whatever order their statements start, halt, commit and roll back.
THEOREM CacheIntegrity == Spec => []BtreeIntegrity
BY Invariance, IntegrityFollows, PTL

\* A statement that reads keeps its table lock until it ends: downgrading the locks at
\* the end of a transaction (btreeEndTransaction) spares what other statements of the
\* connection still read.
THEOREM LocksKeptWhileReading == Spec => []ReadersKeepLocks
BY Invariance, LocksFollow, PTL

\* The table locks isolate connections that share a cache: no reader sees a table that
\* the open write transaction of another connection has changed.
THEOREM ReadsAreCommitted == Spec => []NoDirtyRead
BY Invariance, CommittedFollows, PTL
=============================================================================
