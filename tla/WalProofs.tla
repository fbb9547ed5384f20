------------------------------ MODULE WalProofs ------------------------------
(***************************************************************************)
(* Readers of the write-ahead log keep their snapshot, and commits are     *)
(* kept by checkpoints, restarts of the log, crashes and power losses, for *)
(* any connections, pages, read marks, frames, transactions and salts, if  *)
(* a passive checkpoint does not meet a restart of the log (ResetRace).    *)
(*                                                                         *)
(* A log is read by a recovery as far as its frames have one salt and link *)
(* to each other.  The invariant, IInv, has three parameters: g, the salt  *)
(* of the log that is in the file; b, the transaction whose database is    *)
(* under that log; and K, the frame up to which the log is on the medium.  *)
(***************************************************************************)
EXTENDS Wal, TLAPS, WellFoundedInduction

-----------------------------------------------------------------------------
(* Logs and databases: f is file, d is states.db.                          *)

\* A log that a recovery with salt g reads up to frame i, and that a power loss may
\* leave.
Chained(w, g, i) ==
    \A j \in 1 .. i : /\ w[j].aSalt = g
                      /\ w[j].prev = IF j = 1 THEN 0 ELSE w[j - 1].txn
Valid(f, w, g, i) == Chained(w, g, i) /\ \A j \in 1 .. i : w[j] \in f.walMay[j]

\* Page p has no frame from lo to hi; its last one there is k.
NoneOf(w, p, lo, hi) == \A k \in lo .. hi : w[k].pgno # p
LastIs(w, p, lo, hi, k) == k \in lo .. hi /\ w[k].pgno = p /\ NoneOf(w, p, k + 1, hi)

\* The log up to frame i over the database of transaction b is that of t.
Seals(d, w, i, b, t) ==
    \A p \in Page :
        /\ \A k \in 1 .. i : LastIs(w, p, 1, i, k) => d[t][p] = w[k].txn
        /\ NoneOf(w, p, 1, i) => d[t][p] = d[b][p]

\* A transaction that was sealed has written something.
Real(d, t) == t # 0 => \E p \in Page : d[t][p] # 0

\* Whatever a recovery with salt g makes of the log, it is a transaction over b.
LogOver(f, d, g, b) ==
    g # 0 =>
        \A w \in [Frames -> Frame], i \in Frames :
            Valid(f, w, g, i) /\ w[i].commit =>
                Seals(d, w, i, b, w[i].txn) /\ w[i].txn >= b /\ Real(d, w[i].txn)

\* The database file is that of transaction t, and a power loss does not change it.
Whole(f, d, t) == \A p \in Page : f.dbMay[p] = {d[t][p]}

-----------------------------------------------------------------------------
(* The invariant.                                                          *)

Conn == [pc : PCs, hdr : WalIndexHdr, readLock : -1 .. NSlot, slot : 0 .. NSlot,
         mark : 0 .. MaxFrame, minFrame : 1 .. MaxFrame + 1]
Info == [nBackfill : 0 .. MaxFrame, aReadMark : [Slot -> 0 .. READMARK_NOT_USED],
         aPgno : [Frames -> Page \cup {0}]]
Locks == [write : Connection \cup {NoConn}, ckpt : Connection \cup {NoConn}, db : BOOLEAN]
Files == [wal : [Frames -> Frame], walMay : [Frames -> SUBSET Frame],
          aSalt : 0 .. MaxSalt, saltMay : SUBSET (0 .. MaxSalt),
          db : [Page -> 0 .. Torn], dbMay : [Page -> SUBSET (0 .. Torn)]]
Ckpt == [step : {"none", "compare", "marks", "copy", "end", "done"},
         mxSafeFrame : 0 .. MaxFrame, slot : 1 .. NSlot + 1, todo : SUBSET Frames]
States == [db : [0 .. MaxTxn -> [Page -> 0 .. MaxTxn]], floor : 0 .. MaxTxn]

Types ==
    /\ hdr \in WalIndexHdr
    /\ info \in Info
    /\ locks \in Locks
    /\ file \in Files
    /\ conn \in [Connection -> Conn]
    /\ ckpt \in Ckpt
    /\ salts \in 0 .. MaxSalt /\ txn \in 0 .. MaxTxn /\ crashes \in 0 .. MaxCrash
    /\ states \in States

\* What is in the files may be there after a power loss; no frame is from the future;
\* a transaction writes a frame once.
FrameInv ==
    /\ \A j \in Frames : file.wal[j] \in file.walMay[j]
    /\ file.aSalt \in file.saltMay /\ \A s \in file.saltMay : s <= salts
    /\ \A p \in Page : file.db[p] \in file.dbMay[p]
    /\ \A j \in Frames : \A x \in file.walMay[j] :
          x.txn <= txn /\ x.prev <= x.txn /\ x.aSalt <= salts
    /\ \A j \in Frames : \A x, y \in file.walMay[j] :
          x.txn = y.txn /\ x.aSalt = y.aSalt => x = y
    /\ \A t \in 0 .. MaxTxn : t = 0 \/ t > txn => states.db[t] = [p \in Page |-> 0]

\* The log of salt g over the database of transaction b is on the medium up to frame
\* K, so that a power loss leaves the floor or more.  Where it may find no log, the
\* database is whole.
MediumInv(g, b, K) ==
    /\ b <= txn
    /\ file.saltMay \subseteq {g, 0} /\ LogOver(file, states.db, g, b) /\ Real(states.db, b)
    /\ K > 0 => /\ g # 0 /\ Chained(file.wal, g, K) /\ file.wal[K].commit
                /\ \A j \in 1 .. K : file.walMay[j] = {file.wal[j]}
                /\ file.wal[K].txn >= states.floor
    /\ K = 0 => b >= states.floor
    /\ \A p \in Page : NoneOf(file.wal, p, 1, K) => file.dbMay[p] = {states.db[b][p]}
    /\ 0 \in file.saltMay =>
          \E t \in 0 .. MaxTxn :
              t >= states.floor /\ t <= txn /\ Whole(file, states.db, t) /\ Real(states.db, t)

\* Without a wal-index nothing happens to the files.
DownInv ==
    ~hdr.isInit =>
        /\ info.nBackfill = 0
        /\ conn = [c \in Connection |-> Idle] /\ ckpt = NoCkpt
        /\ locks = [write |-> NoConn, ckpt |-> NoConn, db |-> FALSE]
        /\ \A j \in Frames : file.walMay[j] = {file.wal[j]}
        /\ file.saltMay = {file.aSalt}
        /\ \A p \in Page : file.dbMay[p] = {file.db[p]}

\* The header describes the log of salt g; or the log has started again, the database
\* is whole, and g may be that of the log before.
HdrInv(g, K) ==
    hdr.isInit =>
        /\ hdr.txn <= txn /\ hdr.txn >= states.floor /\ hdr.aSalt <= salts
        /\ Real(states.db, hdr.txn)
        /\ hdr.mxFrame > 0 =>
              /\ g # 0 /\ hdr.aSalt = g /\ file.saltMay = {g} /\ K <= hdr.mxFrame
              /\ Chained(file.wal, g, hdr.mxFrame)
              /\ file.wal[hdr.mxFrame].commit /\ file.wal[hdr.mxFrame].txn = hdr.txn
              /\ \A j \in 1 .. hdr.mxFrame : info.aPgno[j] = file.wal[j].pgno
        /\ hdr.mxFrame = 0 => LogOver(file, states.db, hdr.aSalt, hdr.txn)
        /\ info.nBackfill <= hdr.mxFrame
        /\ info.nBackfill = hdr.mxFrame => Whole(file, states.db, hdr.txn)
        /\ \A p \in Page : NoneOf(file.wal, p, info.nBackfill + 1, hdr.mxFrame) =>
              file.db[p] = states.db[hdr.txn][p]

\* Where a connection is, and which locks it has there.
PlaceInv(c) ==
    /\ conn[c].pc # "idle" => hdr.isInit /\ conn[c].hdr.txn <= hdr.txn
    /\ conn[c].hdr.aSalt <= salts
    /\ conn[c].pc \in {"idle", "hdr", "lock", "ckpt"} => conn[c].readLock = -1
    /\ conn[c].pc = "lock0" => conn[c].readLock = 0
    /\ conn[c].pc \in {"lock", "check"} =>
          conn[c].slot \in Slot /\ conn[c].mark <= conn[c].hdr.mxFrame
    /\ conn[c].pc = "check" => conn[c].readLock = conn[c].slot
    /\ conn[c].pc \in {"read", "write"} => conn[c].readLock >= 0
    /\ conn[c].pc \in {"frames", "sealed"} => conn[c].readLock > 0
    /\ conn[c].pc = "ckpt" <=> locks.ckpt = c
    /\ conn[c].pc \in {"write", "frames", "sealed"} => locks.write = c
    /\ locks.write = c =>
          conn[c].pc \in {"hdr", "lock", "check", "write", "frames", "sealed", "ckpt"}

\* The frames that a writer has appended, and that nobody else has any of its
\* transaction.
WriterInv(c, g, b, K) ==
    /\ locks.write = c /\ conn[c].pc # "ckpt" =>
          /\ hdr.txn < txn
          /\ \A j \in Frames : \A x \in file.walMay[j] : x.txn = txn =>
                /\ conn[c].pc \in {"frames", "sealed"}
                /\ hdr.mxFrame < j /\ j <= conn[c].hdr.mxFrame
                /\ conn[c].pc # "sealed" => ~x.commit
    /\ locks.write = c /\ conn[c].pc \in {"hdr", "lock", "check", "write"} => conn[c].hdr = hdr
    /\ locks.write = c /\ conn[c].pc = "ckpt" /\ ckpt.step # "done" => conn[c].hdr = hdr
    /\ conn[c].pc \in {"frames", "sealed"} =>
          /\ conn[c].hdr.txn = hdr.txn /\ hdr.mxFrame <= conn[c].hdr.mxFrame
          /\ g # 0 /\ conn[c].hdr.aSalt = g /\ file.saltMay = {g}
          /\ hdr.mxFrame = 0 => b = hdr.txn /\ K = 0
          /\ Chained(file.wal, g, conn[c].hdr.mxFrame)
          /\ \A j \in hdr.mxFrame + 1 .. conn[c].hdr.mxFrame :
                file.wal[j].txn = txn /\ info.aPgno[j] = file.wal[j].pgno
    /\ conn[c].pc = "sealed" =>
          conn[c].hdr.mxFrame > hdr.mxFrame /\ file.wal[conn[c].hdr.mxFrame].commit

\* A reader that has passed the checks of walTryBeginRead, and the last frame of its
\* snapshot.
Checked(c) == conn[c].pc \in {"read", "write", "frames", "sealed"}
SnapFrame(c) ==
    IF conn[c].pc \in {"frames", "sealed"} THEN hdr.mxFrame ELSE conn[c].hdr.mxFrame

\* What a read lock keeps: slot 0 the database as it is, another one the log, and the
\* pages of the database that have no frame in the snapshot.
ReaderInv(c) ==
    /\ conn[c].readLock = 0 =>
          /\ conn[c].hdr = hdr => info.nBackfill = hdr.mxFrame
          /\ ~locks.db
          /\ Checked(c) => \A p \in Page : file.db[p] = states.db[conn[c].hdr.txn][p]
    /\ conn[c].readLock > 0 => conn[c].minFrame <= info.nBackfill + 1
    /\ conn[c].readLock > 0 /\ Checked(c) =>
          /\ SnapFrame(c) <= hdr.mxFrame
          /\ info.aReadMark[conn[c].readLock] <= SnapFrame(c)
          /\ \A p \in Page :
                /\ NoneOf(file.wal, p, conn[c].minFrame, SnapFrame(c)) =>
                      file.db[p] = states.db[conn[c].hdr.txn][p]
                /\ \A k \in Frames : LastIs(file.wal, p, conn[c].minFrame, SnapFrame(c), k) =>
                      file.wal[k].txn = states.db[conn[c].hdr.txn][p]

\* Frame i is the last one of its page in the log that the checkpoint of c copies.
IsLast(c, i) == NoneOf(file.wal, file.wal[i].pgno, i + 1, conn[c].hdr.mxFrame)

\* A checkpoint copies no frame that a reader may still need to find behind the
\* database, and none that is not on the medium.
CkptInv(c, K) ==
    locks.ckpt = c =>
        /\ ckpt.step # "none"
        /\ ckpt.step \in {"compare", "marks", "copy"} =>
              ckpt.mxSafeFrame <= conn[c].hdr.mxFrame /\ conn[c].hdr.mxFrame <= hdr.mxFrame
        /\ ckpt.step = "compare" => ckpt.slot = 1
        /\ ckpt.step = "marks" => info.nBackfill < conn[c].hdr.mxFrame
        /\ ckpt.step \in {"marks", "copy"} =>
              \A e \in Connection :
                  Checked(e) /\ conn[e].readLock > 0 /\ conn[e].readLock < ckpt.slot =>
                      ckpt.mxSafeFrame <= SnapFrame(e)
        /\ locks.db <=> ckpt.step = "copy"
        /\ ckpt.step = "copy" =>
              /\ info.nBackfill < ckpt.mxSafeFrame /\ ckpt.mxSafeFrame <= K
              /\ ckpt.slot = NSlot + 1
              /\ \A i \in ckpt.todo : i \in info.nBackfill + 1 .. ckpt.mxSafeFrame /\ IsLast(c, i)
              /\ \A i \in info.nBackfill + 1 .. ckpt.mxSafeFrame :
                    IsLast(c, i) /\ i \notin ckpt.todo /\ file.wal[i].pgno \in Page =>
                        file.db[file.wal[i].pgno] = file.wal[i].txn

NobodyCopies == locks.ckpt = NoConn => ckpt = NoCkpt /\ ~locks.db

LogInv(g, b, K) ==
    /\ MediumInv(g, b, K) /\ HdrInv(g, K)
    /\ \A c \in Connection : WriterInv(c, g, b, K) /\ CkptInv(c, K)

IInv ==
    /\ Types /\ FrameInv /\ DownInv /\ NobodyCopies
    /\ \A c \in Connection : PlaceInv(c) /\ ReaderInv(c)
    /\ \E g \in 0 .. MaxSalt, b \in 0 .. MaxTxn, K \in 0 .. MaxFrame : LogInv(g, b, K)

-----------------------------------------------------------------------------
(* Greatest and least elements, chains.                                    *)

LEMMA Least ==
    ASSUME NEW T \in SUBSET Nat, T # {}
    PROVE  \E x \in T : \A y \in T : x <= y
<1> DEFINE R == OpToRel(<, Nat)
<1>1. IsWellFoundedOn(R, Nat)
  BY NatLessThanWellFounded
<1>2. \E x \in T : \A y \in T : ~(<<y, x>> \in R)
  <2> HIDE DEF R
  <2> QED
    BY <1>1, WFMin
<1>3. PICK x \in T : \A y \in T : ~(<<y, x>> \in R)
  BY <1>2
<1>4. ASSUME NEW y \in T PROVE x <= y
  <2>1. ~(<<y, x>> \in R)
    BY <1>3
  <2>2. x \in Nat /\ y \in Nat
    OBVIOUS
  <2>3. ~(y < x)
    BY <2>1, <2>2 DEF OpToRel
  <2> QED
    BY ONLY <2>2, <2>3
<1> QED
  BY <1>4

LEMMA MinIs ==
    ASSUME NEW T \in SUBSET Nat, T # {}
    PROVE  Min(T) \in T /\ \A y \in T : Min(T) <= y
BY Least DEF Min

LEMMA MaxIs ==
    ASSUME NEW N \in Nat, NEW S \in SUBSET (0 .. N), S # {}
    PROVE  Max(S) \in S /\ \A y \in S : y <= Max(S)
<1> DEFINE T == {N - y : y \in S}
<1>1. T \in SUBSET Nat /\ T # {}
  <2>1. \A y \in S : N - y \in Nat
    OBVIOUS
  <2> QED
    BY <2>1
<1>2. PICK x \in T : \A y \in T : x <= y
  <2> HIDE DEF T
  <2> QED
    BY <1>1, Least
<1>3. PICK m \in S : x = N - m
  BY <1>2
<1>4. ASSUME NEW y \in S PROVE m >= y
  <2>1. N - m <= N - y
    BY <1>2, <1>3
  <2> QED
    BY <2>1
<1>5. Max(S) \in S /\ \A y \in S : Max(S) >= y
  BY <1>4 DEF Max
<1> QED
  BY <1>5

\* A page has a last frame, or none.
LEMMA LastOrNone ==
    ASSUME NEW w, NEW p, NEW lo \in Nat, NEW hi \in Nat
    PROVE  NoneOf(w, p, lo, hi) \/ \E k \in lo .. hi : LastIs(w, p, lo, hi, k)
<1> DEFINE S == {k \in lo .. hi : w[k].pgno = p}
<1>1. CASE S = {}
  BY <1>1 DEF NoneOf
<1>2. CASE S # {}
  <2>1. S \in SUBSET (0 .. hi)
    OBVIOUS
  <2>2. Max(S) \in S /\ \A y \in S : y <= Max(S)
    <3> HIDE DEF S
    <3> QED
      BY <1>2, <2>1, MaxIs
  <2> DEFINE m == Max(S)
  <2>3. m \in lo .. hi /\ w[m].pgno = p /\ \A y \in lo .. hi : w[y].pgno = p => y <= m
    BY <2>2
  <2> HIDE DEF m
  <2>4. \A y \in m + 1 .. hi : w[y].pgno # p
    BY <2>3
  <2>5. LastIs(w, p, lo, hi, m)
    BY <2>3, <2>4 DEF LastIs, NoneOf
  <2> QED
    BY <2>3, <2>5
<1> QED
  BY <1>1, <1>2

LEMMA LastFrameIs ==
    ASSUME Types, NEW p, NEW lo \in Nat, lo > 0, NEW hi \in Nat, hi <= MaxFrame
    PROVE  \/ LastFrame(p, lo, hi) = 0 /\ \A k \in lo .. hi : info.aPgno[k] # p
           \/ /\ LastFrame(p, lo, hi) \in lo .. hi
              /\ info.aPgno[LastFrame(p, lo, hi)] = p
              /\ \A k \in LastFrame(p, lo, hi) + 1 .. hi : info.aPgno[k] # p
<1> DEFINE S == {i \in Frames : lo <= i /\ i <= hi /\ info.aPgno[i] = p}
<1>1. LastFrame(p, lo, hi) = IF S = {} THEN 0 ELSE Max(S)
  BY DEF LastFrame
<1>2. MaxFrame \in Nat
  BY WalAssumption
<1>3. CASE S = {}
  BY <1>1, <1>2, <1>3 DEF Frames
<1>4. CASE S # {}
  <2>1. S \in SUBSET (0 .. MaxFrame)
    BY <1>2 DEF Frames
  <2>2. Max(S) \in S /\ \A y \in S : y <= Max(S)
    <3> HIDE DEF S
    <3> QED
      BY <1>2, <1>4, <2>1, MaxIs
  <2>3. LastFrame(p, lo, hi) = Max(S)
    BY <1>1, <1>4
  <2>4. \A k \in Max(S) + 1 .. hi : info.aPgno[k] # p
    BY <1>2, <2>2 DEF Frames
  <2> QED
    BY <1>2, <2>2, <2>3, <2>4 DEF Frames
<1> QED
  BY <1>3, <1>4

\* A log is determined by the last frame that a recovery reads.
LEMMA Determined ==
    ASSUME NEW f, \A j \in Frames : \A x, y \in f.walMay[j] : x.txn = y.txn /\ x.aSalt = y.aSalt => x = y,
           NEW w, NEW v, NEW g, NEW i \in Frames,
           Valid(f, w, g, i), Valid(f, v, g, i), w[i] = v[i]
    PROVE  \A j \in 1 .. i : w[j] = v[j]
<1> SUFFICES ASSUME NEW m \in 1 .. i, w[m] # v[m] PROVE FALSE
  OBVIOUS
<1> DEFINE T == {n \in Nat : n < i /\ w[i - n] # v[i - n]}
<1>1. i \in Nat /\ i > 0 /\ i <= MaxFrame /\ MaxFrame \in Nat
  BY WalAssumption DEF Frames
<1>2. i - m \in T
  BY <1>1
<1>3. PICK n \in T : \A y \in T : n <= y
  <2>1. T \in SUBSET Nat /\ T # {}
    BY <1>2
  <2> HIDE DEF T
  <2> QED
    BY <2>1, Least
<1>4. n \in Nat /\ n < i /\ w[i - n] # v[i - n] /\ n # 0
  BY <1>3, <1>1
<1> DEFINE j == i - n
<1>5. j \in 1 .. i /\ j + 1 \in 2 .. i /\ j + 1 \in Frames /\ j \in Frames
  BY <1>1, <1>4 DEF Frames
<1>6. w[j + 1] = v[j + 1]
  <2>1. n - 1 \notin T
    BY <1>3, <1>4
  <2>2. n - 1 \in Nat /\ n - 1 < i /\ i - (n - 1) = j + 1
    BY <1>1, <1>4
  <2> QED
    BY <2>1, <2>2
<1> HIDE DEF j
<1>7. w[j].txn = v[j].txn
  <2>1. w[j + 1].prev = w[j].txn /\ v[j + 1].prev = v[j].txn
    BY <1>5 DEF Valid, Chained
  <2> QED
    BY <1>6, <2>1
<1>8. /\ w[j].aSalt = g /\ v[j].aSalt = g
      /\ w[j] \in f.walMay[j] /\ v[j] \in f.walMay[j]
  BY <1>5 DEF Valid, Chained
<1>9. w[j] = v[j]
  BY <1>5, <1>7, <1>8
<1> QED
  BY <1>4, <1>9 DEF j

\* Transactions follow each other in a log.
LEMMA Ascends ==
    ASSUME NEW w, NEW g, NEW i \in Nat, Chained(w, g, i),
           \A j \in 1 .. i : w[j].txn \in Nat /\ w[j].prev <= w[j].txn,
           NEW K \in 1 .. i
    PROVE  w[K].txn <= w[i].txn
<1> SUFFICES ASSUME ~(w[K].txn <= w[i].txn) PROVE FALSE
  OBVIOUS
<1> DEFINE T == {n \in K .. i : ~(w[K].txn <= w[n].txn)}
<1>1. PICK n \in T : \A y \in T : n <= y
  <2>1. T \in SUBSET Nat /\ i \in T
    OBVIOUS
  <2> HIDE DEF T
  <2> QED
    BY <2>1, Least
<1>2. n \in K .. i /\ ~(w[K].txn <= w[n].txn)
  BY <1>1
<1>3. n > K
  BY <1>2
<1>4. w[K].txn <= w[n - 1].txn
  <2>1. n - 1 \notin T
    BY <1>1, <1>2, <1>3
  <2> QED
    BY <1>2, <1>3, <2>1
<1>5. w[n].prev = w[n - 1].txn /\ w[n].prev <= w[n].txn
  BY <1>2, <1>3 DEF Chained
<1>6. w[K].txn \in Nat /\ w[n - 1].txn \in Nat /\ w[n].txn \in Nat
  BY <1>2, <1>3
<1> QED
  BY <1>2, <1>4, <1>5, <1>6

-----------------------------------------------------------------------------
(* What the invariant says.                                                *)

LEMMA Numbers ==
    ASSUME Types
    PROVE  /\ MaxFrame \in Nat /\ MaxFrame > 0 /\ NSlot \in Nat /\ NSlot > 0
           /\ MaxTxn \in Nat /\ MaxSalt \in Nat
           /\ hdr.mxFrame \in Nat /\ hdr.mxFrame <= MaxFrame /\ hdr.isInit \in BOOLEAN
           /\ hdr.txn \in Nat /\ hdr.txn <= MaxTxn /\ hdr.txn \in 0 .. MaxTxn
           /\ hdr.aSalt \in Nat /\ hdr.aSalt <= MaxSalt
           /\ info.nBackfill \in Nat /\ info.nBackfill <= MaxFrame
           /\ salts \in Nat /\ txn \in Nat /\ salts <= MaxSalt /\ txn <= MaxTxn
           /\ states.floor \in Nat
           /\ ckpt.mxSafeFrame \in Nat /\ ckpt.mxSafeFrame <= MaxFrame /\ ckpt.slot \in Nat
           /\ ckpt.slot <= NSlot + 1 /\ ckpt.slot > 0
BY WalAssumption DEF Types, WalIndexHdr, Info, Ckpt, States

LEMMA ConnIs ==
    ASSUME Types, NEW c \in Connection
    PROVE  /\ conn[c] \in Conn /\ conn[c].pc \in PCs /\ conn[c].hdr \in WalIndexHdr
           /\ conn[c].hdr.mxFrame \in Nat /\ conn[c].hdr.mxFrame <= MaxFrame
           /\ conn[c].hdr.txn \in Nat /\ conn[c].hdr.txn \in 0 .. MaxTxn
           /\ conn[c].hdr.aSalt \in Nat
           /\ conn[c].readLock \in -1 .. NSlot /\ conn[c].readLock \in Int
           /\ conn[c].slot \in Nat /\ conn[c].slot <= NSlot
           /\ conn[c].mark \in Nat /\ conn[c].mark <= MaxFrame
           /\ conn[c].minFrame \in Nat /\ conn[c].minFrame > 0 /\ conn[c].minFrame <= MaxFrame + 1
<1>1. conn[c] \in Conn
  BY DEF Types
<1>2. conn[c].hdr \in WalIndexHdr
  BY <1>1 DEF Conn
<1> QED
  BY <1>1, <1>2, WalAssumption DEF Conn, WalIndexHdr

LEMMA FilesAre ==
    ASSUME Types
    PROVE  /\ file.wal \in [Frames -> Frame] /\ file.walMay \in [Frames -> SUBSET Frame]
           /\ file.aSalt \in Nat /\ file.saltMay \subseteq Nat
           /\ file.db \in [Page -> 0 .. Torn] /\ file.dbMay \in [Page -> SUBSET (0 .. Torn)]
           /\ states.db \in [0 .. MaxTxn -> [Page -> 0 .. MaxTxn]]
           /\ \A j \in Frames : /\ file.wal[j] \in Frame
                                /\ file.wal[j].txn \in Nat /\ file.wal[j].txn \in 0 .. MaxTxn
                                /\ file.wal[j].prev \in Nat /\ file.wal[j].aSalt \in Nat
           /\ \A j \in Frames : \A x \in file.walMay[j] :
                 x \in Frame /\ x.txn \in Nat /\ x.txn \in 0 .. MaxTxn /\ x.prev \in Nat /\ x.aSalt \in Nat
<1>1. \A x \in Frame : x.txn \in Nat /\ x.txn \in 0 .. MaxTxn /\ x.prev \in Nat /\ x.aSalt \in Nat
  BY WalAssumption DEF Frame
<1>2. /\ file.wal \in [Frames -> Frame] /\ file.walMay \in [Frames -> SUBSET Frame]
      /\ file.aSalt \in Nat /\ file.saltMay \subseteq Nat
      /\ file.db \in [Page -> 0 .. Torn] /\ file.dbMay \in [Page -> SUBSET (0 .. Torn)]
  BY WalAssumption DEF Types, Files
<1>3. states.db \in [0 .. MaxTxn -> [Page -> 0 .. MaxTxn]]
  BY DEF Types, States
<1>4. \A j \in Frames : file.wal[j] \in Frame /\ file.walMay[j] \subseteq Frame
  BY <1>2
<1> QED
  BY <1>1, <1>2, <1>3, <1>4

\* The log in the file is one that a power loss may leave.
LEMMA WalIsValid ==
    ASSUME Types, FrameInv, NEW g, NEW i \in Nat, i <= MaxFrame, Chained(file.wal, g, i)
    PROVE  file.wal \in [Frames -> Frame] /\ Valid(file, file.wal, g, i)
<1>1. file.wal \in [Frames -> Frame] /\ \A j \in Frames : file.wal[j] \in file.walMay[j]
  BY FilesAre DEF FrameInv
<1>2. \A j \in 1 .. i : j \in Frames
  BY WalAssumption DEF Frames
<1> QED
  BY <1>1, <1>2 DEF Valid

LEMMA CommittedLog ==
    ASSUME Types, FrameInv, NEW g, NEW b, NEW K, MediumInv(g, b, K), HdrInv(g, K),
           hdr.isInit, hdr.mxFrame > 0
    PROVE  /\ Seals(states.db, file.wal, hdr.mxFrame, b, hdr.txn) /\ hdr.txn >= b
           /\ g # 0 /\ hdr.aSalt = g /\ file.saltMay = {g} /\ K <= hdr.mxFrame
           /\ Chained(file.wal, g, hdr.mxFrame)
           /\ file.wal[hdr.mxFrame].commit /\ file.wal[hdr.mxFrame].txn = hdr.txn
           /\ \A j \in 1 .. hdr.mxFrame : info.aPgno[j] = file.wal[j].pgno
<1>1. /\ g # 0 /\ hdr.aSalt = g /\ file.saltMay = {g} /\ K <= hdr.mxFrame
      /\ Chained(file.wal, g, hdr.mxFrame)
      /\ file.wal[hdr.mxFrame].commit /\ file.wal[hdr.mxFrame].txn = hdr.txn
      /\ \A j \in 1 .. hdr.mxFrame : info.aPgno[j] = file.wal[j].pgno
  BY DEF HdrInv
<1>2. hdr.mxFrame \in Frames /\ hdr.mxFrame \in Nat /\ hdr.mxFrame <= MaxFrame
  BY Numbers DEF Frames
<1>3. file.wal \in [Frames -> Frame] /\ Valid(file, file.wal, g, hdr.mxFrame)
  BY <1>1, <1>2, WalIsValid
<1>4. LogOver(file, states.db, g, b)
  BY DEF MediumInv
<1>5. Seals(states.db, file.wal, hdr.mxFrame, b, hdr.txn) /\ hdr.txn >= b
  BY <1>1, <1>2, <1>3, <1>4 DEF LogOver
<1> QED
  BY <1>1, <1>5

LEMMA IInvImpliesCommitsKept == IInv => CommitsKept
<1> SUFFICES ASSUME IInv, hdr.isInit, NEW p \in Page
             PROVE  Content(p, info.nBackfill + 1, hdr.mxFrame) = states.db[hdr.txn][p]
  BY DEF CommitsKept
<1>1. PICK g \in 0 .. MaxSalt, b \in 0 .. MaxTxn, K \in 0 .. MaxFrame : LogInv(g, b, K)
  BY DEF IInv
<1>2. MediumInv(g, b, K) /\ HdrInv(g, K) /\ Types /\ FrameInv
  BY <1>1 DEF IInv, LogInv
<1> DEFINE lo == info.nBackfill + 1
           mx == hdr.mxFrame
           i == LastFrame(p, lo, mx)
<1>3. lo \in Nat /\ lo > 0 /\ mx \in Nat /\ mx <= MaxFrame
  BY <1>2, Numbers
<1>4. \A j \in lo .. mx : info.aPgno[j] = file.wal[j].pgno
  BY <1>2, <1>3, CommittedLog
<1>5. Content(p, info.nBackfill + 1, hdr.mxFrame) = IF i = 0 THEN file.db[p] ELSE file.wal[i].txn
  BY DEF Content
<1>6. NoneOf(file.wal, p, lo, mx) => file.db[p] = states.db[hdr.txn][p]
  BY <1>2 DEF HdrInv
<1>7. mx > 0 => Seals(states.db, file.wal, mx, b, hdr.txn)
  BY <1>2, CommittedLog
<1> HIDE DEF lo, mx
<1>8. \/ i = 0 /\ \A k \in lo .. mx : info.aPgno[k] # p
      \/ i \in lo .. mx /\ info.aPgno[i] = p /\ \A k \in i + 1 .. mx : info.aPgno[k] # p
  BY <1>2, <1>3, LastFrameIs
<1> HIDE DEF i
<1>9. CASE i = 0
  <2>1. NoneOf(file.wal, p, lo, mx)
    BY <1>3, <1>4, <1>8, <1>9 DEF NoneOf
  <2> QED
    BY <1>5, <1>6, <1>9, <2>1
<1>10. CASE i # 0
  <2>1. i \in lo .. mx /\ i \in 1 .. mx /\ mx > 0
    BY <1>3, <1>8, <1>10
  <2>2. LastIs(file.wal, p, 1, mx, i)
    BY <1>3, <1>4, <1>8, <1>10, <2>1 DEF LastIs, NoneOf
  <2> QED
    BY <1>5, <1>7, <1>10, <2>1, <2>2 DEF Seals
<1> QED
  BY <1>9, <1>10

LEMMA IInvImpliesSnapshotHeld == IInv => SnapshotHeld
<1> SUFFICES ASSUME IInv, NEW c \in Connection, conn[c].pc \in {"read", "write"}, NEW p \in Page
             PROVE  PageRead(c, p) = states.db[conn[c].hdr.txn][p]
  BY DEF SnapshotHeld
<1>1. PICK g \in 0 .. MaxSalt, b \in 0 .. MaxTxn, K \in 0 .. MaxFrame : LogInv(g, b, K)
  BY DEF IInv
<1>2. /\ MediumInv(g, b, K) /\ HdrInv(g, K) /\ Types /\ FrameInv /\ hdr.isInit
      /\ PlaceInv(c) /\ ReaderInv(c) /\ Checked(c) /\ SnapFrame(c) = conn[c].hdr.mxFrame
  BY <1>1 DEF IInv, LogInv, PlaceInv, Checked, SnapFrame
<1>3. CASE conn[c].readLock = 0
  BY <1>2, <1>3 DEF ReaderInv, PageRead
<1>4. CASE conn[c].readLock # 0
  <2> DEFINE lo == conn[c].minFrame
             mx == conn[c].hdr.mxFrame
             i == LastFrame(p, lo, mx)
  <2>1. /\ lo \in Nat /\ lo > 0 /\ mx \in Nat /\ mx <= MaxFrame /\ conn[c].readLock > 0
        /\ hdr.mxFrame \in Nat
    BY <1>2, <1>4, ConnIs, Numbers DEF PlaceInv
  <2>2. /\ mx <= hdr.mxFrame
        /\ NoneOf(file.wal, p, lo, mx) => file.db[p] = states.db[conn[c].hdr.txn][p]
        /\ \A k \in Frames : LastIs(file.wal, p, lo, mx, k) => file.wal[k].txn = states.db[conn[c].hdr.txn][p]
    BY <1>2, <2>1 DEF ReaderInv
  <2> HIDE DEF lo, mx
  <2>3. \/ i = 0 /\ \A k \in lo .. mx : info.aPgno[k] # p
        \/ i \in lo .. mx /\ info.aPgno[i] = p /\ \A k \in i + 1 .. mx : info.aPgno[k] # p
    BY <1>2, <2>1, LastFrameIs
  <2>4. \A j \in lo .. mx : info.aPgno[j] = file.wal[j].pgno
    BY <1>2, <2>1, <2>2, CommittedLog
  <2>5. PageRead(c, p) = IF i = 0 THEN file.db[p] ELSE file.wal[i].txn
    BY <1>4 DEF PageRead, Content, lo, mx
  <2> HIDE DEF i
  <2>6. CASE i = 0
    <3>1. NoneOf(file.wal, p, lo, mx)
      BY <2>1, <2>3, <2>4, <2>6 DEF NoneOf
    <3> QED
      BY <2>2, <2>5, <2>6, <3>1
  <2>7. CASE i # 0
    <3>1. i \in lo .. mx /\ i \in Frames /\ info.aPgno[i] = p /\ \A k \in i + 1 .. mx : info.aPgno[k] # p
      BY <2>1, <2>3, <2>7, WalAssumption DEF Frames
    <3>2. file.wal[i].pgno = p /\ \A k \in i + 1 .. mx : file.wal[k].pgno # p
      BY <2>1, <2>4, <3>1
    <3>3. LastIs(file.wal, p, lo, mx, i)
      BY <3>1, <3>2 DEF LastIs, NoneOf
    <3> QED
      BY <2>2, <2>5, <2>7, <3>1, <3>3
  <2> QED
    BY <2>6, <2>7
<1> QED
  BY <1>3, <1>4

LEMMA IInvImpliesSyncedKept == IInv => SyncedKept /\ BackfillInLog
<1> SUFFICES ASSUME IInv PROVE SyncedKept /\ BackfillInLog
  OBVIOUS
<1>1. PICK g \in 0 .. MaxSalt, b \in 0 .. MaxTxn, K \in 0 .. MaxFrame : LogInv(g, b, K)
  BY DEF IInv
<1>2. HdrInv(g, K) /\ Types /\ DownInv
  BY <1>1 DEF IInv, LogInv
<1>3. hdr.isInit \in BOOLEAN /\ hdr.mxFrame \in Nat /\ hdr.txn \in Nat /\ states.floor \in Nat
  BY <1>2, Numbers
<1> QED
  BY <1>2, <1>3 DEF HdrInv, DownInv, SyncedKept, BackfillInLog

LEMMA TypesImplyTypeOK == Types => TypeOK
<1> SUFFICES ASSUME Types PROVE TypeOK
  OBVIOUS
<1>1. /\ file.aSalt \in 0 .. MaxSalt /\ file.saltMay \subseteq 0 .. MaxSalt
      /\ \A i \in Frames : file.wal[i] \in Frame /\ file.walMay[i] \subseteq Frame
      /\ file.db \in [Page -> 0 .. Torn] /\ file.dbMay \in [Page -> SUBSET (0 .. Torn)]
  BY DEF Types, Files
<1>2. ckpt.step \in {"none", "compare", "marks", "copy", "end", "done"} /\ states.floor \in 0 .. MaxTxn
  BY DEF Types, Ckpt, States
<1>3. hdr \in WalIndexHdr /\ info \in Info /\ locks \in Locks
  BY DEF Types
<1>4. conn \in [Connection -> Conn] /\ salts \in 0 .. MaxSalt /\ txn \in 0 .. MaxTxn /\ crashes \in 0 .. MaxCrash
  BY DEF Types
<1> QED
  BY <1>1, <1>2, <1>3, <1>4 DEF TypeOK, Info, Locks, Conn

-----------------------------------------------------------------------------
(* The initial states.                                                     *)

LEMMA Constants ==
    /\ MaxFrame \in Nat /\ MaxFrame > 0 /\ NSlot \in Nat /\ NSlot > 0
    /\ MaxTxn \in Nat /\ MaxSalt \in Nat /\ MaxCrash \in Nat
    /\ NoConn \notin Connection /\ Page \subseteq Nat /\ 0 \notin Page
BY WalAssumption

LEMMA Starts ==
    /\ NoHdr \in WalIndexHdr /\ NewInfo \in Info /\ Idle \in Conn /\ NoCkpt \in Ckpt
    /\ [write |-> NoConn, ckpt |-> NoConn, db |-> FALSE] \in Locks /\ NoFrame \in Frame
<1> USE Constants
<1>1. NoHdr \in WalIndexHdr
  BY DEF NoHdr, WalIndexHdr
<1>2. NewInfo \in Info
  BY DEF NewInfo, Info, READMARK_NOT_USED
<1>3. Idle \in Conn
  BY <1>1 DEF Idle, Conn, PCs
<1>4. NoCkpt \in Ckpt
  BY DEF NoCkpt, Ckpt
<1>5. [write |-> NoConn, ckpt |-> NoConn, db |-> FALSE] \in Locks
  BY DEF Locks
<1>6. NoFrame \in Frame
  BY DEF NoFrame, Frame
<1> QED
  BY <1>1, <1>2, <1>3, <1>4, <1>5, <1>6

LEMMA InitInv == Init => IInv
<1> SUFFICES ASSUME Init PROVE IInv
  OBVIOUS
<1> USE Constants
<1>1. /\ hdr = NoHdr /\ info = NewInfo
      /\ locks = [write |-> NoConn, ckpt |-> NoConn, db |-> FALSE]
      /\ conn = [c \in Connection |-> Idle] /\ ckpt = NoCkpt
      /\ salts = 0 /\ txn = 0 /\ crashes = 0
  BY DEF Init
<1>2. /\ file.wal = [i \in Frames |-> NoFrame] /\ file.walMay = [i \in Frames |-> {NoFrame}]
      /\ file.aSalt = 0 /\ file.saltMay = {0}
      /\ file.db = [p \in Page |-> 0] /\ file.dbMay = [p \in Page |-> {0}]
      /\ states.db = [t \in 0 .. MaxTxn |-> [p \in Page |-> 0]] /\ states.floor = 0
  BY DEF Init
<1>3. Types
  <2>1. file \in Files
    BY Starts DEF Init, Files, Torn
  <2>2. states \in States
    BY DEF Init, States
  <2>3. \A c \in Connection : conn[c] \in Conn
    BY <1>1, Starts
  <2>4. conn \in [Connection -> Conn]
    BY <1>1, <2>3
  <2> QED
    BY <1>1, <2>1, <2>2, <2>4, Starts DEF Types
<1>4. FrameInv
  <2>1. NoFrame.txn = 0 /\ NoFrame.prev = 0 /\ NoFrame.aSalt = 0
    BY DEF NoFrame
  <2> QED
    BY <1>1, <1>2, <2>1 DEF FrameInv
<1>5. hdr.isInit = FALSE /\ info.nBackfill = 0 /\ locks.write = NoConn /\ locks.ckpt = NoConn /\ locks.db = FALSE
  BY <1>1 DEF NoHdr, NewInfo
<1>6. DownInv /\ NobodyCopies
  BY <1>1, <1>2, <1>5 DEF DownInv, NobodyCopies
<1>7. ASSUME NEW c \in Connection
      PROVE  PlaceInv(c) /\ ReaderInv(c) /\ WriterInv(c, 0, 0, 0) /\ CkptInv(c, 0)
  <2>1. /\ conn[c].pc = "idle" /\ conn[c].readLock = -1 /\ conn[c].hdr.aSalt = 0
        /\ locks.write # c /\ locks.ckpt # c
    BY <1>1, <1>5 DEF Idle, NoHdr
  <2> QED
    BY <1>1, <2>1 DEF PlaceInv, ReaderInv, WriterInv, CkptInv, Checked
<1>8. MediumInv(0, 0, 0)
  BY <1>1, <1>2 DEF MediumInv, LogOver, Real, Whole
<1>9. HdrInv(0, 0)
  BY <1>5 DEF HdrInv
<1> QED
  BY <1>3, <1>4, <1>6, <1>7, <1>8, <1>9 DEF IInv, LogInv

-----------------------------------------------------------------------------
(* Types.                                                                  *)

\* A connection's record after each change of it.
LEMMA ConnRecords ==
    ASSUME NEW x \in Conn
    PROVE  /\ \A q \in PCs : [x EXCEPT !.pc = q] \in Conn
           /\ \A q \in PCs, h \in WalIndexHdr : [x EXCEPT !.pc = q, !.hdr = h] \in Conn
           /\ \A q \in PCs, i \in -1 .. NSlot : [x EXCEPT !.pc = q, !.readLock = i] \in Conn
           /\ \A q \in PCs, i \in 0 .. NSlot, m \in 0 .. MaxFrame :
                 [x EXCEPT !.pc = q, !.slot = i, !.mark = m] \in Conn
           /\ \A q \in PCs, i \in 0 .. NSlot, m \in 1 .. MaxFrame + 1 :
                 [x EXCEPT !.pc = q, !.readLock = i, !.minFrame = m] \in Conn
           /\ \A q \in PCs, h \in WalIndexHdr :
                 [Idle EXCEPT !.pc = q, !.hdr = h] \in Conn
<1>1. /\ x = [pc |-> x.pc, hdr |-> x.hdr, readLock |-> x.readLock, slot |-> x.slot,
               mark |-> x.mark, minFrame |-> x.minFrame]
      /\ x.pc \in PCs /\ x.hdr \in WalIndexHdr /\ x.readLock \in -1 .. NSlot
      /\ x.slot \in 0 .. NSlot /\ x.mark \in 0 .. MaxFrame /\ x.minFrame \in 1 .. MaxFrame + 1
  BY DEF Conn
<1>2. 0 .. NSlot \subseteq -1 .. NSlot
  BY Constants
<1>3. Idle \in Conn
  BY Starts
<1>4. \A q \in PCs, h \in WalIndexHdr : [Idle EXCEPT !.pc = q, !.hdr = h] \in Conn
  BY <1>3 DEF Conn
<1>5. \A q \in PCs, i \in 0 .. NSlot, m \in 1 .. MaxFrame + 1 :
         [x EXCEPT !.pc = q, !.readLock = i, !.minFrame = m] \in Conn
  BY <1>1, <1>2 DEF Conn
<1>6. \A q \in PCs, i \in 0 .. NSlot, m \in 0 .. MaxFrame :
         [x EXCEPT !.pc = q, !.slot = i, !.mark = m] \in Conn
  BY <1>1 DEF Conn
<1>7. \A q \in PCs : [x EXCEPT !.pc = q] \in Conn
  BY <1>1 DEF Conn
<1>8. \A q \in PCs, h \in WalIndexHdr : [x EXCEPT !.pc = q, !.hdr = h] \in Conn
  BY <1>1 DEF Conn
<1>9. \A q \in PCs, i \in -1 .. NSlot : [x EXCEPT !.pc = q, !.readLock = i] \in Conn
  BY <1>1 DEF Conn
<1> QED
  BY <1>4, <1>5, <1>6, <1>7, <1>8, <1>9

LEMMA ReaderTypes ==
    ASSUME Types, NEW c \in Connection,
           \/ walIndexReadHdr(c) \/ TryLock0(c) \/ CheckLock0(c)
           \/ ChooseMark(c) \/ LockMark(c) \/ CheckMark(c)
           \/ sqlite3WalEndReadTransaction(c)
    PROVE  Types'
<1> USE Constants
<1>1. /\ UNCHANGED <<hdr, locks, file, ckpt, salts, txn, crashes, states>>
  BY DEF walIndexReadHdr, TryLock0, CheckLock0, ChooseMark, LockMark, CheckMark,
         sqlite3WalEndReadTransaction
<1>2. conn[c] \in Conn /\ Idle \in Conn /\ conn[c].hdr \in WalIndexHdr
  BY Starts, ConnIs
<1>3. Retry(c) \in Conn
  BY <1>2 DEF Retry, Conn, Idle, PCs
<1>4. SUFFICES info' \in Info /\ \E x \in Conn : conn' = [conn EXCEPT ![c] = x]
  BY <1>1 DEF Types
<1>5. info \in Info /\ hdr \in WalIndexHdr
  BY DEF Types
<1>6. CASE walIndexReadHdr(c)
  <2>1. [conn[c] EXCEPT !.pc = "hdr", !.hdr = hdr] \in Conn
    BY <1>2, <1>5 DEF Conn, PCs
  <2> QED
    BY <1>5, <1>6, <2>1 DEF walIndexReadHdr
<1>7. CASE TryLock0(c)
  <2>1. [conn[c] EXCEPT !.pc = "lock0", !.readLock = 0] \in Conn
    <3>1. "lock0" \in PCs /\ 0 \in -1 .. NSlot
      BY DEF PCs
    <3> QED
      BY <1>2, <3>1, ConnRecords
  <2> QED
    BY <1>5, <1>7, <2>1 DEF TryLock0
<1>8. CASE CheckLock0(c)
  <2>1. [conn[c] EXCEPT !.pc = "read"] \in Conn
    BY <1>2, <1>5 DEF Conn, PCs
  <2> QED
    BY <1>3, <1>5, <1>8, <2>1 DEF CheckLock0
<1>9. CASE ChooseMark(c)
  <2> DEFINE mx == conn[c].hdr.mxFrame
             upTo == {i \in Slot : info.aReadMark[i] <= mx}
             best == {i \in upTo : \A j \in upTo : info.aReadMark[j] <= info.aReadMark[i]}
             free == {i \in Slot : Unlocked({i})}
  <2>1. ASSUME NEW i \in Slot, NEW m \in 0 .. MaxFrame
        PROVE  [conn[c] EXCEPT !.pc = "lock", !.slot = i, !.mark = m] \in Conn
    <3>1. "lock" \in PCs /\ i \in 0 .. NSlot
      BY DEF PCs, Slot
    <3> QED
      BY <1>2, <3>1, ConnRecords
  <2>2. mx \in 0 .. MaxFrame
    BY ConnIs
  <2>3. best # {} => Max(best) \in Slot /\ Max(best) \in best
    <3> HIDE DEF mx
    <3>1. best \in SUBSET (0 .. NSlot) /\ best \subseteq Slot
      BY DEF Slot
    <3> HIDE DEF best
    <3> QED
      BY <3>1, MaxIs
  <2>4. free # {} => Min(free) \in Slot
    <3>1. free \in SUBSET Nat /\ free \subseteq Slot
      BY DEF Slot
    <3> HIDE DEF free
    <3> QED
      BY <3>1, MinIs
  <2>5. \A i \in Slot : [info EXCEPT !.aReadMark[i] = mx] \in Info
    BY <1>5, <2>2 DEF Info, READMARK_NOT_USED
  <2>6. \A i \in Slot : info.aReadMark[i] \in Nat
    BY <1>5 DEF Info, READMARK_NOT_USED
  <2>7. best # {} => info.aReadMark[Max(best)] \in 0 .. MaxFrame
    <3>1. best # {} => Max(best) \in Slot /\ info.aReadMark[Max(best)] <= mx
      BY <2>3
    <3> HIDE DEF best, mx
    <3> QED
      BY <2>2, <2>6, <3>1
  <2>8. \/ /\ best # {} /\ conn' = [conn EXCEPT ![c] = [@ EXCEPT !.pc = "lock", !.slot = Max(best), !.mark = mx]]
           /\ info' = info
        \/ /\ free # {} /\ info' = [info EXCEPT !.aReadMark[Min(free)] = mx]
           /\ conn' = [conn EXCEPT ![c] = [@ EXCEPT !.pc = "lock", !.slot = Min(free), !.mark = mx]]
        \/ /\ best # {} /\ info' = info
           /\ conn' = [conn EXCEPT ![c] = [@ EXCEPT !.pc = "lock", !.slot = Max(best),
                                                    !.mark = info.aReadMark[Max(best)]]]
        \/ conn' = [conn EXCEPT ![c] = Retry(c)] /\ info' = info
    BY <1>9 DEF ChooseMark
  <2> HIDE DEF best, free, mx, upTo
  <2>9. \A x : conn' = [conn EXCEPT ![c] = x] /\ x \in Conn => \E y \in Conn : conn' = [conn EXCEPT ![c] = y]
    OBVIOUS
  <2> QED
    BY <1>3, <1>5, <2>1, <2>2, <2>3, <2>4, <2>5, <2>7, <2>8
<1>10. CASE LockMark(c)
  <2>1. [conn[c] EXCEPT !.pc = "check", !.readLock = conn[c].slot, !.minFrame = info.nBackfill + 1] \in Conn
    <3>1. "check" \in PCs /\ conn[c].slot \in 0 .. NSlot /\ info.nBackfill + 1 \in 1 .. MaxFrame + 1
      BY <1>5, ConnIs DEF PCs, Info
    <3> QED
      BY <1>2, <3>1, ConnRecords
  <2> QED
    BY <1>5, <1>10, <2>1 DEF LockMark
<1>11. CASE CheckMark(c)
  <2>1. \A x \in {"read", "write"} : [conn[c] EXCEPT !.pc = x, !.slot = 0, !.mark = 0] \in Conn
    <3>1. "read" \in PCs /\ "write" \in PCs /\ 0 \in 0 .. NSlot /\ 0 \in 0 .. MaxFrame
      BY DEF PCs
    <3> QED
      BY <1>2, <3>1, ConnRecords
  <2>2. CASE MarkStands(c)
    <3> DEFINE q == IF locks.write = c THEN "write" ELSE "read"
    <3>1. conn' = [conn EXCEPT ![c] = [@ EXCEPT !.pc = q, !.slot = 0, !.mark = 0]] /\ info' = info
      BY <1>11, <2>2 DEF CheckMark
    <3>2. q \in {"read", "write"}
      OBVIOUS
    <3> HIDE DEF q
    <3> QED
      BY <1>5, <2>1, <3>1, <3>2
  <2>3. CASE ~MarkStands(c)
    BY <1>3, <1>5, <1>11, <2>3 DEF CheckMark
  <2> QED
    BY <2>2, <2>3
<1>12. CASE sqlite3WalEndReadTransaction(c)
  BY <1>2, <1>5, <1>12 DEF sqlite3WalEndReadTransaction
<1> QED
  BY <1>6, <1>7, <1>8, <1>9, <1>10, <1>11, <1>12

LEMMA RestartTypes ==
    ASSUME Types, NEW h \in WalIndexHdr, salts < MaxSalt
    PROVE  salts + 1 \in 0 .. MaxSalt /\ Restarted(h) \in WalIndexHdr /\ RestartedInfo \in Info
<1>1. salts + 1 \in 0 .. MaxSalt
  BY Constants DEF Types
<1>2. Restarted(h) \in WalIndexHdr
  <2>1. 0 \in 0 .. MaxFrame
    BY Constants
  <2> QED
    BY <1>1, <2>1 DEF Restarted, WalIndexHdr
<1>3. RestartedInfo \in Info
  <2>1. 0 \in 0 .. MaxFrame /\ 0 \in 0 .. READMARK_NOT_USED /\ READMARK_NOT_USED \in 0 .. READMARK_NOT_USED
    BY Constants DEF READMARK_NOT_USED
  <2>2. [i \in Slot |-> IF i = 1 THEN 0 ELSE READMARK_NOT_USED] \in [Slot -> 0 .. READMARK_NOT_USED]
    BY <2>1
  <2> HIDE DEF READMARK_NOT_USED
  <2>3. info \in Info
    BY DEF Types
  <2> QED
    BY <2>1, <2>2, <2>3 DEF RestartedInfo, Info
<1> QED
  BY <1>1, <1>2, <1>3

LEMMA WriterTypes ==
    ASSUME Types, NEW c \in Connection,
           \/ sqlite3WalBeginWriteTransaction(c) \/ walRestartLog(c) \/ WriteWalHdr(c)
           \/ \E p \in Page, commit \in BOOLEAN : AppendFrame(c, p, commit)
           \/ Commit(c) \/ Rollback(c)
    PROVE  Types'
<1>1. /\ conn \in [Connection -> Conn] /\ conn[c] \in Conn /\ conn[c].hdr \in WalIndexHdr
      /\ hdr \in WalIndexHdr /\ info \in Info /\ locks \in Locks /\ file \in Files
      /\ ckpt \in Ckpt /\ salts \in 0 .. MaxSalt /\ txn \in 0 .. MaxTxn
      /\ crashes \in 0 .. MaxCrash /\ states \in States
  BY ConnIs DEF Types
<1>2. \A x \in Conn : [conn EXCEPT ![c] = x] \in [Connection -> Conn]
  BY <1>1
<1>3. [locks EXCEPT !.write = NoConn] \in Locks /\ [locks EXCEPT !.write = c] \in Locks
  BY <1>1 DEF Locks
<1>4. {"hdr", "read", "write", "frames", "sealed"} \subseteq PCs
  BY DEF PCs
<1>5. \A x \in Frame : x.txn \in 0 .. MaxTxn
  BY DEF Frame
<1>6. file.wal \in [Frames -> Frame] /\ \A i \in Frames : file.wal[i] \in Frame
  BY <1>1 DEF Files
<1>7. SyncWal(file) \in Files
  <2>1. [i \in Frames |-> {file.wal[i]}] \in [Frames -> SUBSET Frame] /\ {file.aSalt} \in SUBSET (0 .. MaxSalt)
    BY <1>1, <1>6 DEF Files
  <2> QED
    BY <1>1, <2>1 DEF SyncWal, Files
<1>8. CASE sqlite3WalBeginWriteTransaction(c)
  <2>1. txn' \in 0 .. MaxTxn
    BY <1>1, <1>8, Constants DEF sqlite3WalBeginWriteTransaction
  <2>2. conn' \in [Connection -> Conn] /\ locks' \in Locks
    BY <1>1, <1>2, <1>3, <1>4, <1>8, ConnRecords DEF sqlite3WalBeginWriteTransaction
  <2> QED
    BY <1>1, <1>8, <2>1, <2>2 DEF Types, sqlite3WalBeginWriteTransaction
<1>9. CASE walRestartLog(c)
  <2>1. ASSUME NEW h \in WalIndexHdr PROVE [Idle EXCEPT !.pc = "hdr", !.hdr = h] \in Conn
    BY <1>1, <1>4, ConnRecords
  <2>2. CASE /\ salts < MaxSalt /\ salts' = salts + 1
             /\ hdr' = Restarted(conn[c].hdr) /\ info' = RestartedInfo
             /\ conn' = [conn EXCEPT ![c] = [Idle EXCEPT !.pc = "hdr", !.hdr = hdr']]
    <3>1. salts' \in 0 .. MaxSalt /\ hdr' \in WalIndexHdr /\ info' \in Info
      BY <1>1, <2>2, RestartTypes
    <3> QED
      BY <1>1, <1>2, <1>9, <2>1, <2>2, <3>1 DEF Types, walRestartLog
  <2>3. CASE conn' = [conn EXCEPT ![c] = [Idle EXCEPT !.pc = "hdr", !.hdr = conn[c].hdr]] /\ UNCHANGED <<hdr, info, salts>>
    BY <1>1, <1>2, <1>9, <2>1, <2>3 DEF Types, walRestartLog
  <2> QED
    BY <1>9, <2>2, <2>3 DEF walRestartLog
<1>10. CASE WriteWalHdr(c)
  <2>1. PICK s \in ({conn[c].hdr.aSalt} \ {0}) \cup ({salts + 1} \cap (1 .. MaxSalt)) :
           /\ salts' = Max({s, salts})
           /\ file' = SyncWal(WriteSalt(file, s))
           /\ conn' = [conn EXCEPT ![c].pc = "frames", ![c].hdr.aSalt = s]
    BY <1>10 DEF WriteWalHdr
  <2>2. s \in 0 .. MaxSalt
    BY <1>1, <2>1 DEF WalIndexHdr
  <2>3. {s, salts} \in SUBSET (0 .. MaxSalt) /\ {s, salts} # {}
    BY <1>1, <2>2
  <2>4. salts' \in 0 .. MaxSalt
    BY <2>1, <2>3, MaxIs, Constants
  <2>5. file' \in Files
    <3>1. [i \in Frames |-> {file.wal[i]}] \in [Frames -> SUBSET Frame] /\ {s} \in SUBSET (0 .. MaxSalt)
      BY <1>1, <1>6, <2>2 DEF Files
    <3> QED
      BY <1>1, <2>1, <2>2, <3>1 DEF SyncWal, WriteSalt, Files
  <2>6. [conn[c].hdr EXCEPT !.aSalt = s] \in WalIndexHdr
    BY <1>1, <2>2 DEF WalIndexHdr
  <2>7. conn' = [conn EXCEPT ![c] = [@ EXCEPT !.pc = "frames", !.hdr = [conn[c].hdr EXCEPT !.aSalt = s]]]
    BY <1>1, <2>1 DEF Conn
  <2>8. conn' \in [Connection -> Conn]
    BY <1>1, <1>2, <1>4, <2>6, <2>7, ConnRecords
  <2> QED
    BY <1>1, <1>10, <2>4, <2>5, <2>8 DEF Types, WriteWalHdr
<1>11. ASSUME NEW p \in Page, NEW commit \in BOOLEAN, AppendFrame(c, p, commit) PROVE Types'
  <2> DEFINE last == conn[c].hdr.mxFrame
             i == last + 1
             frame == NewFrame(c, p, commit)
             may == file.walMay[i] \cup {frame}
  <2>1. last \in Nat /\ i \in Frames /\ (last # 0 => last \in Frames)
    BY <1>11, Constants, ConnIs DEF AppendFrame, Frames
  <2>2. frame \in Frame
    <3>1. (IF last = 0 THEN 0 ELSE file.wal[last].txn) \in 0 .. MaxTxn
      BY <1>5, <1>6, <2>1, Constants
    <3>2. conn[c].hdr.aSalt \in 0 .. MaxSalt
      BY <1>1 DEF WalIndexHdr
    <3> QED
      BY <1>1, <3>1, <3>2 DEF NewFrame, Frame
  <2>3. /\ file' = WriteFrame(file, i, frame)
        /\ info' = [info EXCEPT !.aPgno = Appended(i, p)]
        /\ conn' = [conn EXCEPT ![c].pc = IF commit THEN "sealed" ELSE "frames",
                                ![c].hdr.mxFrame = i]
        /\ states' = IF ~commit THEN states ELSE
              [states EXCEPT !.db[txn] = [q \in Page |-> IF q \in Written(c) \cup {p} THEN txn
                                                         ELSE states.db[hdr.txn][q]]]
        /\ UNCHANGED <<hdr, locks, ckpt, salts, txn, crashes>>
    BY <1>11 DEF AppendFrame
  <2> HIDE DEF last, i, frame
  <2>4. file' \in Files
    BY <1>1, <2>1, <2>2, <2>3 DEF WriteFrame, Files
  <2>5. info' \in Info
    <3>1. Appended(i, p) \in [Frames -> Page \cup {0}]
      BY <1>1 DEF Appended, Info
    <3> QED
      BY <1>1, <2>3, <3>1 DEF Info
  <2>6. conn' \in [Connection -> Conn]
    <3> DEFINE q == IF commit THEN "sealed" ELSE "frames"
    <3>1. q \in PCs /\ [conn[c].hdr EXCEPT !.mxFrame = i] \in WalIndexHdr
      <4>1. i \in 0 .. MaxFrame
        BY <2>1, Constants DEF Frames
      <4>2. [conn[c].hdr EXCEPT !.mxFrame = i] \in WalIndexHdr
        BY <1>1, <4>1 DEF WalIndexHdr
      <4> QED
        BY <1>4, <4>2
    <3>2. conn' = [conn EXCEPT ![c] = [@ EXCEPT !.pc = q, !.hdr = [conn[c].hdr EXCEPT !.mxFrame = i]]]
      BY <1>1, <2>3 DEF Conn
    <3> HIDE DEF q
    <3> QED
      BY <1>1, <1>2, <3>1, <3>2, ConnRecords
  <2>7. states' \in States
    <3> DEFINE new == [q \in Page |-> IF q \in Written(c) \cup {p} THEN txn ELSE states.db[hdr.txn][q]]
    <3>1. states.db \in [0 .. MaxTxn -> [Page -> 0 .. MaxTxn]] /\ hdr.txn \in 0 .. MaxTxn
      BY <1>1 DEF States, WalIndexHdr
    <3>2. new \in [Page -> 0 .. MaxTxn]
      BY <1>1, <3>1
    <3>3. states' = IF ~commit THEN states ELSE [states EXCEPT !.db[txn] = new]
      BY <2>3
    <3> HIDE DEF new
    <3> QED
      BY <1>1, <3>1, <3>2, <3>3 DEF States
  <2> QED
    BY <1>1, <2>3, <2>4, <2>5, <2>6, <2>7 DEF Types
<1>12. CASE Commit(c)
  <2>1. hdr' \in WalIndexHdr
    BY <1>1, <1>12 DEF Commit, WalIndexHdr
  <2>2. file' \in Files
    BY <1>1, <1>7, <1>12 DEF Commit, SyncFrames
  <2>3. states' \in States
    BY <1>1, <1>12 DEF Commit, States
  <2>4. conn' = [conn EXCEPT ![c] = [@ EXCEPT !.pc = "read", !.hdr = hdr']]
    BY <1>12 DEF Commit
  <2>5. conn' \in [Connection -> Conn] /\ locks' \in Locks
    <3>1. conn' \in [Connection -> Conn]
      BY <1>1, <1>2, <1>4, <2>1, <2>4, ConnRecords
    <3> QED
      BY <1>3, <1>12, <3>1 DEF Commit
  <2> QED
    BY <1>1, <1>12, <2>1, <2>2, <2>3, <2>5 DEF Types, Commit
<1>13. CASE Rollback(c)
  <2>1. info' \in Info
    BY <1>1, <1>13 DEF Rollback, Info
  <2>2. conn' = [conn EXCEPT ![c] = [@ EXCEPT !.pc = "read", !.hdr = hdr]]
    BY <1>13 DEF Rollback
  <2>3. conn' \in [Connection -> Conn] /\ locks' \in Locks
    <3>1. conn' \in [Connection -> Conn]
      BY <1>1, <1>2, <1>4, <2>2, ConnRecords
    <3> QED
      BY <1>3, <1>13, <3>1 DEF Rollback
  <2> QED
    BY <1>1, <1>13, <2>1, <2>3 DEF Types, Rollback
<1> QED
  BY <1>8, <1>9, <1>10, <1>11, <1>12, <1>13

LEMMA CkptTypes ==
    ASSUME Types, NEW c \in Connection,
           \/ CkptBegin(c) \/ CkptCompare(c) \/ CkptMark(c) \/ CkptLockDb(c)
           \/ CkptCopy(c) \/ CkptCopied(c) \/ CkptFails(c) \/ CkptTruncate(c)
           \/ CkptRelease(c)
    PROVE  Types'
<1>1. /\ conn \in [Connection -> Conn] /\ conn[c] \in Conn /\ conn[c].hdr \in WalIndexHdr
      /\ hdr \in WalIndexHdr /\ info \in Info /\ locks \in Locks /\ file \in Files
      /\ ckpt \in Ckpt /\ salts \in 0 .. MaxSalt /\ txn \in 0 .. MaxTxn
      /\ crashes \in 0 .. MaxCrash /\ states \in States
  BY ConnIs DEF Types
<1>2. \A x \in Conn : [conn EXCEPT ![c] = x] \in [Connection -> Conn]
  BY <1>1
<1>3. \A q \in {"none", "compare", "marks", "copy", "end", "done"} : [ckpt EXCEPT !.step = q] \in Ckpt
  BY <1>1 DEF Ckpt
<1>4. /\ file.wal \in [Frames -> Frame] /\ \A i \in Frames : file.wal[i] \in Frame
      /\ file.db \in [Page -> 0 .. Torn] /\ \A p \in Page : file.db[p] \in 0 .. Torn
  BY <1>1 DEF Files
<1>5. SyncWal(file) \in Files /\ SyncDb(file) \in Files
  <2>1. [i \in Frames |-> {file.wal[i]}] \in [Frames -> SUBSET Frame] /\ {file.aSalt} \in SUBSET (0 .. MaxSalt)
    BY <1>1, <1>4 DEF Files
  <2>2. [p \in Page |-> {file.db[p]}] \in [Page -> SUBSET (0 .. Torn)]
    BY <1>4
  <2> QED
    BY <1>1, <2>1, <2>2 DEF SyncWal, SyncDb, Files
<1>6. CASE CkptBegin(c)
  <2>1. ckpt' \in Ckpt
    <3>1. hdr.mxFrame \in 0 .. MaxFrame
      BY <1>1 DEF WalIndexHdr
    <3> QED
      BY <1>6, <3>1, Starts DEF CkptBegin, Ckpt
  <2>2. conn' = [conn EXCEPT ![c] = [@ EXCEPT !.pc = "ckpt", !.hdr = hdr]] /\ "ckpt" \in PCs
    BY <1>6 DEF CkptBegin, PCs
  <2>3. conn' \in [Connection -> Conn]
    BY <1>1, <1>2, <2>2, ConnRecords
  <2>4. locks' \in Locks
    BY <1>1, <1>6 DEF CkptBegin, Locks
  <2> QED
    BY <1>1, <1>6, <2>1, <2>3, <2>4 DEF Types, CkptBegin
<1>7. CASE CkptCompare(c)
  BY <1>1, <1>3, <1>7 DEF Types, CkptCompare
<1>8. CASE CkptMark(c)
  <2> DEFINE i == ckpt.slot
             y == info.aReadMark[i]
  <2>1. i \in Slot /\ i + 1 \in 1 .. NSlot + 1
    BY <1>1, <1>8, Constants DEF CkptMark, Ckpt, Slot
  <2>2. y \in Nat /\ ckpt.mxSafeFrame \in 0 .. MaxFrame
    BY <1>1, <2>1, Constants DEF Info, READMARK_NOT_USED, Ckpt
  <2> HIDE DEF i
  <2>3. [ckpt EXCEPT !.slot = i + 1] \in Ckpt
    BY <1>1, <2>1 DEF Ckpt
  <2>4. ckpt.mxSafeFrame > y => [ckpt EXCEPT !.slot = i + 1, !.mxSafeFrame = y] \in Ckpt
    <3>1. ckpt.mxSafeFrame > y => y \in 0 .. MaxFrame
      BY <2>2, Constants
    <3> HIDE DEF y
    <3> QED
      BY <1>1, <2>1, <3>1 DEF Ckpt
  <2>5. [info EXCEPT !.aReadMark[i] = IF i = 1 THEN ckpt.mxSafeFrame ELSE READMARK_NOT_USED] \in Info
    <3>1. (IF i = 1 THEN ckpt.mxSafeFrame ELSE READMARK_NOT_USED) \in 0 .. READMARK_NOT_USED
      BY <2>2, Constants DEF READMARK_NOT_USED
    <3> QED
      BY <1>1, <3>1 DEF Info
  <2>6. ckpt' \in Ckpt /\ info' \in Info
    <3>1. \/ ckpt' = [ckpt EXCEPT !.slot = i + 1] /\ info' = info
          \/ /\ info' = [info EXCEPT !.aReadMark[i] = IF i = 1 THEN ckpt.mxSafeFrame ELSE READMARK_NOT_USED]
             /\ ckpt' = [ckpt EXCEPT !.slot = i + 1]
          \/ ckpt.mxSafeFrame > y /\ ckpt' = [ckpt EXCEPT !.slot = i + 1, !.mxSafeFrame = y] /\ info' = info
      BY <1>8 DEF CkptMark, i
    <3> HIDE DEF y
    <3> QED
      BY <1>1, <2>3, <2>4, <2>5, <3>1
  <2> QED
    BY <1>1, <1>8, <2>6 DEF Types, CkptMark
<1>9. CASE CkptLockDb(c)
  <2>1. FramesToCopy(c) \subseteq Frames
    BY <1>1, Constants DEF FramesToCopy, Frames, Info, Ckpt
  <2>2. [ckpt EXCEPT !.step = "copy", !.todo = FramesToCopy(c)] \in Ckpt
    BY <1>1, <2>1 DEF Ckpt
  <2>3. Max({states.floor, hdr.txn}) \in 0 .. MaxTxn
    <3>1. {states.floor, hdr.txn} \in SUBSET (0 .. MaxTxn) /\ {states.floor, hdr.txn} # {}
      BY <1>1 DEF States, WalIndexHdr
    <3> QED
      BY <3>1, MaxIs, Constants
  <2>4. [states EXCEPT !.floor = Max({@, hdr.txn})] \in States
    BY <1>1, <2>3 DEF States
  <2>5. [locks EXCEPT !.db = TRUE] \in Locks
    BY <1>1 DEF Locks
  <2>6. /\ \/ locks' = [locks EXCEPT !.db = TRUE] /\ file' = SyncWal(file)
              /\ states' = [states EXCEPT !.floor = Max({@, hdr.txn})]
              /\ ckpt' = [ckpt EXCEPT !.step = "copy", !.todo = FramesToCopy(c)]
           \/ ckpt' = [ckpt EXCEPT !.step = "end"] /\ UNCHANGED <<locks, file, states>>
        /\ UNCHANGED <<hdr, info, conn, salts, txn, crashes>>
    BY <1>9 DEF CkptLockDb, SyncBeforeCopy
  <2> QED
    BY <1>1, <1>3, <1>5, <2>2, <2>4, <2>5, <2>6 DEF Types
<1>10. CASE CkptCopy(c)
  <2>1. PICK i \in ckpt.todo : /\ file' = WritePage(file, info.aPgno[i], file.wal[i].txn)
                               /\ ckpt' = [ckpt EXCEPT !.todo = @ \ {i}]
    BY <1>10 DEF CkptCopy
  <2>2. i \in Frames
    BY <1>1 DEF Ckpt
  <2>3. file.wal[i].txn \in 0 .. Torn /\ Torn \in 0 .. Torn
    BY <1>4, <2>2, Constants DEF Frame, Torn
  <2>4. file' \in Files
    BY <1>1, <2>1, <2>3 DEF WritePage, Files
  <2>5. ckpt' \in Ckpt
    BY <1>1, <2>1 DEF Ckpt
  <2> QED
    BY <1>1, <1>10, <2>4, <2>5 DEF Types, CkptCopy
<1>11. CASE CkptCopied(c)
  <2>1. file' \in Files
    BY <1>1, <1>5, <1>11 DEF CkptCopied, SyncCopied
  <2>2. info' \in Info
    BY <1>1, <1>11 DEF CkptCopied, Info, Ckpt
  <2>3. locks' \in Locks
    BY <1>1, <1>11 DEF CkptCopied, Locks
  <2> QED
    BY <1>1, <1>3, <1>11, <2>1, <2>2, <2>3 DEF Types, CkptCopied
<1>12. CASE CkptFails(c)
  <2>1. locks' \in Locks
    BY <1>1, <1>12 DEF CkptFails, Locks
  <2> QED
    BY <1>1, <1>3, <1>12, <2>1 DEF Types, CkptFails
<1>13. CASE CkptTruncate(c)
  <2>1. salts < MaxSalt /\ salts' = salts + 1 /\ hdr' = Restarted(conn[c].hdr) /\ info' = RestartedInfo
    BY <1>13 DEF CkptTruncate
  <2>2. salts' \in 0 .. MaxSalt /\ hdr' \in WalIndexHdr /\ info' \in Info
    BY <1>1, <2>1, RestartTypes
  <2>3. file' \in Files
    <3>1. 0 \in 0 .. MaxSalt
      BY Constants
    <3> QED
      BY <1>1, <1>13, <3>1 DEF CkptTruncate, WriteSalt, Files
  <2> QED
    BY <1>1, <1>3, <1>13, <2>2, <2>3 DEF Types, CkptTruncate
<1>14. CASE CkptRelease(c)
  <2>1. locks' \in Locks
    BY <1>1, <1>14 DEF CkptRelease, Locks
  <2> QED
    BY <1>1, <1>2, <1>14, <2>1, Starts DEF Types, CkptRelease
<1> QED
  BY <1>6, <1>7, <1>8, <1>9, <1>10, <1>11, <1>12, <1>13, <1>14

LEMMA FaultTypes ==
    ASSUME Types, PowerLoss \/ \E c \in Connection : walIndexRecover(c) \/ Crash(c)
    PROVE  Types'
<1>1. /\ conn \in [Connection -> Conn]
      /\ hdr \in WalIndexHdr /\ info \in Info /\ locks \in Locks /\ file \in Files
      /\ ckpt \in Ckpt /\ salts \in 0 .. MaxSalt /\ txn \in 0 .. MaxTxn
      /\ crashes \in 0 .. MaxCrash /\ states \in States
  BY DEF Types
<1>2. \A c \in Connection, x \in Conn : [conn EXCEPT ![c] = x] \in [Connection -> Conn]
  BY <1>1
<1>3. ASSUME NEW c \in Connection, walIndexRecover(c) PROVE Types'
  <2> DEFINE valid == {i \in Frames : walDecodeFrame(file, i)}
             commits == {0} \cup {i \in valid : file.wal[i].commit}
             mx == Max(commits)
             inDb == {t \in 1 .. MaxTxn : states.db[t] = file.db /\ states.db[t] # states.db[0]}
             txns == {0} \cup inDb
             last == IF mx > 0 THEN file.wal[mx].txn ELSE Max(txns)
  <2>1. commits \in SUBSET (0 .. MaxFrame) /\ commits # {}
    BY Constants DEF Frames
  <2>2. txns \in SUBSET (0 .. MaxTxn) /\ txns # {}
    BY Constants
  <2>3. mx \in 0 .. MaxFrame /\ Max(txns) \in 0 .. MaxTxn
    <3> HIDE DEF commits, txns
    <3> QED
      BY <2>1, <2>2, MaxIs, Constants
  <2>4. /\ hdr' = [isInit |-> TRUE, txn |-> last, mxFrame |-> mx, aSalt |-> file.aSalt]
        /\ info' = [NewInfo EXCEPT
                       !.aReadMark[1] = IF mx > 0 THEN mx ELSE READMARK_NOT_USED,
                       !.aPgno = [i \in Frames |-> IF i \in valid THEN file.wal[i].pgno ELSE 0]]
        /\ UNCHANGED <<locks, file, conn, ckpt, salts, txn, crashes, states>>
    BY <1>3 DEF walIndexRecover
  <2>5. \A i \in Frames : file.wal[i] \in Frame /\ file.wal[i].txn \in 0 .. MaxTxn /\ file.wal[i].pgno \in Page \cup {0}
    BY <1>1 DEF Files, Frame
  <2>6. mx > 0 => mx \in Frames
    BY <2>3, Constants DEF Frames
  <2> HIDE DEF mx, txns
  <2>7. last \in 0 .. MaxTxn
    BY <2>3, <2>5, <2>6, Constants
  <2> HIDE DEF last, valid
  <2>8. hdr' \in WalIndexHdr
    BY <1>1, <2>3, <2>4, <2>7 DEF WalIndexHdr, Files
  <2>9. info' \in Info
    <3>1. (IF mx > 0 THEN mx ELSE READMARK_NOT_USED) \in 0 .. READMARK_NOT_USED
      BY <2>3, Constants DEF READMARK_NOT_USED
    <3>2. [i \in Frames |-> IF i \in valid THEN file.wal[i].pgno ELSE 0] \in [Frames -> Page \cup {0}]
      BY <2>5
    <3> QED
      BY <2>4, <3>1, <3>2, Starts DEF Info
  <2> QED
    BY <1>1, <2>4, <2>8, <2>9 DEF Types
<1>4. ASSUME NEW c \in Connection, Crash(c) PROVE Types'
  <2>1. locks' \in Locks
    BY <1>1, <1>4 DEF Crash, Locks
  <2>2. crashes' \in 0 .. MaxCrash
    BY <1>1, <1>4, Constants DEF Crash
  <2>3. ckpt' \in Ckpt /\ conn' \in [Connection -> Conn]
    BY <1>1, <1>2, <1>4, Starts DEF Crash
  <2> QED
    BY <1>1, <1>4, <2>1, <2>2, <2>3 DEF Types, Crash
<1>5. CASE PowerLoss
  <2>1. PICK w \in [Frames -> UNION {file.walMay[i] : i \in Frames}],
             s \in file.saltMay, d \in [Page -> 0 .. Torn] :
           /\ \A i \in Frames : w[i] \in file.walMay[i]
           /\ file' = SyncDb(SyncWal([file EXCEPT !.wal = w, !.aSalt = s, !.db = d]))
    BY <1>5 DEF PowerLoss
  <2>2. w \in [Frames -> Frame] /\ s \in 0 .. MaxSalt /\ \A i \in Frames : w[i] \in Frame
    BY <1>1, <2>1 DEF Files
  <2>3. file' \in Files
    <3>1. [i \in Frames |-> {w[i]}] \in [Frames -> SUBSET Frame] /\ {s} \in SUBSET (0 .. MaxSalt)
      BY <2>2
    <3>2. [p \in Page |-> {d[p]}] \in [Page -> SUBSET (0 .. Torn)]
      OBVIOUS
    <3> QED
      BY <1>1, <2>1, <2>2, <3>1, <3>2 DEF SyncDb, SyncWal, Files
  <2>4. crashes' \in 0 .. MaxCrash
    <3>1. crashes < MaxCrash /\ crashes' = crashes + 1
      BY <1>5 DEF PowerLoss
    <3> QED
      BY <1>1, <3>1, Constants
  <2>5. conn' \in [Connection -> Conn]
    BY <1>5, Starts DEF PowerLoss
  <2> QED
    BY <1>1, <1>5, <2>3, <2>4, <2>5, Starts DEF Types, PowerLoss
<1> QED
  BY <1>3, <1>4, <1>5

-----------------------------------------------------------------------------
(* Steps of one connection that leave the header and the files alone.      *)

LEMMA Stands ==
    ASSUME Types, Types', FrameInv, NEW g, NEW b, NEW K, MediumInv(g, b, K), HdrInv(g, K),
           UNCHANGED <<hdr, file, states>>, txn <= txn', salts <= salts',
           info'.nBackfill = info.nBackfill,
           \A j \in 1 .. hdr.mxFrame : info'.aPgno[j] = info.aPgno[j], b \in Nat
    PROVE  FrameInv' /\ MediumInv(g, b, K)' /\ HdrInv(g, K)'
<1>1. txn \in Nat /\ txn' \in Nat /\ salts \in Nat /\ salts' \in Nat /\ txn' <= MaxTxn /\ MaxTxn \in Nat
  BY Numbers, Constants DEF Types
<1>2. /\ \A j \in Frames : \A x \in file.walMay[j] : x.txn \in Nat /\ x.aSalt \in Nat
      /\ hdr.txn \in Nat /\ hdr.aSalt \in Nat /\ \A s \in file.saltMay : s \in Nat
  BY FilesAre, Numbers
<1>3. FrameInv'
  <2>1. /\ \A j \in Frames : \A x \in file.walMay[j] : x.txn <= txn' /\ x.prev <= x.txn /\ x.aSalt <= salts'
    BY <1>1, <1>2 DEF FrameInv
  <2>2. \A t \in 0 .. MaxTxn : t = 0 \/ t > txn' => states.db[t] = [p \in Page |-> 0]
    BY <1>1 DEF FrameInv
  <2>3. \A s \in file.saltMay : s <= salts'
    BY <1>1, <1>2 DEF FrameInv
  <2> QED
    BY <2>1, <2>2, <2>3 DEF FrameInv
<1>4. MediumInv(g, b, K)'
  <2>1. b <= txn'
    BY <1>1 DEF MediumInv
  <2>2. 0 \in file.saltMay =>
          \E t \in 0 .. MaxTxn :
              t >= states.floor /\ t <= txn' /\ Whole(file, states.db, t) /\ Real(states.db, t)
    BY <1>1 DEF MediumInv
  <2> QED
    BY <2>1, <2>2 DEF MediumInv
<1>5. HdrInv(g, K)'
  <2>1. hdr.isInit => hdr.txn <= txn' /\ hdr.aSalt <= salts'
    BY <1>1, <1>2 DEF HdrInv
  <2> QED
    BY <2>1 DEF HdrInv
<1> QED
  BY <1>3, <1>4, <1>5

LEMMA Quiet ==
    ASSUME IInv, Types', NEW c \in Connection, hdr.isInit,
           NEW g \in 0 .. MaxSalt, NEW b \in 0 .. MaxTxn, NEW K \in 0 .. MaxFrame,
           LogInv(g, b, K),
           UNCHANGED <<hdr, file, states>>, txn <= txn', salts' = salts,
           info'.nBackfill = info.nBackfill,
           \A j \in 1 .. hdr.mxFrame : info'.aPgno[j] = info.aPgno[j],
           locks.write \notin {c, NoConn} => txn' = txn /\ info'.aPgno = info.aPgno,
           locks.ckpt \notin {c, NoConn} => ckpt' = ckpt /\ locks'.db = locks.db,
           locks'.db => locks.db,
           \A d \in Connection \ {c} :
              /\ conn'[d] = conn[d]
              /\ locks'.write = d <=> locks.write = d
              /\ locks'.ckpt = d <=> locks.ckpt = d
              /\ conn[d].readLock > 0 =>
                    info'.aReadMark[conn[d].readLock] = info.aReadMark[conn[d].readLock],
           PlaceInv(c)', ReaderInv(c)', WriterInv(c, g, b, K)', CkptInv(c, K)', NobodyCopies',
           Checked(c)' /\ conn'[c].readLock > 0 =>
              \/ hdr.mxFrame <= SnapFrame(c)'
              \/ Checked(c) /\ conn'[c].readLock = conn[c].readLock /\ SnapFrame(c)' = SnapFrame(c)
    PROVE  IInv'
<1>1. /\ Types /\ FrameInv /\ MediumInv(g, b, K) /\ HdrInv(g, K)
      /\ \A d \in Connection : PlaceInv(d) /\ ReaderInv(d) /\ WriterInv(d, g, b, K) /\ CkptInv(d, K)
  BY DEF IInv, LogInv
<1>2. FrameInv' /\ MediumInv(g, b, K)' /\ HdrInv(g, K)'
  <2>1. b \in Nat /\ salts \in Nat
    BY <1>1, Numbers
  <2>2. salts <= salts'
    BY <2>1
  <2> QED
    BY <1>1, <2>1, <2>2, Stands
<1>3. DownInv'
  BY DEF DownInv
<1>4. \A d \in Connection : d # NoConn
  BY Constants
<1>5. ASSUME NEW d \in Connection \ {c}
      PROVE  PlaceInv(d)' /\ ReaderInv(d)' /\ WriterInv(d, g, b, K)' /\ CkptInv(d, K)'
  <2>1. /\ conn'[d] = conn[d] /\ d # NoConn /\ d # c
        /\ locks'.write = d <=> locks.write = d
        /\ locks'.ckpt = d <=> locks.ckpt = d
        /\ conn[d].readLock > 0 =>
              info'.aReadMark[conn[d].readLock] = info.aReadMark[conn[d].readLock]
        /\ PlaceInv(d) /\ ReaderInv(d) /\ WriterInv(d, g, b, K) /\ CkptInv(d, K)
    BY <1>1, <1>4
  <2>2. SnapFrame(d)' = SnapFrame(d) /\ (Checked(d)' <=> Checked(d))
    BY <2>1 DEF SnapFrame, Checked
  <2>3. PlaceInv(d)'
    BY <2>1 DEF PlaceInv
  <2>4. ReaderInv(d)'
    BY <2>1, <2>2 DEF ReaderInv
  <2>5. /\ locks.write = d => txn' = txn /\ info'.aPgno = info.aPgno
        /\ conn[d].pc \in {"frames", "sealed"} => locks.write = d
        /\ conn[d].pc = "ckpt" => ckpt' = ckpt
    BY <2>1 DEF PlaceInv
  <2>6. WriterInv(d, g, b, K)'
    BY <2>1, <2>5 DEF WriterInv
  <2>7. CkptInv(d, K)'
    <3> SUFFICES ASSUME locks'.ckpt = d PROVE CkptInv(d, K)'
      BY DEF CkptInv
    <3>1. locks.ckpt = d /\ ckpt' = ckpt /\ locks'.db = locks.db
      BY <2>1
    <3>2. ASSUME NEW e \in Connection, ckpt.step \in {"marks", "copy"}, Checked(e)',
                 conn'[e].readLock > 0, conn'[e].readLock < ckpt.slot
          PROVE  ckpt.mxSafeFrame <= SnapFrame(e)'
      <4>1. \A f \in Connection :
               Checked(f) /\ conn[f].readLock > 0 /\ conn[f].readLock < ckpt.slot =>
                  ckpt.mxSafeFrame <= SnapFrame(f)
        BY <2>1, <3>1, <3>2 DEF CkptInv
      <4>2. CASE e # c
        <5>1. conn'[e] = conn[e]
          BY <4>2
        <5>2. SnapFrame(e)' = SnapFrame(e) /\ (Checked(e)' <=> Checked(e))
          BY <5>1 DEF SnapFrame, Checked
        <5> QED
          BY <3>2, <4>1, <5>1, <5>2
      <4>3. CASE e = c
        <5>1. CASE hdr.mxFrame <= SnapFrame(c)'
          <6>1. ckpt.mxSafeFrame <= conn[d].hdr.mxFrame /\ conn[d].hdr.mxFrame <= hdr.mxFrame
            BY <2>1, <3>1, <3>2 DEF CkptInv
          <6>2. /\ ckpt.mxSafeFrame \in Nat /\ conn[d].hdr.mxFrame \in Nat /\ hdr.mxFrame \in Nat
                /\ hdr'.mxFrame \in Nat /\ conn'[c].hdr.mxFrame \in Nat
            <7>1. conn'[c] \in Conn
              BY DEF Types
            <7>2. conn'[c].hdr.mxFrame \in Nat
              BY <7>1, Constants DEF Conn, WalIndexHdr
            <7> QED
              BY <1>1, <7>2, Numbers, ConnIs
          <6>3. SnapFrame(c)' \in Nat
            BY <6>2 DEF SnapFrame
          <6> QED
            BY <4>3, <5>1, <6>1, <6>2, <6>3
        <5>2. CASE Checked(c) /\ conn'[c].readLock = conn[c].readLock /\ SnapFrame(c)' = SnapFrame(c)
          BY <3>2, <4>1, <4>3, <5>2
        <5> QED
          BY <3>2, <4>3, <5>1, <5>2
      <4> QED
        BY <4>2, <4>3
    <3> QED
      BY <2>1, <3>1, <3>2 DEF CkptInv, IsLast
  <2> QED
    BY <2>3, <2>4, <2>6, <2>7
<1>6. LogInv(g, b, K)'
  BY <1>2, <1>5 DEF LogInv
<1> QED
  BY <1>2, <1>3, <1>5, <1>6 DEF IInv

LEMMA ReadHdrStep == ASSUME IInv, NEW c \in Connection, walIndexReadHdr(c), Types' PROVE IInv'
<1>1. PICK g \in 0 .. MaxSalt, b \in 0 .. MaxTxn, K \in 0 .. MaxFrame : LogInv(g, b, K)
  BY DEF IInv
<1>2. Types /\ NobodyCopies /\ HdrInv(g, K) /\ PlaceInv(c) /\ ReaderInv(c) /\ WriterInv(c, g, b, K) /\ CkptInv(c, K)
  BY <1>1 DEF IInv, LogInv
<1>3. /\ conn[c].pc = "idle" /\ hdr.isInit
      /\ UNCHANGED <<hdr, info, locks, file, ckpt, salts, txn, crashes, states>>
      /\ conn'[c].pc = "hdr" /\ conn'[c].hdr = hdr
      /\ conn'[c].readLock = conn[c].readLock /\ conn'[c].minFrame = conn[c].minFrame
      /\ \A d \in Connection \ {c} : conn'[d] = conn[d]
  BY <1>2 DEF walIndexReadHdr, Types, Conn
<1>4. PlaceInv(c)'
  BY <1>2, <1>3, Numbers DEF PlaceInv, HdrInv
<1>5. ReaderInv(c)' /\ ~Checked(c)'
  BY <1>2, <1>3 DEF PlaceInv, ReaderInv, Checked
<1>6. WriterInv(c, g, b, K)' /\ CkptInv(c, K)'
  BY <1>2, <1>3 DEF PlaceInv, WriterInv, CkptInv
<1>7. NobodyCopies'
  BY <1>2, <1>3 DEF NobodyCopies
<1> QED
  BY <1>1, <1>2, <1>3, <1>4, <1>5, <1>6, <1>7, Quiet, Numbers

LEMMA TryLock0Step == ASSUME IInv, NEW c \in Connection, TryLock0(c), Types' PROVE IInv'
<1>1. PICK g \in 0 .. MaxSalt, b \in 0 .. MaxTxn, K \in 0 .. MaxFrame : LogInv(g, b, K)
  BY DEF IInv
<1>2. Types /\ NobodyCopies /\ HdrInv(g, K) /\ PlaceInv(c) /\ ReaderInv(c) /\ WriterInv(c, g, b, K) /\ CkptInv(c, K)
  BY <1>1 DEF IInv, LogInv
<1>3. /\ conn[c].pc = "hdr" /\ IgnoresWal(c)
      /\ UNCHANGED <<hdr, info, locks, file, ckpt, salts, txn, crashes, states>>
      /\ conn'[c].pc = "lock0" /\ conn'[c].hdr = conn[c].hdr /\ conn'[c].readLock = 0
      /\ \A d \in Connection \ {c} : conn'[d] = conn[d]
  BY <1>2 DEF TryLock0, Types, Conn
<1>4. PlaceInv(c)' /\ hdr.isInit
  BY <1>2, <1>3 DEF PlaceInv, IgnoresWal
<1>5. ReaderInv(c)' /\ ~Checked(c)'
  BY <1>2, <1>3 DEF PlaceInv, ReaderInv, Checked, IgnoresWal
<1>6. WriterInv(c, g, b, K)' /\ CkptInv(c, K)'
  BY <1>2, <1>3 DEF PlaceInv, WriterInv, CkptInv, IgnoresWal
<1>7. NobodyCopies'
  BY <1>2, <1>3 DEF NobodyCopies
<1> QED
  BY <1>1, <1>2, <1>3, <1>4, <1>5, <1>6, <1>7, Quiet, Numbers

\* The record of a connection whose walTryBeginRead returned WAL_RETRY.
LEMMA RetryIs ==
    ASSUME Types, NEW c \in Connection
    PROVE  /\ Retry(c).readLock = -1
           /\ locks.write = c => Retry(c).pc = "hdr" /\ Retry(c).hdr = conn[c].hdr
           /\ locks.write # c => Retry(c) = Idle
           /\ Idle.pc = "idle" /\ Idle.readLock = -1 /\ Idle.hdr.aSalt = 0
BY DEF Retry, Idle, NoHdr

\* Such a connection, or one that has ended its transaction, has no lock.
LEMMA RetryStep ==
    ASSUME IInv, NEW c \in Connection, Types', conn' = [conn EXCEPT ![c] = Retry(c)],
           UNCHANGED <<hdr, info, locks, file, ckpt, salts, txn, crashes, states>>,
           conn[c].pc \in {"hdr", "lock0", "check", "read", "write"}
    PROVE  IInv'
<1>1. PICK g \in 0 .. MaxSalt, b \in 0 .. MaxTxn, K \in 0 .. MaxFrame : LogInv(g, b, K)
  BY DEF IInv
<1>2. Types /\ NobodyCopies /\ HdrInv(g, K) /\ PlaceInv(c) /\ ReaderInv(c) /\ WriterInv(c, g, b, K) /\ CkptInv(c, K)
  BY <1>1 DEF IInv, LogInv
<1>3. /\ conn'[c] = Retry(c) /\ \A d \in Connection \ {c} : conn'[d] = conn[d]
  BY <1>2 DEF Types
<1>4. /\ conn'[c].readLock = -1
      /\ locks.write = c => conn'[c].pc = "hdr" /\ conn'[c].hdr = conn[c].hdr
      /\ locks.write # c => conn'[c].pc = "idle" /\ conn'[c].hdr.aSalt = 0
  BY <1>2, <1>3, RetryIs
<1>5. PlaceInv(c)' /\ hdr.isInit
  BY <1>2, <1>4, Numbers DEF PlaceInv
<1>6. ReaderInv(c)' /\ ~Checked(c)'
  BY <1>2, <1>4 DEF PlaceInv, ReaderInv, Checked
<1>7. WriterInv(c, g, b, K)'
  BY <1>2, <1>4 DEF PlaceInv, WriterInv
<1>8. CkptInv(c, K)' /\ NobodyCopies'
  BY <1>2, <1>4 DEF PlaceInv, CkptInv, NobodyCopies
<1> QED
  BY <1>1, <1>2, <1>3, <1>5, <1>6, <1>7, <1>8, Quiet, Numbers

LEMMA EndReadStep ==
    ASSUME IInv, NEW c \in Connection, sqlite3WalEndReadTransaction(c), Types' PROVE IInv'
<1>1. Types /\ PlaceInv(c)
  BY DEF IInv
<1>2. conn[c].pc = "read" /\ locks.write # c
  BY <1>1 DEF sqlite3WalEndReadTransaction, PlaceInv
<1>3. Retry(c) = Idle
  BY <1>1, <1>2, RetryIs
<1> QED
  BY <1>2, <1>3, RetryStep DEF sqlite3WalEndReadTransaction

LEMMA CheckLock0Step == ASSUME IInv, NEW c \in Connection, CheckLock0(c), Types' PROVE IInv'
<1>1. PICK g \in 0 .. MaxSalt, b \in 0 .. MaxTxn, K \in 0 .. MaxFrame : LogInv(g, b, K)
  BY DEF IInv
<1>2. /\ Types /\ FrameInv /\ NobodyCopies /\ HdrInv(g, K) /\ PlaceInv(c) /\ ReaderInv(c)
      /\ WriterInv(c, g, b, K) /\ CkptInv(c, K)
  BY <1>1 DEF IInv, LogInv
<1>3. /\ conn[c].pc = "lock0"
      /\ UNCHANGED <<hdr, info, locks, file, ckpt, salts, txn, crashes, states>>
  BY DEF CheckLock0
<1>4. CASE hdr # conn[c].hdr
  BY <1>3, <1>4, RetryStep DEF CheckLock0
<1>5. CASE hdr = conn[c].hdr
  <2>1. /\ conn'[c].pc = "read" /\ conn'[c].hdr = conn[c].hdr /\ conn'[c].readLock = conn[c].readLock
        /\ \A d \in Connection \ {c} : conn'[d] = conn[d]
    BY <1>2, <1>5 DEF CheckLock0, Types, Conn
  <2>2. PlaceInv(c)' /\ hdr.isInit /\ conn[c].readLock = 0 /\ locks.write # c
    BY <1>2, <1>3, <2>1 DEF PlaceInv
  <2>3. \A p \in Page : file.db[p] = states.db[hdr.txn][p]
    <3>1. info.nBackfill = hdr.mxFrame
      BY <1>2, <1>5, <2>2 DEF ReaderInv
    <3>2. \A p \in Page : file.dbMay[p] = {states.db[hdr.txn][p]}
      BY <1>2, <2>2, <3>1 DEF HdrInv, Whole
    <3> QED
      BY <1>2, <3>2 DEF FrameInv
  <2>4. ReaderInv(c)'
    BY <1>2, <1>3, <1>5, <2>1, <2>2, <2>3 DEF ReaderInv
  <2>5. WriterInv(c, g, b, K)' /\ CkptInv(c, K)' /\ NobodyCopies'
    BY <1>2, <1>3, <2>1, <2>2 DEF PlaceInv, WriterInv, CkptInv, NobodyCopies
  <2> QED
    BY <1>1, <1>2, <1>3, <2>1, <2>2, <2>4, <2>5, Quiet, Numbers
<1> QED
  BY <1>4, <1>5

LEMMA ChooseMarkStep == ASSUME IInv, NEW c \in Connection, ChooseMark(c), Types' PROVE IInv'
<1>1. PICK g \in 0 .. MaxSalt, b \in 0 .. MaxTxn, K \in 0 .. MaxFrame : LogInv(g, b, K)
  BY DEF IInv
<1>2. /\ Types /\ NobodyCopies /\ HdrInv(g, K) /\ PlaceInv(c) /\ ReaderInv(c)
      /\ WriterInv(c, g, b, K) /\ CkptInv(c, K)
  BY <1>1 DEF IInv, LogInv
<1>3. /\ conn[c].pc = "hdr"
      /\ UNCHANGED <<hdr, locks, file, ckpt, salts, txn, crashes, states>>
  BY DEF ChooseMark
<1> DEFINE mx == conn[c].hdr.mxFrame
           upTo == {i \in Slot : info.aReadMark[i] <= mx}
           best == {i \in upTo : \A j \in upTo : info.aReadMark[j] <= info.aReadMark[i]}
           free == {i \in Slot : Unlocked({i})}
<1>4. mx \in Nat
  BY <1>2, ConnIs
<1>5. best # {} => Max(best) \in best
  <2>1. best \in SUBSET (0 .. NSlot)
    BY DEF Slot
  <2> HIDE DEF best
  <2> QED
    BY <2>1, MaxIs, Constants
<1>6. best # {} => Max(best) \in Slot /\ info.aReadMark[Max(best)] <= mx
  BY <1>5
<1>7. free # {} => Min(free) \in free
  <2>1. free \in SUBSET Nat
    BY DEF Slot
  <2> HIDE DEF free
  <2> QED
    BY <2>1, MinIs
<1>8. \/ conn' = [conn EXCEPT ![c] = Retry(c)] /\ info' = info
      \/ \E i \in Slot, m \in Nat :
            /\ m <= mx
            /\ conn' = [conn EXCEPT ![c].pc = "lock", ![c].slot = i, ![c].mark = m]
            /\ \/ info' = info
               \/ info' = [info EXCEPT !.aReadMark[i] = mx] /\ Unlocked({i})
  <2>1. \/ /\ best # {} /\ info' = info
           /\ conn' = [conn EXCEPT ![c].pc = "lock", ![c].slot = Max(best), ![c].mark = mx]
        \/ /\ free # {} /\ info' = [info EXCEPT !.aReadMark[Min(free)] = mx]
           /\ conn' = [conn EXCEPT ![c].pc = "lock", ![c].slot = Min(free), ![c].mark = mx]
        \/ /\ best # {} /\ info' = info
           /\ conn' = [conn EXCEPT ![c].pc = "lock", ![c].slot = Max(best),
                                   ![c].mark = info.aReadMark[Max(best)]]
        \/ conn' = [conn EXCEPT ![c] = Retry(c)] /\ info' = info
    BY DEF ChooseMark
  <2>2. mx <= mx /\ \A i \in Slot : info.aReadMark[i] \in Nat
    BY <1>2, <1>4, Constants DEF Types, Info, READMARK_NOT_USED
  <2>3. free # {} => Min(free) \in Slot /\ Unlocked({Min(free)})
    BY <1>7
  <2> HIDE DEF best, free, mx
  <2> QED
    BY <1>4, <1>6, <2>1, <2>2, <2>3
<1>9. CASE conn' = [conn EXCEPT ![c] = Retry(c)] /\ info' = info
  BY <1>3, <1>9, RetryStep
<1>10. ASSUME NEW i \in Slot, NEW m \in Nat, m <= mx,
              conn' = [conn EXCEPT ![c].pc = "lock", ![c].slot = i, ![c].mark = m],
              \/ info' = info
              \/ info' = [info EXCEPT !.aReadMark[i] = mx] /\ Unlocked({i})
       PROVE  IInv'
  <2>1. /\ conn'[c].pc = "lock" /\ conn'[c].hdr = conn[c].hdr /\ conn'[c].readLock = conn[c].readLock
        /\ conn'[c].slot = i /\ conn'[c].mark = m
        /\ \A d \in Connection \ {c} : conn'[d] = conn[d]
    BY <1>2, <1>10 DEF Types, Conn
  <2>2. PlaceInv(c)' /\ hdr.isInit /\ conn[c].readLock = -1
    BY <1>2, <1>3, <1>10, <2>1 DEF PlaceInv
  <2>3. ReaderInv(c)' /\ ~Checked(c)'
    BY <2>1, <2>2 DEF ReaderInv, Checked
  <2>4. WriterInv(c, g, b, K)' /\ CkptInv(c, K)' /\ NobodyCopies'
    BY <1>2, <1>3, <2>1 DEF PlaceInv, WriterInv, CkptInv, NobodyCopies
  <2>5. /\ info'.nBackfill = info.nBackfill /\ info'.aPgno = info.aPgno
        /\ \A d \in Connection : conn[d].readLock > 0 =>
              info'.aReadMark[conn[d].readLock] = info.aReadMark[conn[d].readLock]
    <3>1. info.aReadMark \in [Slot -> 0 .. READMARK_NOT_USED] /\ info \in Info
      BY <1>2 DEF Types, Info
    <3>2. CASE info' = info
      BY <3>2
    <3>3. CASE info' = [info EXCEPT !.aReadMark[i] = mx] /\ Unlocked({i})
      <4>1. \A d \in Connection : conn[d].readLock # i
        BY <3>3 DEF Unlocked
      <4>2. /\ info'.nBackfill = info.nBackfill /\ info'.aPgno = info.aPgno
            /\ info'.aReadMark = [info.aReadMark EXCEPT ![i] = mx]
        BY <3>1, <3>3 DEF Info
      <4>3. \A j : j # i => [info.aReadMark EXCEPT ![i] = mx][j] = info.aReadMark[j]
        BY <3>1
      <4> QED
        BY <4>1, <4>2, <4>3
    <3> QED
      BY <1>10, <3>2, <3>3
  <2> QED
    BY <1>1, <1>2, <1>3, <2>1, <2>2, <2>3, <2>4, <2>5, Quiet, Numbers
<1> HIDE DEF mx
<1> QED
  BY <1>8, <1>9, <1>10

LEMMA LockMarkStep == ASSUME IInv, NEW c \in Connection, LockMark(c), Types' PROVE IInv'
<1>1. PICK g \in 0 .. MaxSalt, b \in 0 .. MaxTxn, K \in 0 .. MaxFrame : LogInv(g, b, K)
  BY DEF IInv
<1>2. Types /\ NobodyCopies /\ HdrInv(g, K) /\ PlaceInv(c) /\ ReaderInv(c) /\ WriterInv(c, g, b, K) /\ CkptInv(c, K)
  BY <1>1 DEF IInv, LogInv
<1>3. /\ conn[c].pc = "lock"
      /\ UNCHANGED <<hdr, info, locks, file, ckpt, salts, txn, crashes, states>>
      /\ conn'[c].pc = "check" /\ conn'[c].hdr = conn[c].hdr /\ conn'[c].readLock = conn[c].slot
      /\ conn'[c].slot = conn[c].slot /\ conn'[c].mark = conn[c].mark
      /\ conn'[c].minFrame = info.nBackfill + 1
      /\ \A d \in Connection \ {c} : conn'[d] = conn[d]
  BY <1>2 DEF LockMark, Types, Conn
<1>4. PlaceInv(c)' /\ hdr.isInit /\ conn[c].slot \in Slot
  BY <1>2, <1>3 DEF PlaceInv
<1>5. ReaderInv(c)' /\ ~Checked(c)'
  <2>1. conn[c].slot # 0 /\ info.nBackfill + 1 <= info.nBackfill + 1
    BY <1>2, <1>4, Numbers DEF Slot
  <2> QED
    BY <1>3, <2>1 DEF ReaderInv, Checked
<1>6. WriterInv(c, g, b, K)' /\ CkptInv(c, K)' /\ NobodyCopies'
  BY <1>2, <1>3 DEF PlaceInv, WriterInv, CkptInv, NobodyCopies
<1> QED
  BY <1>1, <1>2, <1>3, <1>4, <1>5, <1>6, Quiet, Numbers

\* What a mark that stands gives its reader.
LEMMA SnapshotIs ==
    ASSUME Types, FrameInv, NEW g, NEW b, NEW K, MediumInv(g, b, K), HdrInv(g, K), hdr.isInit,
           NEW lo \in Nat, lo > 0, lo <= info.nBackfill + 1, NEW p \in Page
    PROVE  /\ NoneOf(file.wal, p, lo, hdr.mxFrame) => file.db[p] = states.db[hdr.txn][p]
           /\ \A k \in Frames : LastIs(file.wal, p, lo, hdr.mxFrame, k) =>
                 file.wal[k].txn = states.db[hdr.txn][p]
<1>1. info.nBackfill \in Nat /\ hdr.mxFrame \in Nat
  BY Numbers
<1>2. ASSUME NoneOf(file.wal, p, lo, hdr.mxFrame) PROVE file.db[p] = states.db[hdr.txn][p]
  <2>1. NoneOf(file.wal, p, info.nBackfill + 1, hdr.mxFrame)
    BY <1>1, <1>2 DEF NoneOf
  <2> QED
    BY <2>1 DEF HdrInv
<1>3. ASSUME NEW k \in Frames, LastIs(file.wal, p, lo, hdr.mxFrame, k)
      PROVE  file.wal[k].txn = states.db[hdr.txn][p]
  <2>1. LastIs(file.wal, p, 1, hdr.mxFrame, k) /\ k \in 1 .. hdr.mxFrame /\ hdr.mxFrame > 0
    BY <1>1, <1>3 DEF LastIs
  <2>2. Seals(states.db, file.wal, hdr.mxFrame, b, hdr.txn)
    BY <2>1, CommittedLog
  <2> QED
    BY <2>1, <2>2 DEF Seals
<1> QED
  BY <1>2, <1>3

LEMMA CheckMarkStep == ASSUME IInv, NEW c \in Connection, CheckMark(c), Types' PROVE IInv'
<1>1. PICK g \in 0 .. MaxSalt, b \in 0 .. MaxTxn, K \in 0 .. MaxFrame : LogInv(g, b, K)
  BY DEF IInv
<1>2. /\ Types /\ FrameInv /\ NobodyCopies /\ MediumInv(g, b, K) /\ HdrInv(g, K)
      /\ PlaceInv(c) /\ ReaderInv(c) /\ WriterInv(c, g, b, K) /\ CkptInv(c, K)
  BY <1>1 DEF IInv, LogInv
<1>3. /\ conn[c].pc = "check"
      /\ UNCHANGED <<hdr, info, locks, file, ckpt, salts, txn, crashes, states>>
  BY DEF CheckMark
<1>4. CASE ~MarkStands(c)
  BY <1>3, <1>4, RetryStep DEF CheckMark
<1>5. CASE MarkStands(c)
  <2>1. /\ conn'[c].pc = (IF locks.write = c THEN "write" ELSE "read")
        /\ conn'[c].hdr = conn[c].hdr /\ conn'[c].readLock = conn[c].readLock
        /\ conn'[c].minFrame = conn[c].minFrame
        /\ \A d \in Connection \ {c} : conn'[d] = conn[d]
    <3> DEFINE q == IF locks.write = c THEN "write" ELSE "read"
    <3>1. conn' = [conn EXCEPT ![c] = [@ EXCEPT !.pc = q, !.slot = 0, !.mark = 0]]
      BY <1>5 DEF CheckMark
    <3> HIDE DEF q
    <3>2. /\ conn'[c].pc = q /\ conn'[c].hdr = conn[c].hdr /\ conn'[c].readLock = conn[c].readLock
          /\ conn'[c].minFrame = conn[c].minFrame /\ \A d \in Connection \ {c} : conn'[d] = conn[d]
      BY <1>2, <3>1 DEF Types, Conn
    <3> QED
      BY <3>2 DEF q
  <2>2. /\ hdr.isInit /\ conn[c].readLock = conn[c].slot /\ conn[c].slot \in Slot
        /\ conn[c].mark <= conn[c].hdr.mxFrame
        /\ info.aReadMark[conn[c].slot] = conn[c].mark /\ conn[c].hdr = hdr
    BY <1>2, <1>3, <1>5 DEF PlaceInv, MarkStands
  <2>3. conn[c].readLock > 0 /\ conn[c].readLock >= 0
    BY <2>2, Constants DEF Slot
  <2>4. PlaceInv(c)'
    BY <1>2, <1>3, <2>1, <2>2, <2>3 DEF PlaceInv
  <2>5. Checked(c)' /\ SnapFrame(c)' = hdr.mxFrame
    BY <1>3, <2>1, <2>2 DEF Checked, SnapFrame
  <2>6. ReaderInv(c)'
    <3>1. conn[c].minFrame \in Nat /\ conn[c].minFrame > 0 /\ conn[c].minFrame <= info.nBackfill + 1
      BY <1>2, <2>3, ConnIs DEF ReaderInv
    <3>2. \A p \in Page :
             /\ NoneOf(file.wal, p, conn[c].minFrame, hdr.mxFrame) => file.db[p] = states.db[hdr.txn][p]
             /\ \A k \in Frames : LastIs(file.wal, p, conn[c].minFrame, hdr.mxFrame, k) =>
                   file.wal[k].txn = states.db[hdr.txn][p]
      BY <1>2, <2>2, <3>1, SnapshotIs
    <3>3. hdr.mxFrame <= hdr.mxFrame /\ conn[c].readLock # 0
      BY <1>2, <2>3, Numbers
    <3> QED
      BY <1>3, <2>1, <2>2, <2>3, <2>5, <3>1, <3>2, <3>3 DEF ReaderInv
  <2>7. WriterInv(c, g, b, K)' /\ CkptInv(c, K)' /\ NobodyCopies'
    BY <1>2, <1>3, <2>1, <2>2 DEF PlaceInv, WriterInv, CkptInv, NobodyCopies
  <2>8. hdr.mxFrame <= SnapFrame(c)'
    BY <1>2, <2>5, Numbers
  <2> QED
    BY <1>1, <1>2, <1>3, <2>1, <2>2, <2>4, <2>6, <2>7, <2>8, Quiet, Numbers
<1> QED
  BY <1>4, <1>5

LEMMA BeginWriteStep ==
    ASSUME IInv, NEW c \in Connection, sqlite3WalBeginWriteTransaction(c), Types' PROVE IInv'
<1>1. PICK g \in 0 .. MaxSalt, b \in 0 .. MaxTxn, K \in 0 .. MaxFrame : LogInv(g, b, K)
  BY DEF IInv
<1>2. /\ Types /\ FrameInv /\ NobodyCopies /\ HdrInv(g, K) /\ PlaceInv(c) /\ ReaderInv(c)
      /\ WriterInv(c, g, b, K) /\ CkptInv(c, K)
  BY <1>1 DEF IInv, LogInv
<1>3. /\ conn[c].pc = "read" /\ locks.write = NoConn /\ hdr = conn[c].hdr /\ txn' = txn + 1
      /\ UNCHANGED <<hdr, info, file, ckpt, salts, crashes, states>>
      /\ conn'[c].pc = "write" /\ conn'[c].hdr = conn[c].hdr /\ conn'[c].readLock = conn[c].readLock
      /\ conn'[c].minFrame = conn[c].minFrame
      /\ \A d \in Connection \ {c} : conn'[d] = conn[d]
      /\ locks'.write = c /\ locks'.ckpt = locks.ckpt /\ locks'.db = locks.db
  BY <1>2 DEF sqlite3WalBeginWriteTransaction, IsCurrent, Types, Conn, Locks
<1>4. PlaceInv(c)' /\ hdr.isInit
  BY <1>2, <1>3 DEF PlaceInv
<1>5. Checked(c) /\ Checked(c)' /\ SnapFrame(c)' = SnapFrame(c)
  BY <1>3 DEF Checked, SnapFrame
<1>6. ReaderInv(c)'
  BY <1>2, <1>3, <1>5 DEF ReaderInv
<1>7. hdr.txn < txn + 1 /\ txn <= txn + 1 /\ \A j \in Frames : \A x \in file.walMay[j] : x.txn # txn + 1
  <2>1. /\ hdr.txn \in Nat /\ txn \in Nat /\ hdr.txn <= txn
        /\ \A j \in Frames : \A x \in file.walMay[j] : x.txn \in Nat /\ x.txn <= txn
    BY <1>2, <1>4, Numbers, FilesAre DEF HdrInv, FrameInv
  <2> QED
    BY <2>1
<1>8. WriterInv(c, g, b, K)'
  BY <1>2, <1>3, <1>7 DEF WriterInv
<1>9. CkptInv(c, K)' /\ NobodyCopies'
  BY <1>2, <1>3 DEF PlaceInv, CkptInv, NobodyCopies
<1>10. \A d \in Connection \ {c} : d # NoConn
  BY Constants
<1> QED
  BY <1>1, <1>2, <1>3, <1>4, <1>5, <1>6, <1>7, <1>8, <1>9, <1>10, Quiet

LEMMA RollbackStep == ASSUME IInv, NEW c \in Connection, Rollback(c), Types' PROVE IInv'
<1>1. PICK g \in 0 .. MaxSalt, b \in 0 .. MaxTxn, K \in 0 .. MaxFrame : LogInv(g, b, K)
  BY DEF IInv
<1>2. /\ Types /\ NobodyCopies /\ HdrInv(g, K) /\ PlaceInv(c) /\ ReaderInv(c)
      /\ WriterInv(c, g, b, K) /\ CkptInv(c, K)
  BY <1>1 DEF IInv, LogInv
<1>3. /\ conn[c].pc \in {"write", "frames", "sealed"}
      /\ UNCHANGED <<hdr, file, ckpt, salts, txn, crashes, states>>
      /\ conn'[c].pc = "read" /\ conn'[c].hdr = hdr /\ conn'[c].readLock = conn[c].readLock
      /\ conn'[c].minFrame = conn[c].minFrame
      /\ \A d \in Connection \ {c} : conn'[d] = conn[d]
      /\ locks'.write = NoConn /\ locks'.ckpt = locks.ckpt /\ locks'.db = locks.db
  BY <1>2 DEF Rollback, Types, Conn, Locks
<1>4. /\ info'.nBackfill = info.nBackfill /\ info'.aReadMark = info.aReadMark
      /\ \A j \in 1 .. hdr.mxFrame : info'.aPgno[j] = info.aPgno[j]
  <2>1. /\ info'.nBackfill = info.nBackfill /\ info'.aReadMark = info.aReadMark
        /\ info'.aPgno = [i \in Frames |-> IF hdr.mxFrame < i /\ hdr.mxFrame > 0 THEN 0 ELSE info.aPgno[i]]
    BY <1>2 DEF Rollback, Types, Info
  <2>2. \A j \in 1 .. hdr.mxFrame : j \in Frames /\ ~(hdr.mxFrame < j)
    BY <1>2, Numbers DEF Frames
  <2> QED
    BY <2>1, <2>2
<1>5. hdr.isInit /\ locks.write = c /\ c # NoConn /\ conn[c].pc # "ckpt" /\ hdr.txn <= hdr.txn /\ hdr.aSalt <= salts
  BY <1>2, <1>3, Constants, Numbers DEF PlaceInv, HdrInv
<1>6. conn[c].readLock >= 0
  BY <1>2, <1>3, ConnIs DEF PlaceInv
<1>7. PlaceInv(c)'
  BY <1>2, <1>3, <1>5, <1>6 DEF PlaceInv
<1>8. Checked(c) /\ Checked(c)' /\ SnapFrame(c)' = hdr.mxFrame
  BY <1>3 DEF Checked, SnapFrame
<1>9. SnapFrame(c) = hdr.mxFrame /\ conn[c].hdr.txn = hdr.txn
  BY <1>2, <1>3, <1>5 DEF WriterInv, SnapFrame
<1>10. conn[c].readLock = 0 => conn[c].hdr = hdr
  BY <1>2, <1>3, <1>5 DEF WriterInv, PlaceInv
<1>11. ReaderInv(c)'
  BY <1>2, <1>3, <1>4, <1>8, <1>9, <1>10 DEF ReaderInv
<1>12. WriterInv(c, g, b, K)' /\ CkptInv(c, K)' /\ NobodyCopies'
  BY <1>2, <1>3, <1>5 DEF PlaceInv, WriterInv, CkptInv, NobodyCopies
<1>13. \A d \in Connection \ {c} : d # NoConn
  BY Constants
<1>14. txn <= txn' /\ salts' = salts
  BY <1>2, <1>3, Numbers
<1> QED
  BY <1>1, <1>2, <1>3, <1>4, <1>5, <1>7, <1>8, <1>9, <1>11, <1>12, <1>13, <1>14, Quiet

LEMMA CkptBeginStep == ASSUME IInv, NEW c \in Connection, CkptBegin(c), Types' PROVE IInv'
<1>1. PICK g \in 0 .. MaxSalt, b \in 0 .. MaxTxn, K \in 0 .. MaxFrame : LogInv(g, b, K)
  BY DEF IInv
<1>2. /\ Types /\ NobodyCopies /\ HdrInv(g, K) /\ PlaceInv(c) /\ ReaderInv(c)
      /\ WriterInv(c, g, b, K) /\ CkptInv(c, K)
  BY <1>1 DEF IInv, LogInv
<1>3. /\ conn[c].pc = "idle" /\ hdr.isInit /\ locks.ckpt = NoConn
      /\ UNCHANGED <<hdr, info, file, salts, txn, crashes, states>>
      /\ conn'[c].pc = "ckpt" /\ conn'[c].hdr = hdr /\ conn'[c].readLock = conn[c].readLock
      /\ \A d \in Connection \ {c} : conn'[d] = conn[d]
      /\ locks'.ckpt = c /\ locks'.db = locks.db
      /\ \/ locks'.write = locks.write
         \/ locks'.write = c /\ locks.write = NoConn
      /\ ckpt'.step = "compare" /\ ckpt'.mxSafeFrame = hdr.mxFrame /\ ckpt'.slot = 1
  BY <1>2 DEF CkptBegin, Types, Conn, Locks, NoCkpt
<1>4. /\ hdr.txn <= hdr.txn /\ hdr.aSalt <= salts /\ hdr.mxFrame <= hdr.mxFrame /\ c # NoConn
      /\ conn[c].readLock = -1 /\ locks.write # c
  BY <1>2, <1>3, Numbers, Constants DEF HdrInv, PlaceInv
<1>5. PlaceInv(c)'
  BY <1>2, <1>3, <1>4 DEF PlaceInv
<1>6. ReaderInv(c)' /\ ~Checked(c)'
  BY <1>3, <1>4 DEF ReaderInv, Checked
<1>7. WriterInv(c, g, b, K)'
  BY <1>3, <1>4 DEF WriterInv
<1>8. CkptInv(c, K)' /\ NobodyCopies'
  BY <1>2, <1>3, <1>4 DEF CkptInv, NobodyCopies
<1>9. \A d \in Connection \ {c} : d # NoConn
  BY Constants
<1>10. txn <= txn' /\ salts' = salts /\ info' = info
  BY <1>2, <1>3, Numbers
<1> QED
  BY <1>1, <1>3, <1>4, <1>5, <1>6, <1>7, <1>8, <1>9, <1>10, Quiet

\* The steps of a checkpoint that leave the files and the wal-index but its marks alone.
LEMMA CkptQuiet ==
    ASSUME IInv, NEW c \in Connection, Types', conn[c].pc = "ckpt", conn' = conn,
           NEW g \in 0 .. MaxSalt, NEW b \in 0 .. MaxTxn, NEW K \in 0 .. MaxFrame,
           LogInv(g, b, K),
           UNCHANGED <<hdr, file, states, salts, txn>>,
           locks'.write = locks.write, locks'.ckpt = locks.ckpt, locks'.db => locks.db,
           info'.nBackfill = info.nBackfill, info'.aPgno = info.aPgno,
           \A d \in Connection : conn[d].readLock > 0 =>
              info'.aReadMark[conn[d].readLock] = info.aReadMark[conn[d].readLock],
           ckpt.step # "done", CkptInv(c, K)'
    PROVE  IInv'
<1>1. /\ Types /\ NobodyCopies /\ PlaceInv(c) /\ ReaderInv(c) /\ WriterInv(c, g, b, K)
  BY DEF IInv, LogInv
<1>2. locks.ckpt = c /\ hdr.isInit /\ conn[c].readLock = -1 /\ c # NoConn
  BY <1>1, Constants DEF PlaceInv
<1>3. PlaceInv(c)' /\ ReaderInv(c)' /\ ~Checked(c)' /\ NobodyCopies'
  BY <1>1, <1>2 DEF PlaceInv, ReaderInv, Checked, NobodyCopies
<1>4. WriterInv(c, g, b, K)'
  BY <1>1 DEF WriterInv
<1>5. txn <= txn'
  BY <1>1, Numbers
<1> QED
  BY <1>2, <1>3, <1>4, <1>5, Quiet

LEMMA CkptCompareStep == ASSUME IInv, NEW c \in Connection, CkptCompare(c), Types' PROVE IInv'
<1>1. PICK g \in 0 .. MaxSalt, b \in 0 .. MaxTxn, K \in 0 .. MaxFrame : LogInv(g, b, K)
  BY DEF IInv
<1>2. Types /\ PlaceInv(c) /\ CkptInv(c, K) /\ \A e \in Connection : PlaceInv(e)
  BY <1>1 DEF IInv, LogInv
<1>3. /\ conn[c].pc = "ckpt" /\ ckpt.step = "compare"
      /\ UNCHANGED <<hdr, info, locks, file, conn, salts, txn, crashes, states>>
      /\ ckpt'.step = (IF info.nBackfill < conn[c].hdr.mxFrame THEN "marks" ELSE "end")
      /\ ckpt'.mxSafeFrame = ckpt.mxSafeFrame /\ ckpt'.slot = ckpt.slot
  BY <1>2 DEF CkptCompare, Checkpointer, Types, Ckpt
<1>4. ckpt.slot = 1 /\ locks.ckpt = c
  BY <1>2, <1>3 DEF CkptInv, PlaceInv
<1>5. \A e \in Connection : ~(conn[e].readLock > 0 /\ conn[e].readLock < 1)
  BY <1>2, ConnIs
<1>6. CkptInv(c, K)'
  BY <1>2, <1>3, <1>4, <1>5 DEF CkptInv
<1> QED
  BY <1>1, <1>3, <1>6, CkptQuiet

LEMMA CkptMarkStep == ASSUME IInv, NEW c \in Connection, CkptMark(c), Types' PROVE IInv'
<1>1. PICK g \in 0 .. MaxSalt, b \in 0 .. MaxTxn, K \in 0 .. MaxFrame : LogInv(g, b, K)
  BY DEF IInv
<1>2. Types /\ PlaceInv(c) /\ CkptInv(c, K) /\ \A e \in Connection : ReaderInv(e)
  BY <1>1 DEF IInv, LogInv
<1> DEFINE i == ckpt.slot
           y == info.aReadMark[i]
<1>3. /\ conn[c].pc = "ckpt" /\ ckpt.step = "marks" /\ i \in Slot
      /\ UNCHANGED <<hdr, locks, file, conn, salts, txn, crashes, states>>
  BY <1>2, Numbers DEF CkptMark, Checkpointer, Slot
<1>4. /\ y \in Nat /\ i \in Nat /\ ckpt.mxSafeFrame \in Nat /\ conn[c].hdr.mxFrame \in Nat
      /\ hdr.mxFrame \in Nat
  <2>1. i \in Nat
    BY <1>3 DEF Slot
  <2>2. info.aReadMark \in [Slot -> 0 .. READMARK_NOT_USED]
    BY <1>2 DEF Types, Info
  <2>3. y \in 0 .. READMARK_NOT_USED
    BY <1>3, <2>2
  <2>4. y \in Nat
    BY <2>3
  <2> QED
    BY <1>2, <2>1, <2>4, Numbers, ConnIs
<1>5. /\ ckpt'.step = "marks" /\ ckpt'.slot = i + 1
      /\ \/ ckpt'.mxSafeFrame = ckpt.mxSafeFrame /\ (ckpt.mxSafeFrame <= y \/ Unlocked({i}))
         \/ ckpt'.mxSafeFrame = y /\ ckpt.mxSafeFrame > y
  BY <1>2, <1>3 DEF CkptMark, Types, Ckpt
<1>6. \/ info' = info
      \/ \E m : info' = [info EXCEPT !.aReadMark[i] = m] /\ Unlocked({i})
  BY DEF CkptMark
<1>7. /\ info'.nBackfill = info.nBackfill /\ info'.aPgno = info.aPgno
      /\ \A d \in Connection : conn[d].readLock > 0 =>
            info'.aReadMark[conn[d].readLock] = info.aReadMark[conn[d].readLock]
  <2>1. info.aReadMark \in [Slot -> 0 .. READMARK_NOT_USED] /\ info \in Info
    BY <1>2 DEF Types, Info
  <2>2. CASE info' = info
    BY <2>2
  <2>3. ASSUME NEW m, info' = [info EXCEPT !.aReadMark[i] = m], Unlocked({i})
        PROVE  <1>7!:
    <3>1. \A d \in Connection : conn[d].readLock # i
      BY <2>3 DEF Unlocked
    <3>2. /\ info'.nBackfill = info.nBackfill /\ info'.aPgno = info.aPgno
          /\ info'.aReadMark = [info.aReadMark EXCEPT ![i] = m]
      BY <2>1, <2>3 DEF Info
    <3>3. \A j : j # i => [info.aReadMark EXCEPT ![i] = m][j] = info.aReadMark[j]
      BY <2>1
    <3> QED
      BY <3>1, <3>2, <3>3
  <2> QED
    BY <1>6, <2>2, <2>3
<1>8. locks.ckpt = c
  BY <1>2, <1>3 DEF PlaceInv
<1> HIDE DEF y
<1>9. ckpt'.mxSafeFrame \in Nat /\ ckpt'.mxSafeFrame <= ckpt.mxSafeFrame
  BY <1>4, <1>5
<1>10. ASSUME NEW e \in Connection, Checked(e), conn[e].readLock > 0, conn[e].readLock < i + 1
       PROVE  ckpt'.mxSafeFrame <= SnapFrame(e)
  <2>1. SnapFrame(e) \in Nat /\ conn[e].readLock \in Int
    BY <1>2, Numbers, ConnIs DEF SnapFrame
  <2>2. CASE conn[e].readLock < i
    <3>1. ckpt.mxSafeFrame <= SnapFrame(e)
      BY <1>2, <1>3, <1>8, <1>10, <2>2 DEF CkptInv
    <3> QED
      BY <1>4, <1>9, <2>1, <3>1
  <2>3. CASE conn[e].readLock = i
    <3>1. y <= SnapFrame(e)
      BY <1>2, <1>10, <2>3 DEF ReaderInv, y
    <3>2. ~Unlocked({i})
      BY <2>3 DEF Unlocked
    <3> QED
      BY <1>4, <1>5, <1>9, <2>1, <3>1, <3>2
  <2> QED
    BY <1>4, <1>10, <2>1, <2>2, <2>3
<1>11. ckpt'.mxSafeFrame <= conn[c].hdr.mxFrame /\ conn[c].hdr.mxFrame <= hdr.mxFrame
       /\ info.nBackfill < conn[c].hdr.mxFrame /\ ~locks.db
  <2>1. ckpt.mxSafeFrame <= conn[c].hdr.mxFrame
    BY <1>2, <1>3, <1>8 DEF CkptInv
  <2> QED
    BY <1>2, <1>3, <1>4, <1>8, <1>9, <2>1 DEF CkptInv
<1>12. CkptInv(c, K)'
  <2>1. \A e \in Connection : SnapFrame(e)' = SnapFrame(e) /\ (Checked(e)' <=> Checked(e))
    BY <1>3 DEF SnapFrame, Checked
  <2> QED
    BY <1>3, <1>5, <1>7, <1>8, <1>10, <1>11, <2>1 DEF CkptInv
<1> QED
  BY <1>1, <1>3, <1>7, <1>12, CkptQuiet

LEMMA CkptFailsStep == ASSUME IInv, NEW c \in Connection, CkptFails(c), Types' PROVE IInv'
<1>1. PICK g \in 0 .. MaxSalt, b \in 0 .. MaxTxn, K \in 0 .. MaxFrame : LogInv(g, b, K)
  BY DEF IInv
<1>2. Types /\ CkptInv(c, K)
  BY <1>1 DEF IInv, LogInv
<1>3. /\ conn[c].pc = "ckpt" /\ ckpt.step = "copy"
      /\ UNCHANGED <<hdr, info, file, conn, salts, txn, crashes, states>>
      /\ locks'.write = locks.write /\ locks'.ckpt = locks.ckpt /\ ~locks'.db
      /\ ckpt'.step = "done"
  BY <1>2 DEF CkptFails, Checkpointer, Types, Ckpt, Locks
<1>4. CkptInv(c, K)'
  BY <1>3 DEF CkptInv
<1> QED
  BY <1>1, <1>3, <1>4, CkptQuiet

LEMMA CkptReleaseStep == ASSUME IInv, NEW c \in Connection, CkptRelease(c), Types' PROVE IInv'
<1>1. PICK g \in 0 .. MaxSalt, b \in 0 .. MaxTxn, K \in 0 .. MaxFrame : LogInv(g, b, K)
  BY DEF IInv
<1>2. Types /\ PlaceInv(c) /\ CkptInv(c, K)
  BY <1>1 DEF IInv, LogInv
<1>3. /\ conn[c].pc = "ckpt" /\ ckpt.step \in {"end", "done"}
      /\ UNCHANGED <<hdr, info, file, salts, txn, crashes, states>>
      /\ conn'[c] = Idle /\ \A d \in Connection \ {c} : conn'[d] = conn[d]
      /\ ckpt' = NoCkpt /\ locks'.ckpt = NoConn /\ locks'.db = locks.db
      /\ locks'.write = (IF locks.write = c THEN NoConn ELSE locks.write)
  BY <1>2 DEF CkptRelease, Types, Locks
<1>4. locks.ckpt = c /\ hdr.isInit /\ c # NoConn /\ ~locks.db /\ salts \in Nat
  BY <1>2, <1>3, Constants, Numbers DEF PlaceInv, CkptInv
<1>5. conn'[c].pc = "idle" /\ conn'[c].readLock = -1 /\ conn'[c].hdr.aSalt = 0
  BY <1>3 DEF Idle, NoHdr
<1>6. PlaceInv(c)' /\ ReaderInv(c)' /\ ~Checked(c)'
  BY <1>3, <1>4, <1>5 DEF PlaceInv, ReaderInv, Checked
<1>7. WriterInv(c, g, b, K)' /\ CkptInv(c, K)' /\ NobodyCopies'
  BY <1>3, <1>4, <1>5 DEF WriterInv, CkptInv, NobodyCopies
<1>8. \A d \in Connection \ {c} : d # NoConn
  BY Constants
<1>9. txn <= txn' /\ salts' = salts /\ info' = info
  BY <1>2, <1>3, Numbers
<1> QED
  BY <1>1, <1>3, <1>4, <1>6, <1>7, <1>8, <1>9, Quiet

LEMMA CrashStep == ASSUME IInv, NEW c \in Connection, Crash(c), Types' PROVE IInv'
<1>1. PICK g \in 0 .. MaxSalt, b \in 0 .. MaxTxn, K \in 0 .. MaxFrame : LogInv(g, b, K)
  BY DEF IInv
<1>2. Types /\ PlaceInv(c) /\ CkptInv(c, K) /\ NobodyCopies
  BY <1>1 DEF IInv, LogInv
<1>3. /\ c \in {locks.write, locks.ckpt}
      /\ UNCHANGED <<hdr, info, file, salts, txn, states>>
      /\ conn'[c] = Idle /\ \A d \in Connection \ {c} : conn'[d] = conn[d]
      /\ ckpt' = (IF locks.ckpt = c THEN NoCkpt ELSE ckpt)
      /\ locks'.write = (IF locks.write = c THEN NoConn ELSE locks.write)
      /\ locks'.ckpt = (IF locks.ckpt = c THEN NoConn ELSE locks.ckpt)
      /\ locks'.db = (locks.db /\ locks.ckpt # c)
  BY <1>2 DEF Crash, Types
<1>4. hdr.isInit /\ c # NoConn /\ salts \in Nat /\ locks.db \in BOOLEAN
  BY <1>2, <1>3, Constants, Numbers DEF PlaceInv, Types, Locks
<1>5. conn'[c].pc = "idle" /\ conn'[c].readLock = -1 /\ conn'[c].hdr.aSalt = 0
  BY <1>3 DEF Idle, NoHdr
<1>6. PlaceInv(c)' /\ ReaderInv(c)' /\ ~Checked(c)'
  BY <1>3, <1>4, <1>5 DEF PlaceInv, ReaderInv, Checked
<1>7. WriterInv(c, g, b, K)' /\ CkptInv(c, K)'
  BY <1>3, <1>4, <1>5 DEF WriterInv, CkptInv
<1>8. NobodyCopies'
  BY <1>2, <1>3 DEF NobodyCopies
<1>9. \A d \in Connection \ {c} : d # NoConn
  BY Constants
<1>10. txn <= txn' /\ salts' = salts /\ info' = info /\ (locks'.db => locks.db)
  BY <1>2, <1>3, <1>4, Numbers
<1>11. locks.ckpt \notin {c, NoConn} => ckpt' = ckpt /\ locks'.db = locks.db
  BY <1>3, <1>4
<1> QED
  BY <1>1, <1>3, <1>4, <1>6, <1>7, <1>8, <1>9, <1>10, <1>11, Quiet

-----------------------------------------------------------------------------
(* The log starts again.                                                   *)

LEMMA LogOverKept ==
    ASSUME NEW f, NEW h, NEW d, NEW g, NEW b, LogOver(f, d, g, b),
           \A j \in Frames : h.walMay[j] \subseteq f.walMay[j]
    PROVE  LogOver(h, d, g, b)
<1>1. \A i \in Frames : \A j \in 1 .. i : j \in Frames
  BY Constants DEF Frames
<1>2. \A i \in Frames : \A w : Valid(h, w, g, i) => Valid(f, w, g, i)
  BY <1>1 DEF Valid
<1>3. ASSUME g # 0, NEW w \in [Frames -> Frame], NEW i \in Frames, Valid(h, w, g, i), w[i].commit
      PROVE  Seals(d, w, i, b, w[i].txn) /\ w[i].txn >= b /\ Real(d, w[i].txn)
  <2>1. Valid(f, w, g, i)
    BY <1>2, <1>3
  <2> QED
    BY <1>3, <2>1 DEF LogOver
<1> QED
  BY <1>3 DEF LogOver

\* No frame has a salt that was not drawn.
LEMMA NoSuchLog ==
    ASSUME Types, FrameInv, NEW s \in Nat, s > salts, NEW d, NEW b
    PROVE  LogOver(file, d, s, b)
<1> SUFFICES ASSUME NEW w, NEW i \in Frames, Valid(file, w, s, i) PROVE FALSE
  BY DEF LogOver
<1>1. 1 \in 1 .. i /\ 1 \in Frames
  BY Constants DEF Frames
<1>2. w[1] \in file.walMay[1] /\ w[1].aSalt = s
  BY <1>1 DEF Valid, Chained
<1>3. w[1].aSalt <= salts /\ w[1].aSalt \in Nat /\ salts \in Nat
  BY <1>1, <1>2, FilesAre, Numbers DEF FrameInv
<1> QED
  BY <1>2, <1>3

LEMMA WholeIs ==
    ASSUME FrameInv, NEW t, Whole(file, states.db, t)
    PROVE  \A p \in Page : file.db[p] = states.db[t][p]
BY DEF FrameInv, Whole

\* walRestartHdr by the writer or the checkpointer c, when the whole log is copied.
LEMMA RestartKeeps ==
    ASSUME IInv, Types', NEW c \in Connection, hdr.isInit,
           NEW g \in 0 .. MaxSalt, NEW b \in 0 .. MaxTxn, NEW K \in 0 .. MaxFrame,
           LogInv(g, b, K),
           hdr' = Restarted(hdr), info' = RestartedInfo, salts' = salts + 1,
           Unlocked(Slot), info.nBackfill = hdr.mxFrame, file' = file \/ file' = WriteSalt(file, 0),
           UNCHANGED <<locks, txn, states>>, locks.write = c,
           \A d \in Connection \ {c} : conn'[d] = conn[d] /\ CkptInv(d, K)',
           PlaceInv(c)', ReaderInv(c)', WriterInv(c, g, b, K)', CkptInv(c, K)', NobodyCopies'
    PROVE  IInv'
<1>1. /\ Types /\ FrameInv /\ MediumInv(g, b, K) /\ HdrInv(g, K)
      /\ \A d \in Connection : PlaceInv(d) /\ ReaderInv(d)
  BY DEF IInv, LogInv
<1>2. /\ hdr'.isInit = hdr.isInit /\ hdr'.txn = hdr.txn /\ hdr'.mxFrame = 0 /\ hdr'.aSalt = salts + 1
      /\ info'.nBackfill = 0 /\ info'.aPgno = info.aPgno
  BY <1>1 DEF Restarted, RestartedInfo, Types, WalIndexHdr, Info
<1>3. /\ file'.wal = file.wal /\ file'.walMay = file.walMay /\ file'.db = file.db
      /\ file'.dbMay = file.dbMay
      /\ \/ file'.saltMay = file.saltMay /\ file'.aSalt = file.aSalt
         \/ file'.saltMay = file.saltMay \cup {0} /\ file'.aSalt = 0
  BY <1>1 DEF WriteSalt, Types, Files
<1>4. salts \in Nat /\ hdr.txn \in Nat /\ hdr.txn \in 0 .. MaxTxn
  BY <1>1, Numbers
<1>5. Whole(file, states.db, hdr.txn) /\ \A p \in Page : file.db[p] = states.db[hdr.txn][p]
  BY <1>1, WholeIs DEF HdrInv
<1>6. Whole(file', states.db, hdr.txn)
  BY <1>3, <1>5 DEF Whole
<1>7. FrameInv'
  <2>1. /\ \A j \in Frames : \A x \in file.walMay[j] : x.aSalt <= salts + 1
        /\ \A s \in file.saltMay : s <= salts + 1
    <3>1. /\ \A j \in Frames : \A x \in file.walMay[j] : x.aSalt \in Nat /\ x.aSalt <= salts
          /\ \A s \in file.saltMay : s \in Nat /\ s <= salts
      BY <1>1, FilesAre DEF FrameInv
    <3> QED
      BY <1>4, <3>1
  <2>2. \A s \in file'.saltMay : s <= salts + 1
    BY <1>3, <1>4, <2>1
  <2>3. file'.aSalt \in file'.saltMay
    BY <1>1, <1>3 DEF FrameInv
  <2>4. \A j \in Frames : \A x \in file'.walMay[j] :
           x.txn <= txn /\ x.prev <= x.txn /\ x.aSalt <= salts + 1
    BY <1>1, <1>3, <2>1 DEF FrameInv
  <2> QED
    BY <1>1, <1>3, <2>2, <2>3, <2>4 DEF FrameInv
<1>8. LogOver(file', states.db, salts + 1, hdr.txn) /\ LogOver(file', states.db, g, b)
  <2>1. LogOver(file, states.db, salts + 1, hdr.txn)
    BY <1>1, <1>4, NoSuchLog
  <2>2. LogOver(file, states.db, g, b)
    BY <1>1 DEF MediumInv
  <2>3. \A j \in Frames : file'.walMay[j] \subseteq file.walMay[j]
    BY <1>3
  <2> QED
    BY <2>1, <2>2, <2>3, LogOverKept
<1>9. MediumInv(g, b, K)'
  <2>1. hdr.txn >= states.floor /\ hdr.txn <= txn /\ Real(states.db, hdr.txn)
    BY <1>1 DEF HdrInv
  <2>2. \E t \in 0 .. MaxTxn :
           t >= states.floor /\ t <= txn /\ Whole(file', states.db, t) /\ Real(states.db, t)
    BY <1>4, <1>6, <2>1
  <2> QED
    BY <1>1, <1>3, <1>8, <2>2 DEF MediumInv
<1>10. HdrInv(g, K)'
  <2>1. hdr.txn <= txn /\ hdr.txn >= states.floor /\ Real(states.db, hdr.txn)
    BY <1>1 DEF HdrInv
  <2>2. salts + 1 <= salts + 1 /\ 0 <= 0 /\ ~(0 > 0)
    BY <1>4
  <2> QED
    BY <1>2, <1>3, <1>5, <1>6, <1>8, <2>1, <2>2 DEF HdrInv
<1>11. DownInv'
  BY <1>2 DEF DownInv
<1>12. ASSUME NEW d \in Connection \ {c}
       PROVE  PlaceInv(d)' /\ ReaderInv(d)' /\ WriterInv(d, g, b, K)'
  <2>1. conn'[d] = conn[d] /\ conn[d].hdr.aSalt \in Nat /\ conn[d].hdr.aSalt <= salts
    BY <1>1, ConnIs DEF PlaceInv
  <2>2. conn[d].hdr.aSalt <= salts + 1 /\ conn[d].hdr.aSalt # salts + 1
    BY <1>4, <2>1
  <2>3. PlaceInv(d)'
    BY <1>1, <1>2, <2>1, <2>2 DEF PlaceInv
  <2>4. conn[d].readLock \notin Slot /\ ~(conn[d].readLock > 0)
    BY <1>1, ConnIs DEF Unlocked, Slot
  <2>5. conn[d].hdr # hdr'
    BY <1>2, <2>2
  <2>6. Checked(d)' <=> Checked(d)
    BY <2>1 DEF Checked
  <2>7. ReaderInv(d)'
    BY <1>1, <1>3, <2>1, <2>4, <2>5, <2>6 DEF ReaderInv
  <2>8. WriterInv(d, g, b, K)'
    BY <1>1, <2>1 DEF WriterInv, PlaceInv
  <2> QED
    BY <2>3, <2>7, <2>8
<1>13. LogInv(g, b, K)'
  BY <1>9, <1>10, <1>12 DEF LogInv
<1> QED
  BY <1>7, <1>11, <1>12, <1>13 DEF IInv

LEMMA RestartLogStep ==
    ASSUME IInv, ~ResetRace, NEW c \in Connection, walRestartLog(c), Types' PROVE IInv'
<1>1. PICK g \in 0 .. MaxSalt, b \in 0 .. MaxTxn, K \in 0 .. MaxFrame : LogInv(g, b, K)
  BY DEF IInv
<1>2. /\ Types /\ FrameInv /\ NobodyCopies /\ HdrInv(g, K) /\ PlaceInv(c) /\ ReaderInv(c)
      /\ WriterInv(c, g, b, K) /\ \A d \in Connection : CkptInv(d, K)
  BY <1>1 DEF IInv, LogInv
<1>3. /\ conn[c].pc = "write" /\ conn[c].readLock = 0
      /\ UNCHANGED <<locks, file, ckpt, txn, crashes, states>>
  BY DEF walRestartLog
<1>4. /\ locks.write = c /\ hdr.isInit /\ conn[c].hdr = hdr /\ info.nBackfill = hdr.mxFrame
      /\ locks.ckpt # c
  <2>1. locks.write = c /\ hdr.isInit /\ locks.ckpt # c
    BY <1>2, <1>3 DEF PlaceInv
  <2>2. conn[c].hdr = hdr
    BY <1>2, <1>3, <2>1 DEF WriterInv
  <2> QED
    BY <1>2, <1>3, <2>1, <2>2 DEF ReaderInv
<1>5. CASE conn' = [conn EXCEPT ![c] = [Idle EXCEPT !.pc = "hdr", !.hdr = conn[c].hdr]] /\ UNCHANGED <<hdr, info, salts>>
  <2>1. conn' = [conn EXCEPT ![c] = Retry(c)]
    BY <1>4, <1>5 DEF Retry
  <2>2. UNCHANGED <<hdr, info, locks, file, ckpt, salts, txn, crashes, states>>
    BY <1>3, <1>5
  <2> QED
    BY <1>3, <2>1, <2>2, RetryStep
<1>6. CASE /\ Unlocked(Slot) /\ MayReset
           /\ salts' = salts + 1
           /\ hdr' = Restarted(conn[c].hdr) /\ info' = RestartedInfo
           /\ conn' = [conn EXCEPT ![c] = [Idle EXCEPT !.pc = "hdr", !.hdr = hdr']]
  <2>1. /\ conn'[c].pc = "hdr" /\ conn'[c].hdr = hdr' /\ conn'[c].readLock = -1
        /\ \A d \in Connection \ {c} : conn'[d] = conn[d]
    BY <1>2, <1>6 DEF Types, Idle
  <2>2. /\ hdr'.isInit = hdr.isInit /\ hdr'.txn = hdr.txn /\ hdr'.mxFrame = 0 /\ hdr'.aSalt = salts + 1
        /\ hdr' = Restarted(hdr)
    BY <1>2, <1>4, <1>6 DEF Restarted, Types, WalIndexHdr
  <2>3. hdr.txn <= hdr.txn /\ salts + 1 <= salts + 1
    BY <1>2, Numbers
  <2>4. PlaceInv(c)'
    BY <1>2, <1>3, <1>4, <1>6, <2>1, <2>2, <2>3 DEF PlaceInv
  <2>5. ReaderInv(c)'
    BY <2>1 DEF ReaderInv, Checked
  <2>6. WriterInv(c, g, b, K)'
    <3>1. /\ hdr.txn < txn
          /\ \A j \in Frames : \A x \in file.walMay[j] : x.txn # txn
      BY <1>2, <1>3, <1>4 DEF WriterInv
    <3> QED
      BY <1>3, <2>1, <2>2, <3>1 DEF WriterInv
  <2>7. ASSUME NEW d \in Connection PROVE CkptInv(d, K)'
    <3> SUFFICES ASSUME locks.ckpt = d PROVE CkptInv(d, K)'
      BY <1>3 DEF CkptInv
    <3>1. d # c /\ CkptInv(d, K) /\ conn[d].hdr.mxFrame \in Nat /\ hdr.mxFrame \in Nat /\ ckpt.mxSafeFrame \in Nat
      BY <1>2, <1>4, Numbers, ConnIs
    <3>2. ckpt.step # "compare"
      BY <1>6 DEF MayReset
    <3>3. ckpt.step \notin {"marks", "copy"}
      <4>1. CASE ckpt.step = "marks"
        <5>1. conn[d].hdr.mxFrame <= hdr.mxFrame /\ hdr.mxFrame < conn[d].hdr.mxFrame
          BY <1>4, <3>1, <4>1 DEF CkptInv
        <5> QED
          BY <3>1, <5>1
      <4>2. CASE ckpt.step = "copy"
        <5>1. /\ ckpt.mxSafeFrame <= conn[d].hdr.mxFrame /\ conn[d].hdr.mxFrame <= hdr.mxFrame
              /\ hdr.mxFrame < ckpt.mxSafeFrame
          BY <1>4, <3>1, <4>2 DEF CkptInv
        <5> QED
          BY <3>1, <5>1
      <4> QED
        BY <4>1, <4>2
    <3> QED
      BY <1>3, <3>1, <3>2, <3>3 DEF CkptInv
  <2>8. NobodyCopies'
    BY <1>2, <1>3 DEF NobodyCopies
  <2> QED
    BY <1>1, <1>3, <1>4, <1>6, <2>1, <2>2, <2>4, <2>5, <2>6, <2>7, <2>8, RestartKeeps
<1> QED
  BY <1>5, <1>6 DEF walRestartLog

LEMMA CkptTruncateStep == ASSUME IInv, NEW c \in Connection, CkptTruncate(c), Types' PROVE IInv'
<1>1. PICK g \in 0 .. MaxSalt, b \in 0 .. MaxTxn, K \in 0 .. MaxFrame : LogInv(g, b, K)
  BY DEF IInv
<1>2. /\ Types /\ FrameInv /\ NobodyCopies /\ HdrInv(g, K) /\ PlaceInv(c) /\ ReaderInv(c)
      /\ WriterInv(c, g, b, K) /\ CkptInv(c, K)
  BY <1>1 DEF IInv, LogInv
<1>3. /\ conn[c].pc = "ckpt" /\ ckpt.step = "end" /\ locks.write = c
      /\ info.nBackfill >= conn[c].hdr.mxFrame /\ Unlocked(Slot) /\ salts' = salts + 1
      /\ hdr' = Restarted(conn[c].hdr) /\ info' = RestartedInfo /\ file' = WriteSalt(file, 0)
      /\ ckpt'.step = "done"
      /\ UNCHANGED <<locks, conn, txn, crashes, states>>
  BY <1>2 DEF CkptTruncate, Checkpointer, Types, Ckpt
<1>4. /\ hdr.isInit /\ locks.ckpt = c /\ c # NoConn /\ conn[c].hdr = hdr /\ conn[c].readLock = -1
      /\ ~locks.db
  BY <1>2, <1>3, Constants DEF PlaceInv, WriterInv, CkptInv
<1>5. info.nBackfill = hdr.mxFrame
  <2>1. info.nBackfill <= hdr.mxFrame
    BY <1>2, <1>4 DEF HdrInv
  <2> QED
    BY <1>2, <1>3, <1>4, <2>1, Numbers
<1>6. /\ hdr'.isInit = hdr.isInit /\ hdr'.txn = hdr.txn /\ hdr'.mxFrame = 0 /\ hdr'.aSalt = salts + 1
      /\ hdr' = Restarted(hdr)
  BY <1>2, <1>3, <1>4 DEF Restarted, Types, WalIndexHdr
<1>7. PlaceInv(c)'
  <2>1. conn[c].hdr.aSalt <= salts + 1 /\ hdr.txn <= hdr.txn
    <3>1. conn[c].hdr.aSalt \in Nat /\ salts \in Nat /\ hdr.txn \in Nat /\ conn[c].hdr.aSalt <= salts
      BY <1>2, ConnIs, Numbers DEF PlaceInv
    <3> QED
      BY <3>1
  <2> QED
    BY <1>3, <1>4, <1>6, <2>1 DEF PlaceInv
<1>8. ReaderInv(c)' /\ WriterInv(c, g, b, K)' /\ CkptInv(c, K)' /\ NobodyCopies'
  BY <1>3, <1>4 DEF ReaderInv, Checked, WriterInv, CkptInv, NobodyCopies
<1>9. \A d \in Connection \ {c} : conn'[d] = conn[d] /\ CkptInv(d, K)'
  BY <1>3, <1>4 DEF CkptInv
<1> QED
  BY <1>1, <1>3, <1>4, <1>5, <1>6, <1>7, <1>8, <1>9, RestartKeeps

-----------------------------------------------------------------------------
(* A write transaction.                                                    *)

LEMMA WriteWalHdrStep == ASSUME IInv, NEW c \in Connection, WriteWalHdr(c), Types' PROVE IInv'
<1>1. PICK g \in 0 .. MaxSalt, b \in 0 .. MaxTxn, K \in 0 .. MaxFrame : LogInv(g, b, K)
  BY DEF IInv
<1>2. /\ Types /\ FrameInv /\ NobodyCopies /\ MediumInv(g, b, K) /\ HdrInv(g, K)
      /\ \A d \in Connection : PlaceInv(d) /\ ReaderInv(d) /\ WriterInv(d, g, b, K) /\ CkptInv(d, K)
  BY <1>1 DEF IInv, LogInv
<1>3. PICK s \in ({conn[c].hdr.aSalt} \ {0}) \cup ({salts + 1} \cap (1 .. MaxSalt)) :
         /\ salts' = Max({s, salts})
         /\ file' = SyncWal(WriteSalt(file, s))
         /\ conn' = [conn EXCEPT ![c].pc = "frames", ![c].hdr.aSalt = s]
  BY DEF WriteWalHdr
<1>4. /\ conn[c].pc = "write" /\ conn[c].readLock > 0 /\ conn[c].hdr.mxFrame = 0
      /\ UNCHANGED <<hdr, info, locks, ckpt, txn, crashes, states>>
  BY DEF WriteWalHdr
<1>5. /\ file'.wal = file.wal /\ file'.walMay = [i \in Frames |-> {file.wal[i]}]
      /\ file'.aSalt = s /\ file'.saltMay = {s} /\ file'.db = file.db /\ file'.dbMay = file.dbMay
  BY <1>2, <1>3 DEF SyncWal, WriteSalt, Types, Files
<1>6. /\ conn'[c].pc = "frames" /\ conn'[c].hdr.aSalt = s /\ conn'[c].hdr.mxFrame = conn[c].hdr.mxFrame
      /\ conn'[c].hdr.txn = conn[c].hdr.txn /\ conn'[c].readLock = conn[c].readLock
      /\ conn'[c].minFrame = conn[c].minFrame
      /\ \A d \in Connection \ {c} : conn'[d] = conn[d]
  BY <1>2, <1>3 DEF Types, Conn, WalIndexHdr
<1>7. locks.write = c /\ hdr.isInit /\ conn[c].hdr = hdr /\ hdr.mxFrame = 0 /\ locks.ckpt # c
  BY <1>2, <1>4 DEF PlaceInv, WriterInv
<1>8. /\ salts \in Nat /\ hdr.txn \in Nat /\ hdr.txn \in 0 .. MaxTxn /\ hdr.aSalt \in Nat
      /\ hdr.aSalt <= salts /\ conn[c].hdr.aSalt = hdr.aSalt
  BY <1>2, <1>7, Numbers DEF HdrInv
<1> PICK t \in 0 .. MaxTxn : t = hdr.txn
  BY <1>8
<1>9. s \in Nat /\ s # 0 /\ s \in 0 .. MaxSalt /\ (s = hdr.aSalt \/ s = salts + 1)
  BY <1>2, <1>3, <1>8, Numbers
<1>10. salts' \in Nat /\ s <= salts' /\ salts <= salts'
  <2>1. {s, salts} \in SUBSET (0 .. MaxSalt) /\ {s, salts} # {}
    BY <1>2, <1>9, Numbers
  <2>2. Max({s, salts}) \in {s, salts} /\ \A y \in {s, salts} : y <= Max({s, salts})
    BY <2>1, MaxIs, Constants
  <2> QED
    BY <1>3, <1>8, <1>9, <2>2
<1>11. \A j \in Frames : file'.walMay[j] \subseteq file.walMay[j] /\ file.wal[j] \in file'.walMay[j]
  BY <1>2, <1>5 DEF FrameInv
<1>12. \A d \in Connection : conn[d].hdr.aSalt <= salts'
  <2>1. \A d \in Connection : conn[d].hdr.aSalt \in Nat /\ conn[d].hdr.aSalt <= salts
    BY <1>2, ConnIs DEF PlaceInv
  <2> QED
    BY <1>8, <1>10, <2>1
<1>13. Whole(file, states.db, hdr.txn) /\ \A p \in Page : file.db[p] = states.db[hdr.txn][p]
  <2>1. info.nBackfill = hdr.mxFrame
    BY <1>2, <1>7, Numbers DEF HdrInv
  <2> QED
    BY <1>2, <1>7, <2>1, WholeIs DEF HdrInv
<1>14. FrameInv'
  <2>1. \A j \in Frames : \A x \in file.walMay[j] : x.aSalt <= salts'
    <3>1. \A j \in Frames : \A x \in file.walMay[j] : x.aSalt \in Nat /\ x.aSalt <= salts
      BY <1>2, FilesAre DEF FrameInv
    <3> QED
      BY <1>8, <1>10, <3>1
  <2>2. \A j \in Frames : \A x \in file'.walMay[j] :
           x.txn <= txn /\ x.prev <= x.txn /\ x.aSalt <= salts'
    BY <1>2, <1>11, <2>1 DEF FrameInv
  <2>3. \A j \in Frames : \A x, y \in file'.walMay[j] : x.txn = y.txn /\ x.aSalt = y.aSalt => x = y
    BY <1>2, <1>11 DEF FrameInv
  <2> QED
    BY <1>2, <1>4, <1>5, <1>10, <1>11, <2>2, <2>3 DEF FrameInv
<1>15. LogOver(file', states.db, s, hdr.txn) /\ LogOver(file', states.db, hdr.aSalt, hdr.txn)
  <2>1. LogOver(file, states.db, hdr.aSalt, hdr.txn)
    BY <1>2, <1>7 DEF HdrInv
  <2>2. LogOver(file, states.db, s, hdr.txn)
    <3>1. CASE s = hdr.aSalt
      BY <2>1, <3>1
    <3>2. CASE s = salts + 1
      <4>1. s > salts
        BY <1>8, <3>2
      <4> QED
        BY <1>2, <1>9, <4>1, NoSuchLog
    <3> QED
      BY <1>9, <3>1, <3>2
  <2>3. \A j \in Frames : file'.walMay[j] \subseteq file.walMay[j]
    BY <1>11
  <2> QED
    BY <2>1, <2>2, <2>3, LogOverKept
<1>16. /\ hdr.txn <= txn /\ hdr.txn >= states.floor /\ Real(states.db, hdr.txn)
       /\ \A p \in Page : file.dbMay[p] = {states.db[hdr.txn][p]}
  BY <1>2, <1>7, <1>13 DEF HdrInv, Whole
<1>17. MediumInv(s, t, 0)'
  BY <1>4, <1>5, <1>9, <1>15, <1>16 DEF MediumInv
<1>18. HdrInv(s, 0)'
  <2>1. hdr.aSalt <= salts' /\ ~(hdr.mxFrame > 0)
    BY <1>7, <1>8, <1>10
  <2>2. Whole(file', states.db, hdr.txn)
    BY <1>5, <1>13 DEF Whole
  <2> QED
    BY <1>2, <1>4, <1>5, <1>7, <1>13, <1>15, <1>16, <2>1, <2>2 DEF HdrInv
<1>19. DownInv' /\ NobodyCopies'
  BY <1>2, <1>4, <1>7 DEF DownInv, NobodyCopies
<1>20. \A d \in Connection : PlaceInv(d)'
  <2>1. ASSUME NEW d \in Connection \ {c} PROVE PlaceInv(d)'
    BY <1>2, <1>4, <1>6, <1>12, <2>1 DEF PlaceInv
  <2>2. PlaceInv(c)'
    BY <1>2, <1>4, <1>6, <1>7, <1>10 DEF PlaceInv
  <2> QED
    BY <2>1, <2>2
<1>21. \A d \in Connection : ReaderInv(d)'
  <2>1. ASSUME NEW d \in Connection \ {c} PROVE ReaderInv(d)'
    <3>1. conn'[d] = conn[d] /\ SnapFrame(d)' = SnapFrame(d) /\ (Checked(d)' <=> Checked(d))
      BY <1>4, <1>6, <2>1 DEF SnapFrame, Checked
    <3> QED
      BY <1>2, <1>4, <1>5, <3>1 DEF ReaderInv
  <2>2. ReaderInv(c)'
    <3>1. /\ Checked(c) /\ Checked(c)' /\ SnapFrame(c)' = 0 /\ SnapFrame(c) = 0
          /\ conn'[c].readLock # 0
      BY <1>4, <1>6, <1>7 DEF SnapFrame, Checked
    <3> QED
      BY <1>2, <1>4, <1>5, <1>6, <3>1 DEF ReaderInv
  <2> QED
    BY <2>1, <2>2
<1>22. \A d \in Connection : WriterInv(d, s, t, 0)'
  <2>1. ASSUME NEW d \in Connection \ {c} PROVE WriterInv(d, s, t, 0)'
    BY <1>2, <1>4, <1>6, <1>7, <2>1 DEF WriterInv, PlaceInv
  <2>2. WriterInv(c, s, t, 0)'
    <3>1. hdr.txn < txn /\ \A j \in Frames : \A x \in file'.walMay[j] : x.txn # txn
      BY <1>2, <1>4, <1>7, <1>11 DEF WriterInv
    <3>2. Chained(file.wal, s, 0) /\ hdr.mxFrame <= 0
      BY <1>7 DEF Chained
    <3> QED
      BY <1>4, <1>5, <1>6, <1>7, <1>9, <3>1, <3>2 DEF WriterInv
  <2> QED
    BY <2>1, <2>2
<1>23. \A d \in Connection : CkptInv(d, 0)'
  <2> SUFFICES ASSUME NEW d \in Connection, locks.ckpt = d PROVE CkptInv(d, 0)'
    BY <1>4 DEF CkptInv
  <2>1. conn'[d] = conn[d] /\ CkptInv(d, K) /\ d # c
    BY <1>2, <1>6, <1>7
  <2>2. ckpt.step # "copy"
    <3>1. /\ ckpt.mxSafeFrame \in Nat /\ conn[d].hdr.mxFrame \in Nat /\ info.nBackfill \in Nat
      BY <1>2, Numbers, ConnIs
    <3>2. ckpt.step = "copy" => /\ ckpt.mxSafeFrame <= conn[d].hdr.mxFrame /\ conn[d].hdr.mxFrame <= 0
                                /\ info.nBackfill < ckpt.mxSafeFrame
      BY <1>7, <2>1 DEF CkptInv
    <3> QED
      BY <3>1, <3>2
  <2>3. \A e \in Connection : Checked(e)' /\ conn'[e].readLock > 0 =>
           Checked(e) /\ conn[e].readLock = conn'[e].readLock /\ SnapFrame(e)' = SnapFrame(e)
    BY <1>4, <1>6, <1>7 DEF Checked, SnapFrame
  <2> QED
    BY <1>4, <2>1, <2>2, <2>3 DEF CkptInv
<1>24. LogInv(s, t, 0)'
  BY <1>17, <1>18, <1>22, <1>23 DEF LogInv
<1>25. 0 \in 0 .. MaxFrame
  BY Constants
<1>26. \E gg \in 0 .. MaxSalt, bb \in 0 .. MaxTxn, kk \in 0 .. MaxFrame : LogInv(gg, bb, kk)'
  BY <1>8, <1>9, <1>24, <1>25
<1> QED
  BY <1>14, <1>19, <1>20, <1>21, <1>26 DEF IInv

\* A page that no frame from m + 1 to n has is the same in both transactions.
LEMMA Later ==
    ASSUME NEW d, NEW w, NEW m \in Nat, NEW n \in Nat, m <= n, NEW b, NEW t, NEW u,
           Seals(d, w, m, b, t), Seals(d, w, n, b, u), NEW p \in Page, NoneOf(w, p, m + 1, n)
    PROVE  d[u][p] = d[t][p]
<1>1. CASE NoneOf(w, p, 1, m)
  <2>1. NoneOf(w, p, 1, n)
    BY <1>1 DEF NoneOf
  <2> QED
    BY <1>1, <2>1 DEF Seals
<1>2. ASSUME NEW k \in 1 .. m, LastIs(w, p, 1, m, k) PROVE d[u][p] = d[t][p]
  <2>1. k \in 1 .. n /\ LastIs(w, p, 1, n, k)
    BY <1>2 DEF LastIs, NoneOf
  <2> QED
    BY <1>2, <2>1 DEF Seals
<1> QED
  BY <1>1, <1>2, LastOrNone

LEMMA SealsItself == ASSUME NEW d, NEW w, NEW b PROVE Seals(d, w, 0, b, b)
BY DEF Seals

LEMMA CommitStep == ASSUME IInv, NEW c \in Connection, Commit(c), Types' PROVE IInv'
<1>1. PICK g \in 0 .. MaxSalt, b \in 0 .. MaxTxn, K \in 0 .. MaxFrame : LogInv(g, b, K)
  BY DEF IInv
<1>2. /\ Types /\ FrameInv /\ NobodyCopies /\ MediumInv(g, b, K) /\ HdrInv(g, K)
      /\ \A d \in Connection : PlaceInv(d) /\ ReaderInv(d) /\ WriterInv(d, g, b, K) /\ CkptInv(d, K)
  BY <1>1 DEF IInv, LogInv
<1>3. PICK n \in 0 .. MaxFrame : n = conn[c].hdr.mxFrame
  BY <1>2, ConnIs
<1>4. /\ conn[c].pc = "sealed" /\ locks'.write = NoConn /\ locks'.ckpt = locks.ckpt /\ locks'.db = locks.db
      /\ file' = SyncFrames /\ UNCHANGED <<info, ckpt, salts, txn, crashes>>
      /\ states'.db = states.db /\ states'.floor = (IF SyncCommit THEN txn ELSE states.floor)
      /\ hdr'.isInit = TRUE /\ hdr'.txn = txn /\ hdr'.mxFrame = n /\ hdr'.aSalt = conn[c].hdr.aSalt
      /\ conn'[c].pc = "read" /\ conn'[c].hdr = hdr' /\ conn'[c].readLock = conn[c].readLock
      /\ conn'[c].minFrame = conn[c].minFrame
      /\ \A d \in Connection \ {c} : conn'[d] = conn[d]
  <2>1. /\ locks \in Locks /\ states \in States /\ conn[c].hdr \in WalIndexHdr
        /\ conn \in [Connection -> Conn] /\ conn[c] \in Conn
    BY <1>2, ConnIs DEF Types
  <2>2. /\ hdr'.isInit = TRUE /\ hdr'.txn = txn /\ hdr'.mxFrame = n /\ hdr'.aSalt = conn[c].hdr.aSalt
    BY <1>3, <2>1 DEF Commit, WalIndexHdr
  <2>3. /\ conn'[c].pc = "read" /\ conn'[c].hdr = hdr' /\ conn'[c].readLock = conn[c].readLock
        /\ conn'[c].minFrame = conn[c].minFrame
        /\ \A d \in Connection \ {c} : conn'[d] = conn[d]
    BY <2>1 DEF Commit, Conn
  <2> QED
    BY <2>1, <2>2, <2>3 DEF Commit, Locks, States
<1>5. /\ file'.wal = file.wal /\ file'.db = file.db /\ file'.dbMay = file.dbMay /\ file'.aSalt = file.aSalt
      /\ SyncCommit => /\ file'.walMay = [i \in Frames |-> {file.wal[i]}] /\ file'.saltMay = {file.aSalt}
      /\ ~SyncCommit => file' = file
  BY <1>2, <1>4 DEF SyncFrames, SyncWal, Types, Files
<1>6. \A j \in Frames : file'.walMay[j] \subseteq file.walMay[j] /\ file.wal[j] \in file'.walMay[j]
  BY <1>2, <1>5 DEF FrameInv
<1>7. /\ locks.write = c /\ hdr.isInit /\ conn[c].readLock > 0 /\ locks.ckpt # c /\ c # NoConn
      /\ conn[c].hdr.aSalt <= salts
  BY <1>2, <1>4, Constants DEF PlaceInv
<1>8. /\ hdr.txn < txn /\ n > hdr.mxFrame /\ g # 0 /\ conn[c].hdr.aSalt = g /\ file.saltMay = {g}
      /\ hdr.mxFrame = 0 => b = hdr.txn /\ K = 0
      /\ Chained(file.wal, g, n) /\ file.wal[n].commit
      /\ \A j \in hdr.mxFrame + 1 .. n : file.wal[j].txn = txn /\ info.aPgno[j] = file.wal[j].pgno
  BY <1>2, <1>3, <1>4, <1>7 DEF WriterInv
<1>9. /\ n \in Nat /\ hdr.mxFrame \in Nat /\ hdr.txn \in Nat /\ txn \in Nat /\ n \in Frames /\ n > 0
      /\ n \in hdr.mxFrame + 1 .. n /\ info.nBackfill \in Nat /\ states.floor \in Nat /\ txn \in 0 .. MaxTxn
      /\ K \in Nat /\ hdr.txn \in 0 .. MaxTxn
  BY <1>2, <1>8, Numbers DEF Frames
<1>10. file.wal[n].txn = txn /\ file.saltMay = {file.aSalt} /\ file'.saltMay = {g}
  BY <1>2, <1>5, <1>8, <1>9 DEF FrameInv
<1>11. /\ hdr.txn <= txn /\ hdr.txn >= states.floor /\ info.nBackfill <= hdr.mxFrame
       /\ hdr.mxFrame > 0 => /\ K <= hdr.mxFrame
                             /\ \A j \in 1 .. hdr.mxFrame : info.aPgno[j] = file.wal[j].pgno
       /\ \A p \in Page : NoneOf(file.wal, p, info.nBackfill + 1, hdr.mxFrame) =>
              file.db[p] = states.db[hdr.txn][p]
  BY <1>2, <1>7 DEF HdrInv
<1>12. K <= hdr.mxFrame /\ \A j \in 1 .. n : info.aPgno[j] = file.wal[j].pgno
  BY <1>8, <1>9, <1>11
\* The transaction is sealed over b, as the one before it is.
<1>13. Seals(states.db, file.wal, n, b, txn) /\ Real(states.db, txn)
  <2>1. file.wal \in [Frames -> Frame] /\ Valid(file, file.wal, g, n)
    BY <1>2, <1>8, <1>9, Numbers, WalIsValid
  <2>2. LogOver(file, states.db, g, b)
    BY <1>2 DEF MediumInv
  <2> QED
    BY <1>8, <1>9, <1>10, <2>1, <2>2 DEF LogOver
<1>14. Seals(states.db, file.wal, hdr.mxFrame, b, hdr.txn)
  <2>1. CASE hdr.mxFrame = 0
    BY <1>8, <2>1, SealsItself
  <2>2. CASE hdr.mxFrame > 0
    BY <1>2, <1>7, <2>2, CommittedLog
  <2> QED
    BY <1>9, <2>1, <2>2
<1>15. \A p \in Page : NoneOf(file.wal, p, hdr.mxFrame + 1, n) => states.db[txn][p] = states.db[hdr.txn][p]
  BY <1>8, <1>9, <1>13, <1>14, Later
<1>16. \A p \in Page, lo \in Nat : lo <= info.nBackfill + 1 /\ NoneOf(file.wal, p, lo, n) =>
          file.db[p] = states.db[txn][p]
  <2> SUFFICES ASSUME NEW p \in Page, NEW lo \in Nat, lo <= info.nBackfill + 1, NoneOf(file.wal, p, lo, n)
               PROVE  file.db[p] = states.db[txn][p]
    OBVIOUS
  <2>1. NoneOf(file.wal, p, hdr.mxFrame + 1, n) /\ NoneOf(file.wal, p, info.nBackfill + 1, hdr.mxFrame)
    BY <1>8, <1>9, <1>11 DEF NoneOf
  <2> QED
    BY <1>11, <1>15, <2>1
<1>17. PICK K1 \in 0 .. MaxFrame : K1 = IF SyncCommit THEN n ELSE K
  OBVIOUS
<1>18. K <= K1 /\ K1 <= n /\ states.floor <= states'.floor /\ states'.floor <= txn
  BY <1>4, <1>8, <1>9, <1>11, <1>12, <1>17
<1>19. FrameInv'
  <2>1. \A j \in Frames : \A x \in file'.walMay[j] :
           x.txn <= txn /\ x.prev <= x.txn /\ x.aSalt <= salts
    BY <1>2, <1>6 DEF FrameInv
  <2>2. \A j \in Frames : \A x, y \in file'.walMay[j] : x.txn = y.txn /\ x.aSalt = y.aSalt => x = y
    BY <1>2, <1>6 DEF FrameInv
  <2>3. file'.aSalt \in file'.saltMay /\ \A s \in file'.saltMay : s <= salts
    BY <1>2, <1>5, <1>8, <1>10 DEF FrameInv
  <2>4. \A p \in Page : file'.db[p] \in file'.dbMay[p]
    BY <1>2, <1>5 DEF FrameInv
  <2>5. /\ \A t \in 0 .. MaxTxn : t = 0 \/ t > txn => states.db[t] = [p \in Page |-> 0]
        /\ \A j \in Frames : file'.wal[j] \in file'.walMay[j]
    BY <1>2, <1>5, <1>6 DEF FrameInv
  <2> QED
    BY <1>4, <2>1, <2>2, <2>3, <2>4, <2>5 DEF FrameInv
<1>20. LogOver(file', states.db, g, b)
  <2>1. LogOver(file, states.db, g, b)
    BY <1>2 DEF MediumInv
  <2>2. \A j \in Frames : file'.walMay[j] \subseteq file.walMay[j]
    BY <1>6
  <2> QED
    BY <2>1, <2>2, LogOverKept
<1>21. MediumInv(g, b, K1)'
  <2>1. K1 > 0 => /\ Chained(file.wal, g, K1) /\ file.wal[K1].commit
                  /\ \A j \in 1 .. K1 : file'.walMay[j] = {file.wal[j]}
                  /\ file.wal[K1].txn >= states'.floor
    <3>1. CASE SyncCommit
      <4>1. \A j \in 1 .. n : j \in Frames
        BY <1>9, Constants DEF Frames
      <4> QED
        BY <1>4, <1>5, <1>8, <1>9, <1>10, <1>17, <3>1, <4>1
    <3>2. CASE ~SyncCommit
      BY <1>2, <1>4, <1>5, <1>17, <3>2 DEF MediumInv
    <3> QED
      BY <3>1, <3>2
  <2>2. K1 = 0 => b >= states'.floor
    BY <1>2, <1>4, <1>9, <1>17 DEF MediumInv
  <2>3. \A p \in Page : NoneOf(file.wal, p, 1, K1) => file.dbMay[p] = {states.db[b][p]}
    <3>1. \A p \in Page : NoneOf(file.wal, p, 1, K1) => NoneOf(file.wal, p, 1, K)
      BY <1>9, <1>18 DEF NoneOf
    <3> QED
      BY <1>2, <3>1 DEF MediumInv
  <2>4. b <= txn /\ Real(states.db, b)
    BY <1>2 DEF MediumInv
  <2> QED
    BY <1>4, <1>5, <1>8, <1>10, <1>20, <2>1, <2>2, <2>3, <2>4 DEF MediumInv
<1>22. HdrInv(g, K1)'
  <2>1. /\ txn <= txn /\ txn >= states'.floor /\ info.nBackfill <= n /\ info.nBackfill # n /\ n # 0
    BY <1>8, <1>9, <1>11, <1>18, <1>2, <1>4
  <2>2. \A p \in Page : NoneOf(file.wal, p, info.nBackfill + 1, n) => file.db[p] = states.db[txn][p]
    BY <1>9, <1>16
  <2> QED
    BY <1>4, <1>5, <1>7, <1>8, <1>10, <1>12, <1>13, <1>18, <2>1, <2>2 DEF HdrInv
<1>23. DownInv' /\ NobodyCopies'
  BY <1>2, <1>4 DEF DownInv, NobodyCopies
<1>24. \A d \in Connection :
          conn[d].pc # "idle" => conn[d].hdr.txn <= txn /\ conn[d].hdr.txn # txn
  <2>1. \A d \in Connection :
           conn[d].pc # "idle" => conn[d].hdr.txn \in Nat /\ conn[d].hdr.txn <= hdr.txn
    BY <1>2, ConnIs DEF PlaceInv
  <2> QED
    BY <1>8, <1>9, <2>1
<1>25. \A d \in Connection : PlaceInv(d)'
  <2>1. ASSUME NEW d \in Connection \ {c} PROVE PlaceInv(d)'
    BY <1>2, <1>4, <1>7, <1>24, <2>1, Constants DEF PlaceInv
  <2>2. PlaceInv(c)'
    <3>1. conn[c].readLock >= 0 /\ txn <= txn
      BY <1>2, <1>7, <1>9, ConnIs
    <3> QED
      BY <1>2, <1>4, <1>7, <3>1 DEF PlaceInv
  <2> QED
    BY <2>1, <2>2
<1>26. \A d \in Connection \ {c} : SnapFrame(d)' = SnapFrame(d) /\ (Checked(d)' <=> Checked(d))
  BY <1>2, <1>4, <1>7 DEF SnapFrame, Checked, PlaceInv
<1>27. SnapFrame(c) = hdr.mxFrame /\ SnapFrame(c)' = n /\ Checked(c) /\ Checked(c)'
  BY <1>4 DEF SnapFrame, Checked
<1>28. \A d \in Connection : ReaderInv(d)'
  <2>1. ASSUME NEW d \in Connection \ {c} PROVE ReaderInv(d)'
    <3>1. conn[d].readLock = 0 => conn[d].hdr # hdr'
      BY <1>2, <1>4, <1>24 DEF PlaceInv
    <3>2. conn[d].readLock > 0 /\ Checked(d) => SnapFrame(d) <= n
      <4>1. SnapFrame(d) \in Nat
        BY <1>2, ConnIs, Numbers DEF SnapFrame
      <4>2. conn[d].readLock > 0 /\ Checked(d) => SnapFrame(d) <= hdr.mxFrame
        BY <1>2 DEF ReaderInv
      <4> QED
        BY <1>8, <1>9, <4>1, <4>2
    <3> QED
      BY <1>2, <1>4, <1>5, <1>26, <3>1, <3>2 DEF ReaderInv
  <2>2. ReaderInv(c)'
    <3>1. /\ conn[c].minFrame <= info.nBackfill + 1 /\ conn[c].minFrame \in Nat /\ conn[c].minFrame > 0
          /\ info.aReadMark[conn[c].readLock] <= hdr.mxFrame
      BY <1>2, <1>7, <1>27, ConnIs DEF ReaderInv
    <3>2. info.aReadMark[conn[c].readLock] <= n
      <4>1. conn[c].readLock \in Slot
        BY <1>2, <1>7, ConnIs, Constants DEF Slot
      <4>2. info.aReadMark[conn[c].readLock] \in Nat
        BY <1>2, <4>1, Constants DEF Types, Info, READMARK_NOT_USED
      <4> QED
        BY <1>8, <1>9, <3>1, <4>2
    <3>3. \A p \in Page : NoneOf(file.wal, p, conn[c].minFrame, n) => file.db[p] = states.db[txn][p]
      BY <1>16, <3>1
    <3>4. ASSUME NEW p \in Page, NEW k \in Frames, LastIs(file.wal, p, conn[c].minFrame, n, k)
          PROVE  file.wal[k].txn = states.db[txn][p]
      <4>1. k \in 1 .. n /\ LastIs(file.wal, p, 1, n, k)
        BY <1>9, <3>1, <3>4 DEF LastIs
      <4> QED
        BY <1>13, <4>1 DEF Seals
    <3>5. conn[c].readLock # 0 /\ n <= n
      BY <1>2, <1>7, <1>9, ConnIs
    <3> QED
      BY <1>4, <1>5, <1>7, <1>27, <3>1, <3>2, <3>3, <3>4, <3>5 DEF ReaderInv
  <2> QED
    BY <2>1, <2>2
<1>29. \A d \in Connection : WriterInv(d, g, b, K1)'
  <2>1. \A d \in Connection : locks'.write # d /\ conn'[d].pc \notin {"frames", "sealed"}
    BY <1>2, <1>4, <1>7, Constants DEF PlaceInv
  <2> QED
    BY <2>1 DEF WriterInv
<1>30. \A d \in Connection : CkptInv(d, K1)'
  <2> SUFFICES ASSUME NEW d \in Connection, locks.ckpt = d PROVE CkptInv(d, K1)'
    BY <1>4 DEF CkptInv
  <2>1. conn'[d] = conn[d] /\ CkptInv(d, K) /\ d # c
    BY <1>2, <1>4, <1>7
  <2>2. /\ conn[d].hdr.mxFrame \in Nat /\ ckpt.mxSafeFrame \in Nat
    BY <1>2, ConnIs, Numbers
  <2>3. ckpt.step \in {"compare", "marks", "copy"} =>
           ckpt.mxSafeFrame <= conn[d].hdr.mxFrame /\ conn[d].hdr.mxFrame <= n /\ ckpt.mxSafeFrame <= n
    <3>1. ckpt.step \in {"compare", "marks", "copy"} =>
             ckpt.mxSafeFrame <= conn[d].hdr.mxFrame /\ conn[d].hdr.mxFrame <= hdr.mxFrame
      BY <2>1 DEF CkptInv
    <3> QED
      BY <1>8, <1>9, <2>2, <3>1
  <2>4. ckpt.step = "copy" => ckpt.mxSafeFrame <= K1
    <3>1. ckpt.step = "copy" => ckpt.mxSafeFrame <= K
      BY <2>1 DEF CkptInv
    <3> QED
      BY <1>9, <1>18, <2>2, <3>1
  <2>5. ASSUME NEW e \in Connection, ckpt.step \in {"marks", "copy"}, Checked(e)', conn'[e].readLock > 0,
               conn'[e].readLock < ckpt.slot
        PROVE  ckpt.mxSafeFrame <= SnapFrame(e)'
    <3>1. CASE e = c
      BY <1>27, <2>3, <2>5, <3>1
    <3>2. CASE e # c
      BY <1>4, <1>26, <2>1, <2>5, <3>2 DEF CkptInv
    <3> QED
      BY <3>1, <3>2
  <2> QED
    BY <1>4, <1>5, <2>1, <2>3, <2>4, <2>5 DEF CkptInv, IsLast
<1>31. LogInv(g, b, K1)'
  BY <1>21, <1>22, <1>29, <1>30 DEF LogInv
<1> QED
  BY <1>19, <1>23, <1>25, <1>28, <1>31 DEF IInv

LEMMA SealsSame ==
    ASSUME NEW d, NEW e, NEW w, NEW i, NEW b, NEW t, Seals(d, w, i, b, t), e[t] = d[t], e[b] = d[b]
    PROVE  Seals(e, w, i, b, t)
BY DEF Seals

LEMMA RealSame == ASSUME NEW d, NEW e, NEW t, Real(d, t), e[t] = d[t] PROVE Real(e, t)
BY DEF Real

\* What the writer c knows of its log before it appends a frame.
LEMMA Appending ==
    ASSUME IInv, NEW c \in Connection, NEW g \in 0 .. MaxSalt, NEW b \in 0 .. MaxTxn,
           NEW K \in 0 .. MaxFrame, LogInv(g, b, K),
           \/ conn[c].pc = "frames"
           \/ conn[c].pc = "write" /\ conn[c].readLock > 0 /\ conn[c].hdr.mxFrame > 0
    PROVE  /\ locks.write = c /\ locks.ckpt # c /\ hdr.isInit /\ conn[c].readLock > 0
           /\ hdr.txn < txn /\ hdr.mxFrame <= conn[c].hdr.mxFrame /\ conn[c].hdr.txn = hdr.txn
           /\ g # 0 /\ conn[c].hdr.aSalt = g /\ file.saltMay = {g}
           /\ hdr.mxFrame = 0 => b = hdr.txn /\ K = 0
           /\ Chained(file.wal, g, conn[c].hdr.mxFrame)
           /\ \A j \in hdr.mxFrame + 1 .. conn[c].hdr.mxFrame :
                 file.wal[j].txn = txn /\ info.aPgno[j] = file.wal[j].pgno
           /\ \A j \in Frames : \A x \in file.walMay[j] : x.txn = txn =>
                 hdr.mxFrame < j /\ j <= conn[c].hdr.mxFrame /\ ~x.commit
           /\ K <= hdr.mxFrame /\ b <= hdr.txn
           /\ Seals(states.db, file.wal, hdr.mxFrame, b, hdr.txn)
<1>1. /\ Types /\ FrameInv /\ MediumInv(g, b, K) /\ HdrInv(g, K) /\ PlaceInv(c) /\ WriterInv(c, g, b, K)
  BY DEF IInv, LogInv
<1>2. locks.write = c /\ locks.ckpt # c /\ hdr.isInit /\ conn[c].readLock > 0
  BY <1>1 DEF PlaceInv
<1>3. /\ hdr.mxFrame \in Nat /\ hdr.txn \in Nat /\ hdr.txn <= hdr.txn
  BY <1>1, Numbers
<1>4. /\ hdr.txn < txn
      /\ \A j \in Frames : \A x \in file.walMay[j] : x.txn = txn =>
                 hdr.mxFrame < j /\ j <= conn[c].hdr.mxFrame /\ ~x.commit
  BY <1>1, <1>2 DEF WriterInv
<1>5. hdr.mxFrame > 0 =>
         /\ Seals(states.db, file.wal, hdr.mxFrame, b, hdr.txn) /\ hdr.txn >= b
         /\ g # 0 /\ hdr.aSalt = g /\ file.saltMay = {g} /\ K <= hdr.mxFrame
         /\ Chained(file.wal, g, hdr.mxFrame)
  BY <1>1, <1>2, CommittedLog
<1>6. /\ hdr.mxFrame <= conn[c].hdr.mxFrame /\ conn[c].hdr.txn = hdr.txn
      /\ g # 0 /\ conn[c].hdr.aSalt = g /\ file.saltMay = {g}
      /\ hdr.mxFrame = 0 => b = hdr.txn /\ K = 0
      /\ Chained(file.wal, g, conn[c].hdr.mxFrame)
      /\ \A j \in hdr.mxFrame + 1 .. conn[c].hdr.mxFrame :
            file.wal[j].txn = txn /\ info.aPgno[j] = file.wal[j].pgno
  <2>1. CASE conn[c].pc = "frames"
    BY <1>1, <2>1 DEF WriterInv
  <2>2. CASE conn[c].pc = "write" /\ conn[c].hdr.mxFrame > 0
    <3>1. conn[c].hdr = hdr /\ hdr.mxFrame > 0
      BY <1>1, <1>2, <2>2 DEF WriterInv
    <3> QED
      BY <1>3, <1>5, <3>1
  <2> QED
    BY <2>1, <2>2
<1>7. Seals(states.db, file.wal, hdr.mxFrame, b, hdr.txn) /\ K <= hdr.mxFrame /\ b <= hdr.txn
  <2>1. CASE hdr.mxFrame = 0
    BY <1>3, <1>6, <2>1, SealsItself
  <2>2. CASE hdr.mxFrame > 0
    BY <1>3, <1>5, <2>2
  <2> QED
    BY <1>3, <2>1, <2>2
<1> QED
  BY <1>2, <1>4, <1>6, <1>7

LEMMA AppendFrameStep ==
    ASSUME IInv, NEW c \in Connection, NEW p \in Page, NEW commit \in BOOLEAN,
           AppendFrame(c, p, commit), Types'
    PROVE  IInv'
<1>1. PICK g \in 0 .. MaxSalt, b \in 0 .. MaxTxn, K \in 0 .. MaxFrame : LogInv(g, b, K)
  BY DEF IInv
<1>2. /\ Types /\ FrameInv /\ NobodyCopies /\ MediumInv(g, b, K) /\ HdrInv(g, K)
      /\ \A d \in Connection : PlaceInv(d) /\ ReaderInv(d) /\ WriterInv(d, g, b, K) /\ CkptInv(d, K)
  BY <1>1 DEF IInv, LogInv
<1>3. PICK n \in Nat, i \in Nat : n = conn[c].hdr.mxFrame /\ i = n + 1
  BY <1>2, ConnIs
<1>4. PICK x : x = NewFrame(c, p, commit)
  OBVIOUS
<1>5. /\ \/ conn[c].pc = "frames"
         \/ conn[c].pc = "write" /\ conn[c].readLock > 0 /\ i > 1
      /\ i <= MaxFrame
      /\ file' = WriteFrame(file, i, x)
      /\ info' = [info EXCEPT !.aPgno = Appended(i, p)]
      /\ conn' = [conn EXCEPT ![c].pc = IF commit THEN "sealed" ELSE "frames",
                              ![c].hdr.mxFrame = i]
      /\ states' = IF ~commit THEN states ELSE
            [states EXCEPT !.db[txn] = [q \in Page |-> IF q \in Written(c) \cup {p} THEN txn
                                                       ELSE states.db[hdr.txn][q]]]
      /\ UNCHANGED <<hdr, locks, ckpt, salts, txn, crashes>>
  BY <1>3, <1>4 DEF AppendFrame
<1>6. n > 0 \/ conn[c].pc = "frames"
  BY <1>3, <1>5
<1>7. /\ locks.write = c /\ locks.ckpt # c /\ hdr.isInit /\ conn[c].readLock > 0
      /\ hdr.txn < txn /\ hdr.mxFrame <= n /\ conn[c].hdr.txn = hdr.txn
      /\ g # 0 /\ conn[c].hdr.aSalt = g /\ file.saltMay = {g}
      /\ hdr.mxFrame = 0 => b = hdr.txn /\ K = 0
      /\ Chained(file.wal, g, n)
      /\ \A j \in hdr.mxFrame + 1 .. n : file.wal[j].txn = txn /\ info.aPgno[j] = file.wal[j].pgno
      /\ \A j \in Frames : \A y \in file.walMay[j] : y.txn = txn => hdr.mxFrame < j /\ j <= n /\ ~y.commit
      /\ K <= hdr.mxFrame /\ b <= hdr.txn
      /\ Seals(states.db, file.wal, hdr.mxFrame, b, hdr.txn)
  BY <1>1, <1>3, <1>5, <1>6, Appending
<1>8. /\ x.pgno = p /\ x.txn = txn /\ x.commit = commit /\ x.aSalt = g
      /\ x.prev = (IF n = 0 THEN 0 ELSE file.wal[n].txn)
  BY <1>3, <1>4, <1>7 DEF NewFrame
<1>9. /\ hdr.mxFrame \in Nat /\ hdr.txn \in Nat /\ txn \in Nat /\ txn \in 0 .. MaxTxn /\ i \in Frames
      /\ (n > 0 => n \in Frames) /\ info.nBackfill \in Nat /\ hdr.txn \in 0 .. MaxTxn
      /\ i = n + 1 /\ n \in Nat /\ MaxFrame \in Nat
  BY <1>2, <1>3, <1>5, Numbers DEF Frames
<1>10. /\ file'.wal[i] = x /\ file'.walMay[i] = file.walMay[i] \cup {x}
       /\ \A j \in Frames : j # i => file'.wal[j] = file.wal[j] /\ file'.walMay[j] = file.walMay[j]
       /\ file'.db = file.db /\ file'.dbMay = file.dbMay /\ file'.aSalt = file.aSalt
       /\ file'.saltMay = file.saltMay
  BY <1>2, <1>5, <1>9 DEF WriteFrame, Types, Files
<1>11. /\ info'.nBackfill = info.nBackfill /\ info'.aReadMark = info.aReadMark
       /\ info'.aPgno[i] = p
       /\ \A j \in 1 .. n : info'.aPgno[j] = info.aPgno[j]
  <2>1. /\ info'.nBackfill = info.nBackfill /\ info'.aReadMark = info.aReadMark
        /\ info'.aPgno = Appended(i, p)
    BY <1>2, <1>5 DEF Types, Info
  <2>2. \A j \in 1 .. n : j \in Frames /\ j # i /\ ~(j > i \/ i = 1)
    BY <1>3, <1>5, <1>9 DEF Frames
  <2> QED
    BY <1>9, <2>1, <2>2 DEF Appended
<1>12. /\ conn'[c].pc = (IF commit THEN "sealed" ELSE "frames")
       /\ conn'[c].hdr.mxFrame = i /\ conn'[c].hdr.txn = hdr.txn /\ conn'[c].hdr.aSalt = g
       /\ conn'[c].readLock = conn[c].readLock /\ conn'[c].minFrame = conn[c].minFrame
       /\ \A d \in Connection \ {c} : conn'[d] = conn[d]
  BY <1>2, <1>5, <1>7 DEF Types, Conn, WalIndexHdr
<1>13. /\ states'.floor = states.floor
       /\ \A t \in 0 .. MaxTxn : t # txn => states'.db[t] = states.db[t]
       /\ commit => \A q \in Page :
             states'.db[txn][q] = IF q \in Written(c) \cup {p} THEN txn ELSE states.db[hdr.txn][q]
  <2>1. states \in States /\ states.db \in [0 .. MaxTxn -> [Page -> 0 .. MaxTxn]]
    BY <1>2 DEF Types, States
  <2> DEFINE new == [q \in Page |-> IF q \in Written(c) \cup {p} THEN txn ELSE states.db[hdr.txn][q]]
  <2>2. states' = IF ~commit THEN states ELSE [states EXCEPT !.db[txn] = new]
    BY <1>5
  <2>3. \A q \in Page : new[q] = IF q \in Written(c) \cup {p} THEN txn ELSE states.db[hdr.txn][q]
    OBVIOUS
  <2> HIDE DEF new
  <2>4. /\ states'.floor = states.floor
        /\ \A t \in 0 .. MaxTxn : t # txn => states'.db[t] = states.db[t]
        /\ commit => states'.db[txn] = new
    BY <1>9, <2>1, <2>2 DEF States
  <2> QED
    BY <2>3, <2>4
<1> HIDE DEF AppendFrame
<1>12a. /\ conn'[c].pc \in {"frames", "sealed"} /\ (conn'[c].pc = "sealed" => commit) /\ (conn'[c].pc # "sealed" => ~commit)
        /\ conn'[c].hdr.mxFrame = i /\ conn'[c].hdr.txn = hdr.txn /\ conn'[c].hdr.aSalt = g
        /\ conn'[c].readLock = conn[c].readLock /\ conn'[c].minFrame = conn[c].minFrame
  BY <1>12
<1>12b. \A d \in Connection \ {c} : conn'[d] = conn[d]
  BY <1>12
<1>5a. UNCHANGED <<hdr, locks, ckpt, salts, txn, crashes>>
  BY <1>5
<1>14. \A j \in 1 .. hdr.mxFrame : j \in Frames /\ j \in 1 .. n /\ j # i
  BY <1>7, <1>9 DEF Frames
<1>15. \A j \in 1 .. n : j \in Frames /\ j # i /\ file'.wal[j] = file.wal[j]
  BY <1>7, <1>9, <1>10 DEF Frames
<1>16. \A j \in Frames : \A y \in file'.walMay[j] : y \in file.walMay[j] \/ (j = i /\ y = x)
  BY <1>10
<1>17. \A j \in Frames : \A y \in file.walMay[j] : y.txn \in Nat /\ y.prev \in Nat /\ y.txn <= txn /\ y.prev <= y.txn
  BY <1>2, FilesAre DEF FrameInv
<1>18. \A y \in file.walMay[i] : y.txn # txn
  BY <1>7, <1>9
<1>19. FrameInv'
  <2>1. \A j \in Frames : file'.wal[j] \in file'.walMay[j]
    BY <1>2, <1>10 DEF FrameInv
  <2>2. x.txn <= txn /\ x.prev <= x.txn /\ x.aSalt <= salts
    <3>1. conn[c].hdr.aSalt <= salts
      BY <1>2 DEF PlaceInv
    <3>2. n > 0 => file.wal[n].txn <= txn
      BY <1>2, <1>9 DEF FrameInv
    <3> QED
      BY <1>7, <1>8, <1>9, <3>1, <3>2
  <2>3. \A j \in Frames : \A y \in file'.walMay[j] : y.txn <= txn /\ y.prev <= y.txn /\ y.aSalt <= salts
    BY <1>2, <1>16, <2>2 DEF FrameInv
  <2>4. \A j \in Frames : \A y, z \in file'.walMay[j] : y.txn = z.txn /\ y.aSalt = z.aSalt => y = z
    <3> SUFFICES ASSUME NEW j \in Frames, NEW y \in file'.walMay[j], NEW z \in file'.walMay[j],
                        y.txn = z.txn, y.aSalt = z.aSalt
                 PROVE  y = z
      OBVIOUS
    <3>1. y \in file.walMay[j] \/ (j = i /\ y = x)
      BY <1>16
    <3>2. z \in file.walMay[j] \/ (j = i /\ z = x)
      BY <1>16
    <3>3. y \in file.walMay[j] /\ z \in file.walMay[j] => y = z
      BY <1>2 DEF FrameInv
    <3> QED
      BY <1>8, <1>18, <3>1, <3>2, <3>3
  <2>5. \A t \in 0 .. MaxTxn : t = 0 \/ t > txn => states'.db[t] = [q \in Page |-> 0]
    <3>1. \A t \in 0 .. MaxTxn : t = 0 \/ t > txn => t # txn
      BY <1>7, <1>9
    <3> QED
      BY <1>2, <1>13, <3>1 DEF FrameInv
  <2>6. /\ file'.aSalt \in file'.saltMay /\ \A s \in file'.saltMay : s <= salts
        /\ \A q \in Page : file'.db[q] \in file'.dbMay[q]
    BY <1>2, <1>10 DEF FrameInv
  <2> QED
    BY <1>5, <2>1, <2>3, <2>4, <2>5, <2>6 DEF FrameInv
\* A log without the new frame says what it said.
<1>20. ASSUME NEW a \in Nat, a # 0, NEW t \in 0 .. MaxTxn, t <= hdr.txn, LogOver(file, states.db, a, t),
              NEW w \in [Frames -> Frame], NEW k \in Frames, Valid(file', w, a, k), w[k].commit,
              \A j \in 1 .. k : w[j] \in file.walMay[j]
       PROVE  Seals(states'.db, w, k, t, w[k].txn) /\ w[k].txn >= t /\ Real(states'.db, w[k].txn)
  <2>1. Valid(file, w, a, k)
    BY <1>20 DEF Valid
  <2>2. Seals(states.db, w, k, t, w[k].txn) /\ w[k].txn >= t /\ Real(states.db, w[k].txn)
    BY <1>20, <2>1 DEF LogOver
  <2>3. w[k] \in file.walMay[k] /\ w[k].txn # txn
    <3>1. w[k] \in file.walMay[k]
      BY <1>20 DEF Frames
    <3> QED
      BY <1>7, <1>20, <3>1
  <2>4. states'.db[w[k].txn] = states.db[w[k].txn] /\ states'.db[t] = states.db[t]
    <3>1. w[k].txn \in 0 .. MaxTxn
      BY <1>2, <1>20, <2>3, FilesAre
    <3>2. t # txn
      BY <1>7, <1>9, <1>20
    <3> QED
      BY <1>13, <2>3, <3>1, <3>2
  <2> QED
    BY <2>2, <2>4, SealsSame, RealSame
<1>21. Chained(file'.wal, g, i)
  <2>1. ASSUME NEW j \in 1 .. i PROVE file'.wal[j].aSalt = g /\ file'.wal[j].prev = IF j = 1 THEN 0 ELSE file'.wal[j - 1].txn
    <3>1. CASE j = i
      BY <1>8, <1>9, <1>10, <1>15, <3>1
    <3>2. CASE j # i
      <4>1. j \in 1 .. n /\ (j # 1 => j - 1 \in 1 .. n)
        BY <1>9, <2>1, <3>2
      <4> QED
        BY <1>7, <1>15, <4>1 DEF Chained
    <3> QED
      BY <3>1, <3>2
  <2> QED
    BY <2>1 DEF Chained
<1>22. \A q \in Page : q \in Written(c) <=> \E j \in hdr.mxFrame + 1 .. n : file.wal[j].pgno = q
  BY <1>3, <1>7 DEF Written
\* One with it is the log that the writer has made.
<1>23. ASSUME NEW w \in [Frames -> Frame], NEW k \in Frames, Valid(file', w, g, k), w[k].commit,
              ~\A j \in 1 .. k : w[j] \in file.walMay[j]
       PROVE  Seals(states'.db, w, k, b, w[k].txn) /\ w[k].txn >= b /\ Real(states'.db, w[k].txn)
  <2>1. i \in 1 .. k /\ w[i] = x
    <3>1. PICK j \in 1 .. k : w[j] \notin file.walMay[j]
      BY <1>23
    <3>2. j \in Frames /\ w[j] \in file'.walMay[j]
      BY <1>9, <1>23 DEF Frames, Valid
    <3> QED
      BY <1>16, <3>1, <3>2
  <2>2. k = i
    <3> SUFFICES ASSUME k # i PROVE FALSE
      OBVIOUS
    <3>1. i + 1 \in 1 .. k /\ i + 1 \in Frames /\ i + 1 # i /\ i + 1 # 1 /\ i + 1 - 1 = i /\ ~(i + 1 <= n)
      BY <1>9, <2>1 DEF Frames
    <3>2. w[i + 1] \in file'.walMay[i + 1] /\ w[i + 1].prev = w[i].txn
      BY <1>23, <3>1 DEF Valid, Chained
    <3>3. w[i + 1] \in file.walMay[i + 1] /\ w[i + 1].prev = txn
      BY <1>8, <1>16, <2>1, <3>1, <3>2
    <3>4. w[i + 1].txn = txn
      BY <1>9, <1>17, <3>1, <3>3
    <3> QED
      BY <1>7, <3>1, <3>3, <3>4
  <2>3. commit /\ w[k].txn = txn
    BY <1>8, <1>23, <2>1, <2>2
  <2>4. \A j \in 1 .. i : w[j] = file'.wal[j]
    <3>1. \A j \in 1 .. i : j \in Frames
      BY <1>9 DEF Frames
    <3>2. Valid(file', file'.wal, g, i)
      BY <1>19, <1>21, <3>1 DEF Valid, FrameInv
    <3>3. \A j \in Frames : \A y, z \in file'.walMay[j] : y.txn = z.txn /\ y.aSalt = z.aSalt => y = z
      BY <1>19 DEF FrameInv
    <3>4. Valid(file', w, g, i) /\ w[i] = file'.wal[i]
      BY <1>10, <1>23, <2>1, <2>2
    <3> QED
      BY <1>9, <3>2, <3>3, <3>4, Determined
  <2>5. \A j \in 1 .. n : w[j] = file.wal[j]
    BY <1>9, <1>15, <2>4
  <2>6. states'.db[b] = states.db[b]
    BY <1>7, <1>9, <1>13
  <2>7. ASSUME NEW q \in Page, q # p, NoneOf(w, q, hdr.mxFrame + 1, n)
        PROVE  states'.db[txn][q] = states.db[hdr.txn][q]
    <3>1. q \notin Written(c)
      <4>1. \A j \in hdr.mxFrame + 1 .. n : j \in 1 .. n
        BY <1>9
      <4> QED
        BY <1>22, <2>5, <2>7, <4>1 DEF NoneOf
    <3> QED
      BY <1>13, <2>3, <2>7, <3>1
  <2>8. ASSUME NEW q \in Page, NEW m \in 1 .. i, LastIs(w, q, 1, i, m)
        PROVE  states'.db[txn][q] = w[m].txn
    <3>1. CASE m = i
      BY <1>8, <1>13, <2>1, <2>3, <2>8, <3>1 DEF LastIs
    <3>2. CASE m \in hdr.mxFrame + 1 .. n
      <4>1. m \in 1 .. n
        BY <1>9, <3>2
      <4>2. q \in Written(c) /\ w[m].txn = txn
        BY <1>7, <1>22, <2>5, <2>8, <3>2, <4>1 DEF LastIs
      <4> QED
        BY <1>13, <2>3, <4>2
    <3>3. CASE m \in 1 .. hdr.mxFrame
      <4>1. /\ \A j \in hdr.mxFrame + 1 .. n : j \in m + 1 .. i
            /\ \A j \in m + 1 .. hdr.mxFrame : j \in m + 1 .. i /\ j \in 1 .. n
            /\ i \in m + 1 .. i /\ m \in 1 .. n
        BY <1>7, <1>9, <3>3
      <4>2. q # p /\ NoneOf(w, q, hdr.mxFrame + 1, n)
        BY <1>8, <2>1, <2>8, <4>1 DEF LastIs, NoneOf
      <4>3. LastIs(file.wal, q, 1, hdr.mxFrame, m)
        BY <2>5, <2>8, <3>3, <4>1 DEF LastIs, NoneOf
      <4> QED
        BY <1>7, <2>5, <2>7, <3>3, <4>1, <4>2, <4>3 DEF Seals
    <3> QED
      BY <1>9, <2>8, <3>1, <3>2, <3>3
  <2>9. ASSUME NEW q \in Page, NoneOf(w, q, 1, i)
        PROVE  states'.db[txn][q] = states'.db[b][q]
    <3>1. /\ \A j \in hdr.mxFrame + 1 .. n : j \in 1 .. i
          /\ \A j \in 1 .. hdr.mxFrame : j \in 1 .. i /\ j \in 1 .. n
          /\ i \in 1 .. i
      BY <1>7, <1>9
    <3>2. q # p /\ NoneOf(w, q, hdr.mxFrame + 1, n) /\ NoneOf(file.wal, q, 1, hdr.mxFrame)
      BY <1>8, <2>1, <2>5, <2>9, <3>1 DEF NoneOf
    <3> QED
      BY <1>7, <2>6, <2>7, <3>2 DEF Seals
  <2>10. Seals(states'.db, w, i, b, txn)
    BY <2>8, <2>9 DEF Seals
  <2>11. Real(states'.db, txn)
    <3>1. p \in Written(c) \cup {p} /\ txn # 0
      BY <1>7, <1>9
    <3> QED
      BY <1>13, <2>3, <3>1 DEF Real
  <2> QED
    BY <1>7, <1>9, <2>2, <2>3, <2>10, <2>11
<1>24. LogOver(file', states'.db, g, b)
  <2>1. LogOver(file, states.db, g, b)
    BY <1>2 DEF MediumInv
  <2> QED
    BY <1>7, <1>20, <1>23, <2>1 DEF LogOver
<1>25. hdr.mxFrame = 0 => LogOver(file', states'.db, hdr.aSalt, hdr.txn)
  <2> SUFFICES ASSUME hdr.mxFrame = 0, hdr.aSalt # 0, hdr.aSalt # g
               PROVE  LogOver(file', states'.db, hdr.aSalt, hdr.txn)
    BY <1>7, <1>24 DEF LogOver
  <2>1. LogOver(file, states.db, hdr.aSalt, hdr.txn) /\ hdr.aSalt \in Nat /\ hdr.txn <= hdr.txn
    BY <1>2, <1>7, Numbers DEF HdrInv
  <2>2. ASSUME NEW w \in [Frames -> Frame], NEW k \in Frames, Valid(file', w, hdr.aSalt, k)
        PROVE  \A j \in 1 .. k : w[j] \in file.walMay[j]
    <3>1. \A j \in 1 .. k : j \in Frames /\ w[j] \in file'.walMay[j] /\ w[j].aSalt = hdr.aSalt
      BY <1>9, <2>2 DEF Frames, Valid, Chained
    <3> QED
      BY <1>8, <1>16, <3>1
  <2>3. \A a \in Nat, t \in 0 .. MaxTxn : a = hdr.aSalt /\ t = hdr.txn => LogOver(file', states'.db, a, t)
    BY <1>20, <2>1, <2>2 DEF LogOver
  <2> QED
    BY <1>9, <2>1, <2>3
<1>26. \A j \in 1 .. hdr.mxFrame : file'.wal[j] = file.wal[j]
  BY <1>14, <1>15
<1>27. \A q \in Page, lo \in Nat, hi \in Nat :
          lo > 0 /\ hi <= hdr.mxFrame => (NoneOf(file'.wal, q, lo, hi) <=> NoneOf(file.wal, q, lo, hi))
  BY <1>9, <1>26 DEF NoneOf
<1>28. MediumInv(g, b, K)'
  <2>1. K > 0 => /\ Chained(file'.wal, g, K) /\ file'.wal[K].commit
                 /\ \A j \in 1 .. K : file'.walMay[j] = {file'.wal[j]}
                 /\ file'.wal[K].txn >= states.floor
    <3>1. \A j \in 1 .. K : j \in 1 .. hdr.mxFrame /\ (j # 1 => j - 1 \in 1 .. K)
      BY <1>7, <1>9
    <3>2. \A j \in 1 .. K : file'.wal[j] = file.wal[j] /\ file'.walMay[j] = file.walMay[j]
      BY <1>10, <1>14, <3>1
    <3>3. K > 0 => /\ Chained(file.wal, g, K) /\ file.wal[K].commit
                   /\ \A j \in 1 .. K : file.walMay[j] = {file.wal[j]}
                   /\ file.wal[K].txn >= states.floor
      BY <1>2 DEF MediumInv
    <3>4. K > 0 => K \in 1 .. K
      OBVIOUS
    <3>5. Chained(file.wal, g, K) => Chained(file'.wal, g, K)
      BY <3>1, <3>2 DEF Chained
    <3> QED
      BY <3>2, <3>3, <3>4, <3>5
  <2>2. \A q \in Page : NoneOf(file'.wal, q, 1, K) => file.dbMay[q] = {states'.db[b][q]}
    <3>1. states'.db[b] = states.db[b]
      BY <1>7, <1>9, <1>13
    <3> QED
      BY <1>2, <1>7, <1>27, <3>1 DEF MediumInv
  <2>3. Real(states'.db, b)
    <3>1. states'.db[b] = states.db[b] /\ Real(states.db, b)
      BY <1>2, <1>7, <1>9, <1>13 DEF MediumInv
    <3> QED
      BY <3>1, RealSame
  <2> QED
    BY <1>2, <1>5a, <1>7, <1>10, <1>13, <1>24, <2>1, <2>2, <2>3 DEF MediumInv
<1>29. states'.db[hdr.txn] = states.db[hdr.txn]
  BY <1>7, <1>9, <1>13
<1>30. HdrInv(g, K)'
  <2>1. Real(states'.db, hdr.txn)
    BY <1>2, <1>7, <1>29, RealSame DEF HdrInv
  <2>2. hdr.mxFrame > 0 =>
           /\ hdr.aSalt = g /\ Chained(file'.wal, g, hdr.mxFrame)
           /\ file'.wal[hdr.mxFrame].commit /\ file'.wal[hdr.mxFrame].txn = hdr.txn
           /\ \A j \in 1 .. hdr.mxFrame : info'.aPgno[j] = file'.wal[j].pgno
    <3>1. hdr.mxFrame > 0 =>
           /\ hdr.aSalt = g /\ Chained(file.wal, g, hdr.mxFrame)
           /\ file.wal[hdr.mxFrame].commit /\ file.wal[hdr.mxFrame].txn = hdr.txn
           /\ \A j \in 1 .. hdr.mxFrame : info.aPgno[j] = file.wal[j].pgno
      BY <1>2, <1>7 DEF HdrInv
    <3>2. \A j \in 1 .. hdr.mxFrame : j # 1 => j - 1 \in 1 .. hdr.mxFrame
      BY <1>9
    <3>3. Chained(file.wal, g, hdr.mxFrame) => Chained(file'.wal, g, hdr.mxFrame)
      BY <1>26, <3>2 DEF Chained
    <3>4. hdr.mxFrame > 0 => hdr.mxFrame \in 1 .. hdr.mxFrame
      BY <1>9
    <3> QED
      BY <1>11, <1>14, <1>26, <3>1, <3>3, <3>4
  <2>3. info.nBackfill = hdr.mxFrame => Whole(file', states'.db, hdr.txn)
    <3>1. info.nBackfill = hdr.mxFrame => Whole(file, states.db, hdr.txn)
      BY <1>2, <1>7 DEF HdrInv
    <3> QED
      BY <1>10, <1>29, <3>1 DEF Whole
  <2>4. \A q \in Page : NoneOf(file'.wal, q, info.nBackfill + 1, hdr.mxFrame) =>
           file.db[q] = states'.db[hdr.txn][q]
    <3>1. info.nBackfill + 1 \in Nat /\ info.nBackfill + 1 > 0 /\ hdr.mxFrame <= hdr.mxFrame
      BY <1>9
    <3> QED
      BY <1>2, <1>7, <1>9, <1>27, <1>29, <3>1 DEF HdrInv
  <2> QED
    BY <1>2, <1>5a, <1>7, <1>10, <1>11, <1>13, <1>25, <2>1, <2>2, <2>3, <2>4 DEF HdrInv
<1>31. DownInv' /\ NobodyCopies'
  BY <1>2, <1>5a, <1>7 DEF DownInv, NobodyCopies
<1>32. \A d \in Connection : conn'[d].readLock = conn[d].readLock /\ conn'[d].minFrame = conn[d].minFrame
  BY <1>12a, <1>12b
<1>33. \A d \in Connection :
          SnapFrame(d)' = SnapFrame(d) /\ (Checked(d)' <=> Checked(d)) /\ conn'[d].hdr.txn = conn[d].hdr.txn
  <2>1. SnapFrame(c) = hdr.mxFrame /\ SnapFrame(c)' = hdr.mxFrame /\ Checked(c) /\ Checked(c)'
    <3>1. conn[c].pc = "write" => conn[c].hdr.mxFrame = hdr.mxFrame
      BY <1>2, <1>7 DEF WriterInv
    <3> QED
      BY <1>5, <1>5a, <1>12a, <3>1 DEF SnapFrame, Checked
  <2>2. ASSUME NEW d \in Connection \ {c} PROVE SnapFrame(d)' = SnapFrame(d) /\ (Checked(d)' <=> Checked(d))
    BY <1>5a, <1>12a, <1>12b DEF SnapFrame, Checked
  <2> QED
    BY <1>7, <1>12a, <1>12b, <2>1, <2>2
<1>34. \A d \in Connection : PlaceInv(d)'
  <2>1. ASSUME NEW d \in Connection \ {c} PROVE PlaceInv(d)'
    BY <1>2, <1>5a, <1>12a, <1>12b DEF PlaceInv
  <2>2. PlaceInv(c)'
    <3>1. conn[c].readLock >= 0 /\ hdr.txn <= hdr.txn /\ g <= salts
      BY <1>2, <1>7, <1>9, ConnIs DEF PlaceInv
    <3> QED
      BY <1>2, <1>5a, <1>7, <1>12a, <1>12b, <3>1 DEF PlaceInv
  <2> QED
    BY <2>1, <2>2
<1>35. \A d \in Connection : ReaderInv(d)'
  <2> SUFFICES ASSUME NEW d \in Connection PROVE ReaderInv(d)'
    OBVIOUS
  <2>1. /\ Checked(d) => states'.db[conn[d].hdr.txn] = states.db[conn[d].hdr.txn]
    <3>1. conn[d].hdr.txn \in Nat /\ conn[d].hdr.txn \in 0 .. MaxTxn
      BY <1>2, ConnIs
    <3>2. Checked(d) => conn[d].hdr.txn <= hdr.txn
      BY <1>2 DEF Checked, PlaceInv
    <3> QED
      BY <1>7, <1>9, <1>13, <3>1, <3>2
  <2>2. conn[d].readLock = 0 => conn'[d] = conn[d]
    BY <1>7, <1>12a, <1>12b
  <2>3. ASSUME conn[d].readLock > 0, Checked(d), NEW q \in Page
        PROVE  /\ NoneOf(file'.wal, q, conn[d].minFrame, SnapFrame(d)) =>
                     file.db[q] = states'.db[conn[d].hdr.txn][q]
               /\ \A k \in Frames : LastIs(file'.wal, q, conn[d].minFrame, SnapFrame(d), k) =>
                     file'.wal[k].txn = states'.db[conn[d].hdr.txn][q]
    <3>1. SnapFrame(d) <= hdr.mxFrame /\ SnapFrame(d) \in Nat /\ conn[d].minFrame \in Nat /\ conn[d].minFrame > 0
      BY <1>2, <2>3, ConnIs, Numbers DEF ReaderInv, SnapFrame
    <3>2. /\ NoneOf(file.wal, q, conn[d].minFrame, SnapFrame(d)) =>
                     file.db[q] = states.db[conn[d].hdr.txn][q]
          /\ \A k \in Frames : LastIs(file.wal, q, conn[d].minFrame, SnapFrame(d), k) =>
                     file.wal[k].txn = states.db[conn[d].hdr.txn][q]
      BY <1>2, <2>3 DEF ReaderInv
    <3>3. NoneOf(file'.wal, q, conn[d].minFrame, SnapFrame(d)) => NoneOf(file.wal, q, conn[d].minFrame, SnapFrame(d))
      BY <1>27, <3>1
    <3>4. ASSUME NEW k \in Frames, LastIs(file'.wal, q, conn[d].minFrame, SnapFrame(d), k)
          PROVE  LastIs(file.wal, q, conn[d].minFrame, SnapFrame(d), k) /\ file'.wal[k] = file.wal[k]
      <4>1. k \in 1 .. hdr.mxFrame /\ k + 1 \in Nat /\ k + 1 > 0 /\ k \in conn[d].minFrame .. SnapFrame(d)
        BY <1>9, <3>1, <3>4 DEF LastIs
      <4>2. NoneOf(file.wal, q, k + 1, SnapFrame(d))
        BY <1>27, <3>1, <3>4, <4>1 DEF LastIs
      <4> QED
        BY <1>26, <3>4, <4>1, <4>2 DEF LastIs
    <3> QED
      BY <2>1, <2>3, <3>2, <3>3, <3>4
  <2>4. /\ conn'[d].readLock = conn[d].readLock /\ conn'[d].minFrame = conn[d].minFrame
        /\ SnapFrame(d)' = SnapFrame(d) /\ (Checked(d)' <=> Checked(d)) /\ conn'[d].hdr.txn = conn[d].hdr.txn
        /\ ReaderInv(d)
    BY <1>2, <1>32, <1>33
  <2>5. conn'[d].readLock = 0 =>
          /\ conn'[d].hdr = hdr' => info'.nBackfill = hdr'.mxFrame
          /\ ~locks'.db
          /\ Checked(d)' => \A q \in Page : file'.db[q] = states'.db[conn'[d].hdr.txn][q]
    BY <1>5a, <1>10, <1>11, <2>1, <2>2, <2>4 DEF ReaderInv
  <2>6. conn'[d].readLock > 0 => conn'[d].minFrame <= info'.nBackfill + 1
    BY <1>11, <2>4 DEF ReaderInv
  <2>7. conn'[d].readLock > 0 /\ Checked(d)' =>
          /\ SnapFrame(d)' <= hdr'.mxFrame
          /\ info'.aReadMark[conn'[d].readLock] <= SnapFrame(d)'
    BY <1>5a, <1>11, <2>4 DEF ReaderInv
  <2> QED
    BY <1>5a, <1>10, <2>3, <2>4, <2>5, <2>6, <2>7 DEF ReaderInv
<1>36. \A d \in Connection : WriterInv(d, g, b, K)'
  <2>1. ASSUME NEW d \in Connection \ {c} PROVE WriterInv(d, g, b, K)'
    <3>1. locks'.write # d /\ conn'[d].pc \notin {"frames", "sealed"}
      BY <1>2, <1>5a, <1>7, <1>12a, <1>12b DEF PlaceInv
    <3> QED
      BY <3>1 DEF WriterInv
  <2>2. WriterInv(c, g, b, K)'
    <3>1. /\ hdr.mxFrame < i /\ i <= i /\ hdr.mxFrame <= i /\ \A j \in Frames : j <= n => j <= i
      BY <1>7, <1>9 DEF Frames
    <3>2. \A j \in Frames : \A y \in file'.walMay[j] : y.txn = txn =>
             hdr.mxFrame < j /\ j <= i /\ (~commit => ~y.commit)
      BY <1>7, <1>8, <1>16, <3>1
    <3>3. \A j \in hdr.mxFrame + 1 .. i : file'.wal[j].txn = txn /\ info'.aPgno[j] = file'.wal[j].pgno
      <4>1. \A j \in hdr.mxFrame + 1 .. i : j = i \/ (j \in 1 .. n /\ j \in hdr.mxFrame + 1 .. n)
        BY <1>9
      <4> QED
        BY <1>7, <1>8, <1>10, <1>11, <1>15, <4>1
    <3>4. conn'[c].pc = "sealed" => commit
      BY <1>12a, <1>12b
    <3>5. conn'[c].pc = "sealed" => i > hdr.mxFrame /\ file'.wal[i].commit
      <4>1. i > hdr.mxFrame
        BY <1>7, <1>9
      <4>2. conn'[c].pc = "sealed" => x.commit
        BY <1>8, <1>12a, Zenon
      <4>3. conn'[c].pc = "sealed" => file'.wal[i].commit
        BY <1>10, <4>2, Zenon
      <4> QED
        BY <4>1, <4>3
    <3>6. conn'[c].pc # "sealed" => ~commit
      BY <1>12a, <1>12b
    <3>7. conn'[c].pc \in {"frames", "sealed"}
      BY <1>12a, <1>12b
    <3> QED
      BY <1>5a, <1>7, <1>10, <1>12a, <1>12b, <1>21, <3>1, <3>2, <3>3, <3>5, <3>6, <3>7 DEF WriterInv
  <2> QED
    BY <2>1, <2>2
<1>37. \A d \in Connection : CkptInv(d, K)'
  <2> SUFFICES ASSUME NEW d \in Connection, locks.ckpt = d PROVE CkptInv(d, K)'
    BY <1>5a DEF CkptInv
  <2>1. conn'[d] = conn[d] /\ CkptInv(d, K) /\ conn[d].hdr.mxFrame \in Nat /\ ckpt.mxSafeFrame \in Nat
    BY <1>2, <1>7, <1>12a, <1>12b, ConnIs, Numbers
  <2>2. \A j \in 1 .. ckpt.mxSafeFrame : ckpt.step = "copy" => file'.wal[j] = file.wal[j] /\ (IsLast(d, j)' <=> IsLast(d, j))
    <3> SUFFICES ASSUME NEW j \in 1 .. ckpt.mxSafeFrame, ckpt.step = "copy"
                 PROVE  file'.wal[j] = file.wal[j] /\ (IsLast(d, j)' <=> IsLast(d, j))
      OBVIOUS
    <3>1. ckpt.mxSafeFrame <= conn[d].hdr.mxFrame /\ conn[d].hdr.mxFrame <= hdr.mxFrame
      BY <2>1 DEF CkptInv
    <3>2. /\ j \in 1 .. hdr.mxFrame
          /\ \A k \in j + 1 .. conn[d].hdr.mxFrame : k \in 1 .. hdr.mxFrame
      BY <1>9, <2>1, <3>1
    <3> QED
      BY <1>26, <2>1, <3>2 DEF IsLast, NoneOf
  <2>3. \A j \in info.nBackfill + 1 .. ckpt.mxSafeFrame : j \in 1 .. ckpt.mxSafeFrame
    BY <1>9
  <2> QED
    BY <1>5a, <1>10, <1>11, <1>32, <1>33, <2>1, <2>2, <2>3 DEF CkptInv
<1>38. LogInv(g, b, K)'
  BY <1>28, <1>30, <1>36, <1>37 DEF LogInv
<1> QED
  BY <1>19, <1>31, <1>34, <1>35, <1>38 DEF IInv

-----------------------------------------------------------------------------
(* The copy of a checkpoint.                                               *)

\* walIteratorInit: the last frames of their pages among those to copy, and all of them.
LEMMA FramesToCopyAre ==
    ASSUME IInv, NEW c \in Connection, NEW g \in 0 .. MaxSalt, NEW b \in 0 .. MaxTxn,
           NEW K \in 0 .. MaxFrame, LogInv(g, b, K), hdr.isInit,
           conn[c].hdr.mxFrame <= hdr.mxFrame, ckpt.mxSafeFrame <= conn[c].hdr.mxFrame
    PROVE  /\ \A i \in FramesToCopy(c) : i \in info.nBackfill + 1 .. ckpt.mxSafeFrame /\ IsLast(c, i)
           /\ \A i \in info.nBackfill + 1 .. ckpt.mxSafeFrame :
                 IsLast(c, i) /\ file.wal[i].pgno \in Page => i \in FramesToCopy(c)
<1>1. Types /\ FrameInv /\ MediumInv(g, b, K) /\ HdrInv(g, K)
  BY DEF IInv, LogInv
<1>2. PICK n \in Nat, s \in Nat, nb \in Nat :
         n = conn[c].hdr.mxFrame /\ s = ckpt.mxSafeFrame /\ nb = info.nBackfill
  BY <1>1, ConnIs, Numbers
<1>3. n <= MaxFrame /\ hdr.mxFrame \in Nat /\ n <= hdr.mxFrame /\ s <= n /\ 1 \in Nat /\ 1 > 0
  BY <1>1, <1>2, ConnIs, Numbers
<1>4. \A j \in 1 .. n : info.aPgno[j] = file.wal[j].pgno
  <2>1. hdr.mxFrame > 0 => \A j \in 1 .. hdr.mxFrame : info.aPgno[j] = file.wal[j].pgno
    BY <1>1 DEF HdrInv
  <2> QED
    BY <1>3, <2>1
<1>5. FramesToCopy(c) = {i \in nb + 1 .. s : \E p \in Page : i = LastFrame(p, 1, n)}
  BY <1>2 DEF FramesToCopy
<1>6. ASSUME NEW i \in FramesToCopy(c) PROVE i \in nb + 1 .. s /\ IsLast(c, i)
  <2>1. PICK p \in Page : i = LastFrame(p, 1, n)
    BY <1>5
  <2>2. i \in nb + 1 .. s /\ i # 0
    BY <1>5
  <2>3. i \in 1 .. n /\ info.aPgno[i] = p /\ \A k \in i + 1 .. n : info.aPgno[k] # p
    BY <1>1, <1>3, <2>1, <2>2, LastFrameIs
  <2>4. \A k \in i + 1 .. n : k \in 1 .. n
    BY <2>3
  <2> QED
    BY <1>2, <1>4, <2>2, <2>3, <2>4 DEF IsLast, NoneOf
<1>7. ASSUME NEW i \in nb + 1 .. s, IsLast(c, i), file.wal[i].pgno \in Page PROVE i \in FramesToCopy(c)
  <2>1. PICK p \in Page : p = file.wal[i].pgno
    BY <1>7
  <2>2. i \in 1 .. n
    BY <1>3
  <2>3. \A k \in i + 1 .. n : k \in 1 .. n /\ file.wal[k].pgno # p
    BY <1>2, <1>7, <2>1, <2>2 DEF IsLast, NoneOf
  <2>4. info.aPgno[i] = p /\ \A k \in i + 1 .. n : info.aPgno[k] # p
    BY <1>4, <2>1, <2>2, <2>3
  <2>5. \/ LastFrame(p, 1, n) = 0 /\ \A k \in 1 .. n : info.aPgno[k] # p
        \/ /\ LastFrame(p, 1, n) \in 1 .. n
           /\ info.aPgno[LastFrame(p, 1, n)] = p
           /\ \A k \in LastFrame(p, 1, n) + 1 .. n : info.aPgno[k] # p
    <3>1. Types /\ 1 \in Nat /\ 1 > 0 /\ n \in Nat /\ n <= MaxFrame
      BY <1>1, <1>3
    <3> QED
      BY ONLY <3>1, LastFrameIs
  <2>6. LastFrame(p, 1, n) = i
    BY <2>2, <2>4, <2>5
  <2> QED
    BY <1>5, <2>6
<1> QED
  BY <1>2, <1>6, <1>7

LEMMA CkptLockDbStep == ASSUME IInv, NEW c \in Connection, CkptLockDb(c), Types' PROVE IInv'
<1>1. PICK g \in 0 .. MaxSalt, b \in 0 .. MaxTxn, K \in 0 .. MaxFrame : LogInv(g, b, K)
  BY DEF IInv
<1>2. /\ Types /\ FrameInv /\ NobodyCopies /\ MediumInv(g, b, K) /\ HdrInv(g, K)
      /\ \A d \in Connection : PlaceInv(d) /\ ReaderInv(d) /\ WriterInv(d, g, b, K) /\ CkptInv(d, K)
  BY <1>1 DEF IInv, LogInv
<1>3. /\ conn[c].pc = "ckpt" /\ ckpt.step = "marks" /\ ckpt.slot > NSlot
      /\ UNCHANGED <<hdr, info, conn, salts, txn, crashes>>
  BY DEF CkptLockDb, Checkpointer
<1>4. /\ locks.ckpt = c /\ c # NoConn /\ hdr.isInit /\ ckpt.slot = NSlot + 1
      /\ ckpt.mxSafeFrame <= conn[c].hdr.mxFrame /\ conn[c].hdr.mxFrame <= hdr.mxFrame
  <2>1. locks.ckpt = c /\ c # NoConn /\ hdr.isInit
    BY <1>2, <1>3, Constants DEF PlaceInv
  <2>2. ckpt.slot = NSlot + 1
    BY <1>2, <1>3, Numbers
  <2> QED
    BY <1>2, <1>3, <2>1, <2>2 DEF CkptInv
<1>5. CASE ckpt' = [ckpt EXCEPT !.step = "end"] /\ UNCHANGED <<locks, file, states>>
  <2>1. ckpt'.step = "end"
    BY <1>2, <1>5 DEF Types, Ckpt
  <2>2. ~locks.db
    BY <1>2, <1>3, <1>4 DEF CkptInv
  <2>3. CkptInv(c, K)'
    BY <1>5, <2>1, <2>2 DEF CkptInv
  <2> QED
    BY <1>1, <1>3, <1>5, <2>3, CkptQuiet
<1>6. CASE /\ info.nBackfill < ckpt.mxSafeFrame /\ Unlocked({0})
           /\ locks' = [locks EXCEPT !.db = TRUE]
           /\ file' = SyncBeforeCopy
           /\ states' = [states EXCEPT !.floor = Max({@, hdr.txn})]
           /\ ckpt' = [ckpt EXCEPT !.step = "copy", !.todo = FramesToCopy(c)]
  <2>1. /\ locks'.db = TRUE /\ locks'.write = locks.write /\ locks'.ckpt = locks.ckpt
        /\ states'.db = states.db /\ states'.floor = Max({states.floor, hdr.txn})
        /\ ckpt'.step = "copy" /\ ckpt'.todo = FramesToCopy(c) /\ ckpt'.slot = ckpt.slot
        /\ ckpt'.mxSafeFrame = ckpt.mxSafeFrame
    BY <1>2, <1>6 DEF Types, Locks, States, Ckpt
  <2>2. /\ file'.wal = file.wal /\ file'.db = file.db /\ file'.dbMay = file.dbMay
        /\ file'.aSalt = file.aSalt /\ file'.walMay = [i \in Frames |-> {file.wal[i]}]
        /\ file'.saltMay = {file.aSalt}
    BY <1>2, <1>6 DEF SyncBeforeCopy, SyncWal, Types, Files
  <2>3. /\ hdr.mxFrame \in Nat /\ hdr.mxFrame > 0 /\ hdr.mxFrame <= MaxFrame /\ info.nBackfill \in Nat
        /\ ckpt.mxSafeFrame \in Nat /\ ckpt.mxSafeFrame <= hdr.mxFrame /\ conn[c].hdr.mxFrame \in Nat
        /\ hdr.txn \in Nat /\ hdr.txn <= MaxTxn /\ states.floor \in Nat /\ MaxTxn \in Nat /\ K \in Nat
    BY <1>2, <1>4, <1>6, Numbers, ConnIs
  <2>4. PICK K1 \in 0 .. MaxFrame : K1 = hdr.mxFrame
    BY <2>3
  <2>5. /\ g # 0 /\ hdr.aSalt = g /\ file.saltMay = {g} /\ K <= hdr.mxFrame
        /\ Chained(file.wal, g, hdr.mxFrame)
        /\ file.wal[hdr.mxFrame].commit /\ file.wal[hdr.mxFrame].txn = hdr.txn
        /\ hdr.txn <= txn /\ hdr.txn >= states.floor
    BY <1>2, <1>4, <2>3 DEF HdrInv
  <2>6. states'.floor = hdr.txn
    <3>1. {states.floor, hdr.txn} \in SUBSET (0 .. MaxTxn) /\ {states.floor, hdr.txn} # {}
      BY <2>3, <2>5
    <3>2. /\ Max({states.floor, hdr.txn}) \in {states.floor, hdr.txn}
          /\ \A y \in {states.floor, hdr.txn} : y <= Max({states.floor, hdr.txn})
      BY <2>3, <3>1, MaxIs
    <3> QED
      BY <2>1, <2>3, <2>5, <3>2
  <2>7. \A j \in Frames : file'.walMay[j] \subseteq file.walMay[j] /\ file.wal[j] \in file'.walMay[j]
    BY <1>2, <2>2 DEF FrameInv
  <2>8. file'.saltMay = {g} /\ file.aSalt = g
    BY <1>2, <2>2, <2>5 DEF FrameInv
  <2>9. FrameInv'
    <3>1. \A j \in Frames : \A x \in file'.walMay[j] :
             x.txn <= txn /\ x.prev <= x.txn /\ x.aSalt <= salts
      BY <1>2, <2>7 DEF FrameInv
    <3>2. \A j \in Frames : \A x, y \in file'.walMay[j] : x.txn = y.txn /\ x.aSalt = y.aSalt => x = y
      BY <1>2, <2>7 DEF FrameInv
    <3>3. file'.aSalt \in file'.saltMay /\ \A s \in file'.saltMay : s <= salts
      BY <1>2, <2>2, <2>5, <2>8 DEF FrameInv
    <3>4. \A p \in Page : file'.db[p] \in file'.dbMay[p]
      BY <1>2, <2>2 DEF FrameInv
    <3>5. /\ \A t \in 0 .. MaxTxn : t = 0 \/ t > txn => states.db[t] = [p \in Page |-> 0]
          /\ \A j \in Frames : file'.wal[j] \in file'.walMay[j]
      BY <1>2, <2>2, <2>7 DEF FrameInv
    <3> QED
      BY <1>3, <2>1, <3>1, <3>2, <3>3, <3>4, <3>5 DEF FrameInv
  <2>10. MediumInv(g, b, K1)'
    <3>1. LogOver(file', states.db, g, b)
      <4>1. LogOver(file, states.db, g, b)
        BY <1>2 DEF MediumInv
      <4>2. \A j \in Frames : file'.walMay[j] \subseteq file.walMay[j]
        BY <2>7
      <4> QED
        BY <4>1, <4>2, LogOverKept
    <3>2. \A j \in 1 .. K1 : file'.walMay[j] = {file.wal[j]}
      BY <2>2, <2>3, <2>4, Constants DEF Frames
    <3>3. \A p \in Page : NoneOf(file.wal, p, 1, K1) => file.dbMay[p] = {states.db[b][p]}
      <4>1. \A p \in Page : NoneOf(file.wal, p, 1, K1) => NoneOf(file.wal, p, 1, K)
        BY <2>3, <2>4, <2>5 DEF NoneOf
      <4> QED
        BY <1>2, <4>1 DEF MediumInv
    <3>4. b <= txn /\ Real(states.db, b) /\ hdr.txn >= hdr.txn /\ K1 # 0
      BY <1>2, <2>3, <2>4 DEF MediumInv
    <3> QED
      BY <1>3, <2>1, <2>2, <2>4, <2>5, <2>6, <2>8, <3>1, <3>2, <3>3, <3>4 DEF MediumInv
  <2>11. HdrInv(g, K1)'
    <3>1. hdr.txn >= hdr.txn /\ hdr.mxFrame <= hdr.mxFrame /\ hdr.mxFrame # 0
      BY <2>3
    <3>2. info.nBackfill = hdr.mxFrame => Whole(file', states.db, hdr.txn)
      BY <1>2, <1>4, <2>2 DEF HdrInv, Whole
    <3> QED
      BY <1>2, <1>3, <1>4, <2>1, <2>2, <2>4, <2>5, <2>6, <2>8, <3>1, <3>2 DEF HdrInv
  <2>12. DownInv' /\ NobodyCopies'
    BY <1>3, <1>4, <2>1 DEF DownInv, NobodyCopies
  <2>13. \A d \in Connection : SnapFrame(d)' = SnapFrame(d) /\ (Checked(d)' <=> Checked(d))
    BY <1>3 DEF SnapFrame, Checked
  <2>14. ASSUME NEW d \in Connection PROVE PlaceInv(d)' /\ ReaderInv(d)' /\ WriterInv(d, g, b, K1)'
    <3>1. PlaceInv(d)'
      BY <1>2, <1>3, <2>1 DEF PlaceInv
    <3>2. conn[d].readLock # 0
      BY <1>6 DEF Unlocked
    <3>3. ReaderInv(d)'
      BY <1>2, <1>3, <2>1, <2>2, <2>13, <3>2 DEF ReaderInv
    <3>4. /\ WriterInv(d, g, b, K) /\ hdr.mxFrame # 0
          /\ conn[d].pc = "ckpt" => d = c
      BY <1>2, <1>4, <2>3 DEF PlaceInv
    <3>5. WriterInv(d, g, b, K1)'
      BY <1>3, <2>1, <2>2, <2>7, <2>8, <3>4 DEF WriterInv
    <3> QED
      BY <3>1, <3>3, <3>5
  <2>15. ASSUME NEW d \in Connection PROVE CkptInv(d, K1)'
    <3> SUFFICES ASSUME d = c PROVE CkptInv(d, K1)'
      BY <1>4, <2>1 DEF CkptInv
    <3>1. /\ \A i \in FramesToCopy(c) : i \in info.nBackfill + 1 .. ckpt.mxSafeFrame /\ IsLast(c, i)
          /\ \A i \in info.nBackfill + 1 .. ckpt.mxSafeFrame :
                IsLast(c, i) /\ file.wal[i].pgno \in Page => i \in FramesToCopy(c)
      BY <1>1, <1>4, FramesToCopyAre
    <3>2. \A i : IsLast(c, i)' <=> IsLast(c, i)
      BY <1>3, <2>2 DEF IsLast
    <3> QED
      BY <1>2, <1>3, <1>4, <1>6, <2>1, <2>2, <2>3, <2>4, <2>13, <3>1, <3>2 DEF CkptInv
  <2>16. LogInv(g, b, K1)'
    BY <2>10, <2>11, <2>14, <2>15 DEF LogInv
  <2> QED
    BY <2>9, <2>12, <2>14, <2>16 DEF IInv
<1> QED
  BY <1>5, <1>6 DEF CkptLockDb

LEMMA CkptCopyStep == ASSUME IInv, NEW c \in Connection, CkptCopy(c), Types' PROVE IInv'
<1>1. PICK g \in 0 .. MaxSalt, b \in 0 .. MaxTxn, K \in 0 .. MaxFrame : LogInv(g, b, K)
  BY DEF IInv
<1>2. /\ Types /\ FrameInv /\ NobodyCopies /\ MediumInv(g, b, K) /\ HdrInv(g, K)
      /\ \A d \in Connection : PlaceInv(d) /\ ReaderInv(d) /\ WriterInv(d, g, b, K) /\ CkptInv(d, K)
  BY <1>1 DEF IInv, LogInv
<1>3. PICK i \in ckpt.todo : /\ file' = WritePage(file, info.aPgno[i], file.wal[i].txn)
                             /\ ckpt' = [ckpt EXCEPT !.todo = @ \ {i}]
  BY DEF CkptCopy
<1>4. /\ conn[c].pc = "ckpt" /\ ckpt.step = "copy"
      /\ UNCHANGED <<hdr, info, locks, conn, salts, txn, crashes, states>>
  BY DEF CkptCopy, Checkpointer
<1>5. /\ ckpt'.step = "copy" /\ ckpt'.mxSafeFrame = ckpt.mxSafeFrame /\ ckpt'.slot = ckpt.slot
      /\ ckpt'.todo = ckpt.todo \ {i}
  BY <1>2, <1>3, <1>4 DEF Types, Ckpt
<1>6. locks.ckpt = c /\ c # NoConn /\ hdr.isInit
  BY <1>2, <1>4, Constants DEF PlaceInv
<1>7. PICK n \in Nat, s \in Nat, nb \in Nat, mx \in Nat :
         n = conn[c].hdr.mxFrame /\ s = ckpt.mxSafeFrame /\ nb = info.nBackfill /\ mx = hdr.mxFrame
  BY <1>2, ConnIs, Numbers
<1>8. /\ s <= n /\ n <= mx /\ nb < s /\ s <= K /\ i \in nb + 1 .. s /\ IsLast(c, i) /\ locks.db
      /\ ckpt.slot = NSlot + 1
  BY <1>2, <1>4, <1>6, <1>7 DEF CkptInv
<1>9. mx <= MaxFrame /\ mx > 0 /\ i \in 1 .. mx /\ i \in 1 .. K /\ i \in 1 .. n /\ i \in nb + 1 .. mx
  BY <1>2, <1>7, <1>8, Numbers
<1>10. g # 0 /\ file.saltMay = {g} /\ info.aPgno[i] = file.wal[i].pgno
  BY <1>2, <1>6, <1>7, <1>9 DEF HdrInv
<1> DEFINE q == file.wal[i].pgno
           t == file.wal[i].txn
<1>11. /\ file'.wal = file.wal /\ file'.walMay = file.walMay /\ file'.aSalt = file.aSalt
       /\ file'.saltMay = file.saltMay
       /\ file'.db = [file.db EXCEPT ![q] = t] /\ file'.dbMay = [file.dbMay EXCEPT ![q] = {t, Torn}]
  BY <1>2, <1>3, <1>10 DEF WritePage, Types, Files
<1> HIDE DEF t
<1>12. \A p \in Page : /\ p # q => file'.db[p] = file.db[p] /\ file'.dbMay[p] = file.dbMay[p]
                       /\ p = q => file'.db[p] = t /\ file'.dbMay[p] = {t, Torn}
  <2>1. file.db \in [Page -> 0 .. Torn] /\ file.dbMay \in [Page -> SUBSET (0 .. Torn)]
    BY <1>2, FilesAre
  <2> HIDE DEF q
  <2> QED
    BY <1>11, <2>1
<1>13. \A p \in Page, lo \in Nat, hi \in Nat : NoneOf(file.wal, p, lo, hi) /\ lo <= i /\ i <= hi => p # q
  BY <1>9 DEF NoneOf
<1>14. FrameInv'
  BY <1>2, <1>4, <1>11, <1>12 DEF FrameInv
<1>15. MediumInv(g, b, K)'
  <2>1. \A p \in Page : NoneOf(file.wal, p, 1, K) => file'.dbMay[p] = {states.db[b][p]}
    <3>1. 1 \in Nat /\ K \in Nat /\ 1 <= i /\ i <= K
      BY <1>9
    <3> QED
      BY <1>2, <1>12, <1>13, <3>1 DEF MediumInv
  <2>2. LogOver(file', states.db, g, b)
    BY <1>2, <1>11, LogOverKept DEF MediumInv
  <2> QED
    BY <1>2, <1>4, <1>10, <1>11, <2>1, <2>2 DEF MediumInv
<1>16. HdrInv(g, K)'
  <2>1. \A p \in Page : NoneOf(file.wal, p, nb + 1, mx) => file'.db[p] = states.db[hdr.txn][p]
    <3>1. nb + 1 \in Nat /\ nb + 1 <= i /\ i <= mx
      BY <1>9
    <3> QED
      BY <1>2, <1>6, <1>7, <1>12, <1>13, <3>1 DEF HdrInv
  <2>2. nb # mx /\ mx # 0
    BY <1>8, <1>9
  <2> QED
    BY <1>2, <1>4, <1>6, <1>7, <1>11, <2>1, <2>2 DEF HdrInv
<1>17. DownInv' /\ NobodyCopies'
  BY <1>4, <1>6 DEF DownInv, NobodyCopies
<1>18. \A d \in Connection : SnapFrame(d)' = SnapFrame(d) /\ (Checked(d)' <=> Checked(d))
  BY <1>4 DEF SnapFrame, Checked
<1>19. ASSUME NEW d \in Connection PROVE PlaceInv(d)' /\ ReaderInv(d)' /\ WriterInv(d, g, b, K)'
  <2>1. PlaceInv(d)'
    BY <1>2, <1>4 DEF PlaceInv
  <2>2. conn[d].readLock # 0
    BY <1>2, <1>8 DEF ReaderInv
  <2>3. ASSUME conn[d].readLock > 0, Checked(d), NEW p \in Page,
               NoneOf(file.wal, p, conn[d].minFrame, SnapFrame(d))
        PROVE  file'.db[p] = file.db[p]
    <3>1. conn[d].readLock < NSlot + 1
      BY <1>2, ConnIs, Constants
    <3>2. s <= SnapFrame(d)
      BY <1>2, <1>4, <1>6, <1>7, <1>8, <2>3, <3>1 DEF CkptInv
    <3>3. conn[d].minFrame <= nb + 1
      BY <1>2, <1>7, <2>3 DEF ReaderInv
    <3>4. SnapFrame(d) \in Nat /\ conn[d].minFrame \in Nat
      BY <1>2, ConnIs, Numbers DEF SnapFrame
    <3>5. conn[d].minFrame <= i /\ i <= SnapFrame(d)
      BY <1>8, <3>2, <3>3, <3>4
    <3> QED
      BY <1>12, <1>13, <2>3, <3>4, <3>5
  <2>4. ReaderInv(d)'
    BY <1>2, <1>4, <1>11, <1>18, <2>2, <2>3 DEF ReaderInv
  <2>5. WriterInv(d, g, b, K)'
    BY <1>2, <1>4, <1>5, <1>11 DEF WriterInv
  <2> QED
    BY <2>1, <2>4, <2>5
<1>20. ASSUME NEW d \in Connection PROVE CkptInv(d, K)'
  <2> SUFFICES ASSUME d = c PROVE CkptInv(d, K)'
    BY <1>4, <1>6 DEF CkptInv
  <2>1. \A j : IsLast(c, j)' <=> IsLast(c, j)
    BY <1>4, <1>11 DEF IsLast
  <2>2. ASSUME NEW j \in nb + 1 .. s, IsLast(c, j), j \notin ckpt.todo \ {i}, file.wal[j].pgno \in Page
        PROVE  file'.db[file.wal[j].pgno] = file.wal[j].txn
    <3>1. CASE j = i
      BY <1>12, <2>2, <3>1 DEF t
    <3>2. CASE j # i
      <4>1. \/ i \in j + 1 .. n
            \/ j \in i + 1 .. n
        BY <1>8, <3>2
      <4>2. file.wal[j].pgno # q
        BY <1>7, <1>8, <2>2, <4>1 DEF IsLast, NoneOf
      <4>3. file.db[file.wal[j].pgno] = file.wal[j].txn
        BY <1>2, <1>4, <1>6, <1>7, <2>2, <3>2 DEF CkptInv
      <4> QED
        BY <1>12, <2>2, <4>2, <4>3
    <3> QED
      BY <3>1, <3>2
  <2> QED
    BY <1>2, <1>4, <1>5, <1>6, <1>7, <1>11, <1>18, <2>1, <2>2 DEF CkptInv
<1>21. LogInv(g, b, K)'
  BY <1>15, <1>16, <1>19, <1>20 DEF LogInv
<1> QED
  BY <1>14, <1>17, <1>19, <1>21 DEF IInv

LEMMA CkptCopiedStep == ASSUME IInv, NEW c \in Connection, CkptCopied(c), Types' PROVE IInv'
<1>1. PICK g \in 0 .. MaxSalt, b \in 0 .. MaxTxn, K \in 0 .. MaxFrame : LogInv(g, b, K)
  BY DEF IInv
<1>2. /\ Types /\ FrameInv /\ NobodyCopies /\ MediumInv(g, b, K) /\ HdrInv(g, K)
      /\ \A d \in Connection : PlaceInv(d) /\ ReaderInv(d) /\ WriterInv(d, g, b, K) /\ CkptInv(d, K)
  BY <1>1 DEF IInv, LogInv
<1>3. /\ conn[c].pc = "ckpt" /\ ckpt.step = "copy" /\ ckpt.todo = {}
      /\ UNCHANGED <<hdr, conn, salts, txn, crashes, states>>
  BY DEF CkptCopied, Checkpointer
<1>4. /\ info'.nBackfill = ckpt.mxSafeFrame /\ info'.aReadMark = info.aReadMark /\ info'.aPgno = info.aPgno
      /\ locks'.db = FALSE /\ locks'.write = locks.write /\ locks'.ckpt = locks.ckpt
      /\ ckpt'.step = "end"
  BY <1>2 DEF CkptCopied, Types, Info, Locks, Ckpt
<1>5. /\ file'.wal = file.wal /\ file'.walMay = file.walMay /\ file'.aSalt = file.aSalt
      /\ file'.saltMay = file.saltMay /\ file'.db = file.db
      /\ ckpt.mxSafeFrame = hdr.mxFrame => file'.dbMay = [p \in Page |-> {file.db[p]}]
      /\ ckpt.mxSafeFrame # hdr.mxFrame => file'.dbMay = file.dbMay
  BY <1>2 DEF CkptCopied, SyncCopied, SyncDb, Types, Files
<1>6. locks.ckpt = c /\ c # NoConn /\ hdr.isInit
  BY <1>2, <1>3, Constants DEF PlaceInv
<1>7. PICK n \in Nat, s \in Nat, nb \in Nat, mx \in Nat :
         n = conn[c].hdr.mxFrame /\ s = ckpt.mxSafeFrame /\ nb = info.nBackfill /\ mx = hdr.mxFrame
  BY <1>2, ConnIs, Numbers
<1>8. /\ s <= n /\ n <= mx /\ nb < s /\ s <= K /\ locks.db
      /\ \A i \in nb + 1 .. s :
            IsLast(c, i) /\ file.wal[i].pgno \in Page => file.db[file.wal[i].pgno] = file.wal[i].txn
  BY <1>2, <1>3, <1>6, <1>7 DEF CkptInv
<1>9. mx > 0 /\ mx <= MaxFrame /\ s <= mx
  BY <1>2, <1>7, <1>8, Numbers
<1>10. g # 0 /\ file.saltMay = {g} /\ Seals(states.db, file.wal, mx, b, hdr.txn)
  BY <1>2, <1>6, <1>7, <1>9, CommittedLog
\* What is copied is what the log says last of a page.
<1>11. ASSUME NEW p \in Page, NoneOf(file.wal, p, s + 1, mx)
       PROVE  file.db[p] = states.db[hdr.txn][p]
  <2>1. CASE NoneOf(file.wal, p, nb + 1, s)
    <3>1. NoneOf(file.wal, p, nb + 1, mx)
      BY <1>8, <1>9, <1>11, <2>1 DEF NoneOf
    <3> QED
      BY <1>2, <1>6, <1>7, <3>1 DEF HdrInv
  <2>2. ASSUME NEW k \in nb + 1 .. s, LastIs(file.wal, p, nb + 1, s, k)
        PROVE  file.db[p] = states.db[hdr.txn][p]
    <3>1. file.wal[k].pgno = p /\ NoneOf(file.wal, p, k + 1, mx) /\ k \in 1 .. mx
      BY <1>8, <1>9, <1>11, <2>2 DEF LastIs, NoneOf
    <3>2. LastIs(file.wal, p, 1, mx, k)
      BY <3>1 DEF LastIs
    <3>3. IsLast(c, k)
      BY <1>7, <1>8, <3>1 DEF IsLast, NoneOf
    <3> QED
      BY <1>8, <1>10, <2>2, <3>1, <3>2, <3>3 DEF Seals
  <2>3. NoneOf(file.wal, p, nb + 1, s) \/ \E k \in nb + 1 .. s : LastIs(file.wal, p, nb + 1, s, k)
    <3>1. nb + 1 \in Nat /\ s \in Nat
      OBVIOUS
    <3> QED
      BY <3>1, LastOrNone
  <2> QED
    BY <2>1, <2>2, <2>3
<1>12. \A p \in Page : file'.dbMay[p] = file.dbMay[p] \/ file'.dbMay[p] = {file.db[p]}
  BY <1>5
<1>13. FrameInv'
  BY <1>2, <1>3, <1>5, <1>12 DEF FrameInv
<1>14. MediumInv(g, b, K)'
  <2>1. \A p \in Page : NoneOf(file.wal, p, 1, K) => file'.dbMay[p] = {states.db[b][p]}
    <3>1. \A p \in Page : file.db[p] \in file.dbMay[p]
      BY <1>2 DEF FrameInv
    <3>2. \A p \in Page : NoneOf(file.wal, p, 1, K) => file.dbMay[p] = {states.db[b][p]}
      BY <1>2 DEF MediumInv
    <3> QED
      BY <1>12, <3>1, <3>2
  <2>2. LogOver(file', states.db, g, b)
    BY <1>2, <1>5, LogOverKept DEF MediumInv
  <2> QED
    BY <1>2, <1>3, <1>5, <1>10, <2>1, <2>2 DEF MediumInv
<1>15. HdrInv(g, K)'
  <2>1. s = mx => Whole(file', states.db, hdr.txn)
    <3>1. s = mx => \A p \in Page : NoneOf(file.wal, p, s + 1, mx)
      BY DEF NoneOf
    <3> QED
      BY <1>5, <1>7, <1>11, <3>1 DEF Whole
  <2>2. mx # 0
    BY <1>9
  <2> QED
    BY <1>2, <1>3, <1>4, <1>5, <1>6, <1>7, <1>9, <1>11, <2>1, <2>2 DEF HdrInv
<1>16. DownInv' /\ NobodyCopies'
  BY <1>3, <1>4, <1>6 DEF DownInv, NobodyCopies
<1>17. \A d \in Connection : SnapFrame(d)' = SnapFrame(d) /\ (Checked(d)' <=> Checked(d))
  BY <1>3 DEF SnapFrame, Checked
<1>18. ASSUME NEW d \in Connection
       PROVE  PlaceInv(d)' /\ ReaderInv(d)' /\ WriterInv(d, g, b, K)' /\ CkptInv(d, K)'
  <2>1. PlaceInv(d)'
    BY <1>2, <1>3, <1>4 DEF PlaceInv
  <2>2. conn[d].readLock # 0
    BY <1>2, <1>8 DEF ReaderInv
  <2>3. conn[d].readLock > 0 => conn[d].minFrame <= s + 1
    <3>1. conn[d].readLock > 0 => conn[d].minFrame <= nb + 1
      BY <1>2, <1>7 DEF ReaderInv
    <3>2. conn[d].minFrame \in Nat
      BY <1>2, ConnIs
    <3> QED
      BY <1>8, <3>1, <3>2
  <2>4. ReaderInv(d)'
    BY <1>2, <1>3, <1>4, <1>5, <1>7, <1>17, <2>2, <2>3 DEF ReaderInv
  <2>5. WriterInv(d, g, b, K)'
    BY <1>2, <1>3, <1>4, <1>5 DEF WriterInv
  <2>6. CkptInv(d, K)'
    BY <1>4 DEF CkptInv
  <2> QED
    BY <2>1, <2>4, <2>5, <2>6
<1>19. LogInv(g, b, K)'
  BY <1>14, <1>15, <1>18 DEF LogInv
<1> QED
  BY <1>13, <1>16, <1>18, <1>19 DEF IInv

-----------------------------------------------------------------------------
(* Power losses and recoveries.                                            *)

LEMMA WholeKept ==
    ASSUME NEW f, NEW h, NEW d, NEW t, Whole(f, d, t),
           \A p \in Page : h.db[p] \in f.dbMay[p] /\ h.dbMay[p] = {h.db[p]}
    PROVE  Whole(h, d, t)
BY DEF Whole

LEMMA PowerLossStep == ASSUME IInv, PowerLoss, Types' PROVE IInv'
<1>1. PICK g \in 0 .. MaxSalt, b \in 0 .. MaxTxn, K \in 0 .. MaxFrame : LogInv(g, b, K)
  BY DEF IInv
<1>2. Types /\ FrameInv /\ MediumInv(g, b, K)
  BY <1>1 DEF IInv, LogInv
<1>3. /\ hdr' = NoHdr /\ info' = NewInfo /\ ckpt' = NoCkpt
      /\ locks' = [write |-> NoConn, ckpt |-> NoConn, db |-> FALSE]
      /\ conn' = [c \in Connection |-> Idle]
      /\ UNCHANGED <<salts, txn, states>>
  BY DEF PowerLoss
<1>4. PICK w, s, d : /\ \A j \in Frames : w[j] \in file.walMay[j]
                     /\ s \in file.saltMay
                     /\ \A p \in Page : d[p] \in file.dbMay[p]
                     /\ file' = SyncDb(SyncWal([file EXCEPT !.wal = w, !.aSalt = s, !.db = d]))
  BY DEF PowerLoss
<1>5. /\ file'.wal = w /\ file'.walMay = [i \in Frames |-> {w[i]}] /\ file'.aSalt = s
      /\ file'.saltMay = {s} /\ file'.db = d /\ file'.dbMay = [p \in Page |-> {d[p]}]
  BY <1>2, <1>4 DEF SyncDb, SyncWal, Types, Files
<1>6. /\ \A j \in Frames : file'.wal[j] \in file.walMay[j] /\ file'.walMay[j] = {file'.wal[j]}
      /\ file'.aSalt \in file.saltMay /\ file'.saltMay = {file'.aSalt}
      /\ \A p \in Page : file'.db[p] \in file.dbMay[p] /\ file'.dbMay[p] = {file'.db[p]}
  BY <1>4, <1>5
<1>7. FrameInv'
  BY <1>2, <1>3, <1>6 DEF FrameInv
<1>8. DownInv' /\ NobodyCopies'
  BY <1>3, <1>6 DEF DownInv, NobodyCopies, NewInfo, NoHdr
<1>9. ASSUME NEW c \in Connection PROVE PlaceInv(c)' /\ ReaderInv(c)'
  <2>1. /\ conn'[c].pc = "idle" /\ conn'[c].readLock = -1 /\ conn'[c].hdr.aSalt = 0
        /\ c # NoConn /\ 0 <= salts /\ ~(-1 > 0)
    BY <1>2, <1>3, Constants, Numbers DEF Idle, NoHdr
  <2>2. PlaceInv(c)'
    BY <1>3, <2>1 DEF PlaceInv
  <2>3. ReaderInv(c)'
    BY <2>1 DEF ReaderInv, Checked
  <2> QED
    BY <2>2, <2>3
<1>10. ASSUME NEW a \in 0 .. MaxSalt, NEW t \in 0 .. MaxTxn, NEW k \in 0 .. MaxFrame, MediumInv(a, t, k)'
       PROVE  LogInv(a, t, k)'
  <2>1. HdrInv(a, k)'
    BY <1>3 DEF HdrInv, NoHdr
  <2>2. ASSUME NEW c \in Connection PROVE WriterInv(c, a, t, k)' /\ CkptInv(c, k)'
    <3>1. locks'.write # c /\ locks'.ckpt # c /\ conn'[c].pc = "idle"
      BY <1>3, Constants DEF Idle
    <3> QED
      BY <3>1 DEF WriterInv, CkptInv
  <2> QED
    BY <1>10, <2>1, <2>2 DEF LogInv
<1>11. CASE s = g
  <2>1. LogOver(file', states.db, g, b)
    <3>1. LogOver(file, states.db, g, b)
      BY <1>2 DEF MediumInv
    <3>2. \A j \in Frames : file'.walMay[j] \subseteq file.walMay[j]
      BY <1>6
    <3> QED
      BY <3>1, <3>2, LogOverKept
  <2>2. \A j \in 1 .. K : j \in Frames /\ file'.wal[j] = file.wal[j]
    <3>1. \A j \in 1 .. K : j \in Frames /\ file.walMay[j] = {file.wal[j]}
      BY <1>2, Constants DEF MediumInv, Frames
    <3> QED
      BY <1>6, <3>1
  <2>3. K > 0 => /\ g # 0 /\ Chained(file'.wal, g, K) /\ file'.wal[K].commit
                 /\ \A j \in 1 .. K : file'.walMay[j] = {file'.wal[j]}
                 /\ file'.wal[K].txn >= states.floor
    <3>1. K > 0 => /\ g # 0 /\ Chained(file.wal, g, K) /\ file.wal[K].commit
                   /\ file.wal[K].txn >= states.floor
      BY <1>2 DEF MediumInv
    <3>2. Chained(file.wal, g, K) => Chained(file'.wal, g, K)
      <4>1. \A j \in 1 .. K : j # 1 => j - 1 \in 1 .. K
        OBVIOUS
      <4> QED
        BY <2>2, <4>1 DEF Chained
    <3>3. K > 0 => K \in 1 .. K
      OBVIOUS
    <3> QED
      BY <1>6, <2>2, <3>1, <3>2, <3>3
  <2>4. \A p \in Page : NoneOf(file'.wal, p, 1, K) => file'.dbMay[p] = {states.db[b][p]}
    <3>1. \A p \in Page : NoneOf(file'.wal, p, 1, K) => NoneOf(file.wal, p, 1, K)
      BY <2>2 DEF NoneOf
    <3> QED
      BY <1>2, <1>6, <3>1 DEF MediumInv
  <2>5. 0 \in file'.saltMay =>
          \E t \in 0 .. MaxTxn :
              t >= states.floor /\ t <= txn /\ Whole(file', states.db, t) /\ Real(states.db, t)
    <3> SUFFICES ASSUME 0 \in file'.saltMay
                 PROVE  \E t \in 0 .. MaxTxn :
                            t >= states.floor /\ t <= txn /\ Whole(file', states.db, t) /\ Real(states.db, t)
      OBVIOUS
    <3>1. PICK t \in 0 .. MaxTxn :
             t >= states.floor /\ t <= txn /\ Whole(file, states.db, t) /\ Real(states.db, t)
      BY <1>2, <1>4, <1>5 DEF MediumInv
    <3>2. Whole(file', states.db, t)
      BY <1>6, <3>1, WholeKept
    <3> QED
      BY <3>1, <3>2
  <2>6. file'.saltMay \subseteq {g, 0}
    BY <1>5, <1>11
  <2>7. MediumInv(g, b, K)'
    BY <1>2, <1>3, <2>1, <2>3, <2>4, <2>5, <2>6 DEF MediumInv
  <2>8. LogInv(g, b, K)'
    BY <1>10, <2>7
  <2> QED
    BY <1>7, <1>8, <1>9, <2>8 DEF IInv
<1>12. CASE s # g
  <2>1. s = 0
    BY <1>2, <1>4, <1>12 DEF MediumInv
  <2>2. PICK t \in 0 .. MaxTxn :
           t >= states.floor /\ t <= txn /\ Whole(file, states.db, t) /\ Real(states.db, t)
    BY <1>2, <1>4, <2>1 DEF MediumInv
  <2>3. Whole(file', states.db, t)
    BY <1>6, <2>2, WholeKept
  <2>4. LogOver(file', states.db, 0, t)
    BY DEF LogOver
  <2>5. MediumInv(0, t, 0)'
    BY <1>3, <1>5, <2>1, <2>2, <2>3, <2>4 DEF MediumInv, Whole
  <2>6. 0 \in 0 .. MaxSalt /\ 0 \in 0 .. MaxFrame
    BY Constants
  <2>7. LogInv(0, t, 0)'
    BY <1>10, <2>5, <2>6
  <2> QED
    BY <1>7, <1>8, <1>9, <2>6, <2>7 DEF IInv
<1> QED
  BY <1>11, <1>12

\* What a recovery finds: the last commit of the log, or the database alone.
LEMMA Recovered ==
    ASSUME Types, NEW c \in Connection, walIndexRecover(c)
    PROVE  \E m \in 0 .. MaxFrame, t \in 0 .. MaxTxn :
             /\ m > 0 => /\ file.aSalt # 0 /\ Chained(file.wal, file.aSalt, m)
                         /\ file.wal[m].commit /\ t = file.wal[m].txn
             /\ \A i \in Frames : file.aSalt # 0 /\ Chained(file.wal, file.aSalt, i)
                                  /\ file.wal[i].commit => i <= m
             /\ m = 0 =>
                  /\ t # 0 => states.db[t] = file.db /\ states.db[t] # states.db[0]
                  /\ \A u \in 1 .. MaxTxn : states.db[u] = file.db /\ states.db[u] # states.db[0] => u <= t
             /\ hdr'.isInit = TRUE /\ hdr'.txn = t /\ hdr'.mxFrame = m /\ hdr'.aSalt = file.aSalt
             /\ info'.nBackfill = 0
             /\ \A j \in 1 .. m : info'.aPgno[j] = file.wal[j].pgno
<1> DEFINE valid == {i \in Frames : walDecodeFrame(file, i)}
           commits == {0} \cup {i \in valid : file.wal[i].commit}
           inDb == {t \in 1 .. MaxTxn : states.db[t] = file.db /\ states.db[t] # states.db[0]}
           mx == Max(commits)
           last == IF mx > 0 THEN file.wal[mx].txn ELSE Max({0} \cup inDb)
<1>1. /\ hdr' = [isInit |-> TRUE, txn |-> last, mxFrame |-> mx, aSalt |-> file.aSalt]
      /\ info' = [NewInfo EXCEPT
                     !.aReadMark[1] = IF mx > 0 THEN mx ELSE READMARK_NOT_USED,
                     !.aPgno = [i \in Frames |-> IF i \in valid THEN file.wal[i].pgno ELSE 0]]
  BY DEF walIndexRecover
<1>2. \A i \in Frames : i \in valid <=> file.aSalt # 0 /\ Chained(file.wal, file.aSalt, i)
  BY DEF walDecodeFrame, Chained
<1>3. commits \in SUBSET (0 .. MaxFrame) /\ commits # {} /\ ({0} \cup inDb) \in SUBSET (0 .. MaxTxn)
  BY Constants DEF Frames
<1>4. mx \in commits /\ \A y \in commits : y <= mx
  <2> HIDE DEF commits
  <2> QED
    BY <1>3, Constants, MaxIs
<1>5. Max({0} \cup inDb) \in {0} \cup inDb /\ \A y \in {0} \cup inDb : y <= Max({0} \cup inDb)
  <2> HIDE DEF inDb
  <2> QED
    BY <1>3, Constants, MaxIs
<1>6. info'.nBackfill = 0 /\ info'.aPgno = [i \in Frames |-> IF i \in valid THEN file.wal[i].pgno ELSE 0]
  BY <1>1 DEF NewInfo
<1>7. mx \in 0 .. MaxFrame /\ (mx > 0 => mx \in valid /\ mx \in Frames /\ file.wal[mx].commit)
  BY <1>3, <1>4 DEF Frames
<1>8. \A j \in 1 .. mx : j \in Frames /\ j \in valid
  <2>1. \A j \in 1 .. mx : j \in Frames /\ \A k \in 1 .. j : k \in 1 .. mx
    <3> HIDE DEF mx, valid, commits
    <3>1. mx \in Nat /\ mx <= MaxFrame /\ MaxFrame \in Nat
      BY <1>7, Constants
    <3> QED
      BY ONLY <3>1 DEF Frames
  <2>2. mx > 0 => file.aSalt # 0 /\ Chained(file.wal, file.aSalt, mx)
    BY <1>2, <1>7
  <2>3. \A j \in 1 .. mx : file.aSalt # 0 /\ Chained(file.wal, file.aSalt, j)
    BY <1>7, <2>1, <2>2 DEF Chained
  <2> QED
    BY <1>2, <2>1, <2>3
<1>9. last \in 0 .. MaxTxn
  <2>1. mx > 0 => file.wal[mx].txn \in 0 .. MaxTxn
    BY <1>7, FilesAre
  <2> QED
    BY <1>3, <1>5, <2>1
<1>10. mx > 0 => /\ file.aSalt # 0 /\ Chained(file.wal, file.aSalt, mx)
                 /\ file.wal[mx].commit /\ last = file.wal[mx].txn
  BY <1>2, <1>7
<1>11. \A i \in Frames : file.aSalt # 0 /\ Chained(file.wal, file.aSalt, i) /\ file.wal[i].commit => i <= mx
  BY <1>2, <1>4
<1>12. mx = 0 =>
          /\ last # 0 => states.db[last] = file.db /\ states.db[last] # states.db[0]
          /\ \A u \in 1 .. MaxTxn : states.db[u] = file.db /\ states.db[u] # states.db[0] => u <= last
  <2>1. mx = 0 => last = Max({0} \cup inDb)
    OBVIOUS
  <2> QED
    BY <1>5, <2>1
<1>13. hdr'.isInit = TRUE /\ hdr'.txn = last /\ hdr'.mxFrame = mx /\ hdr'.aSalt = file.aSalt
  BY <1>1
<1>14. \A j \in 1 .. mx : info'.aPgno[j] = file.wal[j].pgno
  BY <1>6, <1>8
<1> HIDE DEF mx, last
<1> QED
  BY <1>6, <1>7, <1>9, <1>10, <1>11, <1>12, <1>13, <1>14

LEMMA RecoverStep == ASSUME IInv, NEW c \in Connection, walIndexRecover(c), Types' PROVE IInv'
<1>1. PICK g \in 0 .. MaxSalt, b \in 0 .. MaxTxn, K \in 0 .. MaxFrame : LogInv(g, b, K)
  BY DEF IInv
<1>2. /\ Types /\ FrameInv /\ NobodyCopies /\ MediumInv(g, b, K)
      /\ \A d \in Connection : PlaceInv(d) /\ ReaderInv(d)
  BY <1>1 DEF IInv, LogInv
<1>3. /\ UNCHANGED <<locks, file, conn, ckpt, salts, txn, crashes, states>> /\ ~hdr.isInit
  BY DEF walIndexRecover
<1>4. /\ conn = [d \in Connection |-> Idle] /\ locks.write = NoConn /\ locks.ckpt = NoConn
      /\ \A j \in Frames : file.walMay[j] = {file.wal[j]}
      /\ file.saltMay = {file.aSalt}
      /\ \A p \in Page : file.dbMay[p] = {file.db[p]}
  BY <1>3 DEF IInv, DownInv
<1>5. PICK m \in 0 .. MaxFrame, t \in 0 .. MaxTxn :
             /\ m > 0 => /\ file.aSalt # 0 /\ Chained(file.wal, file.aSalt, m)
                         /\ file.wal[m].commit /\ t = file.wal[m].txn
             /\ \A i \in Frames : file.aSalt # 0 /\ Chained(file.wal, file.aSalt, i)
                                  /\ file.wal[i].commit => i <= m
             /\ m = 0 =>
                  /\ t # 0 => states.db[t] = file.db /\ states.db[t] # states.db[0]
                  /\ \A u \in 1 .. MaxTxn : states.db[u] = file.db /\ states.db[u] # states.db[0] => u <= t
             /\ hdr'.isInit = TRUE /\ hdr'.txn = t /\ hdr'.mxFrame = m /\ hdr'.aSalt = file.aSalt
             /\ info'.nBackfill = 0
             /\ \A j \in 1 .. m : info'.aPgno[j] = file.wal[j].pgno
  BY <1>2, Recovered
<1>6. FrameInv' /\ DownInv' /\ NobodyCopies'
  BY <1>2, <1>3, <1>5 DEF FrameInv, DownInv, NobodyCopies
<1>7. ASSUME NEW d \in Connection PROVE PlaceInv(d)' /\ ReaderInv(d)'
  <2>1. conn[d].pc = "idle" /\ conn[d].readLock = -1 /\ d # NoConn /\ ~(-1 > 0)
    BY <1>4, Constants DEF Idle
  <2>2. PlaceInv(d)'
    BY <1>2, <1>3, <1>4, <2>1 DEF PlaceInv
  <2>3. ReaderInv(d)'
    BY <1>3, <2>1 DEF ReaderInv, Checked
  <2> QED
    BY <2>2, <2>3
<1>8. ASSUME NEW a \in 0 .. MaxSalt, NEW u \in 0 .. MaxTxn, NEW k \in 0 .. MaxFrame,
             MediumInv(a, u, k)', HdrInv(a, k)'
      PROVE  IInv'
  <2>1. ASSUME NEW d \in Connection PROVE WriterInv(d, a, u, k)' /\ CkptInv(d, k)'
    <3>1. locks'.write # d /\ locks'.ckpt # d /\ conn'[d].pc = "idle"
      BY <1>3, <1>4, Constants DEF Idle
    <3> QED
      BY <3>1 DEF WriterInv, CkptInv
  <2>2. LogInv(a, u, k)'
    BY <1>8, <2>1 DEF LogInv
  <2> QED
    BY <1>6, <1>7, <2>2 DEF IInv
<1>9. /\ t \in Nat /\ m \in Nat /\ b \in Nat /\ K \in Nat /\ states.floor \in Nat /\ txn \in Nat
      /\ file.aSalt \in 0 .. MaxSalt /\ file.aSalt <= salts /\ file.aSalt \in {g, 0}
  <2>1. file.aSalt \in 0 .. MaxSalt
    BY <1>2 DEF Types, Files
  <2> QED
    BY <1>2, <1>4, <2>1, Numbers, Constants DEF FrameInv, MediumInv
<1>10. K > 0 => file.aSalt # g \/ K <= m
  <2>1. K > 0 => K \in Frames /\ g # 0 /\ Chained(file.wal, g, K) /\ file.wal[K].commit
    BY <1>2, Constants DEF MediumInv, Frames
  <2> QED
    BY <1>5, <2>1
<1>11. CASE m > 0
  <2>1. file.aSalt = g /\ g # 0 /\ Chained(file.wal, g, m) /\ file.wal[m].commit /\ t = file.wal[m].txn
    BY <1>5, <1>9, <1>11
  <2>2. m \in Frames
    BY <1>11, Constants DEF Frames
  <2>3. Seals(states.db, file.wal, m, b, t) /\ t >= b /\ Real(states.db, t)
    <3>1. file.wal \in [Frames -> Frame] /\ Valid(file, file.wal, g, m)
      BY <1>2, <2>1, <2>2, WalIsValid, Constants
    <3> QED
      BY <1>2, <2>1, <2>2, <3>1 DEF MediumInv, LogOver
  <2>4. K <= m
    BY <1>9, <1>10, <2>1
  <2>5. t >= states.floor
    <3>1. CASE K = 0
      <4>1. b >= states.floor
        BY <1>2, <3>1 DEF MediumInv
      <4> QED
        BY <1>9, <2>3, <4>1
    <3>2. CASE K > 0
      <4>1. K \in 1 .. m /\ K \in Frames /\ \A j \in 1 .. m : j \in Frames
        BY <2>4, <3>2, Constants DEF Frames
      <4>2. \A j \in Frames : file.wal[j].txn \in Nat /\ file.wal[j].prev <= file.wal[j].txn
        BY <1>2, FilesAre DEF FrameInv
      <4>3. file.wal[K].txn <= file.wal[m].txn
        <5>1. \A j \in 1 .. m : file.wal[j].txn \in Nat /\ file.wal[j].prev <= file.wal[j].txn
          BY <4>1, <4>2
        <5> QED
          BY <1>9, <2>1, <4>1, <5>1, Ascends
      <4>4. file.wal[K].txn >= states.floor /\ file.wal[K].txn \in Nat
        BY <1>2, <3>2, <4>1, <4>2 DEF MediumInv
      <4> QED
        BY <1>9, <2>1, <4>3, <4>4
    <3> QED
      BY <1>9, <3>1, <3>2
  <2>6. t <= txn
    BY <1>2, <2>1, <2>2 DEF FrameInv
  <2>7. \A p \in Page : NoneOf(file.wal, p, 0 + 1, m) => file.db[p] = states.db[t][p]
    <3>1. \A p \in Page : NoneOf(file.wal, p, 0 + 1, m) => NoneOf(file.wal, p, 1, m) /\ NoneOf(file.wal, p, 1, K)
      BY <1>9, <2>4 DEF NoneOf
    <3>2. \A p \in Page : NoneOf(file.wal, p, 1, K) => file.db[p] = states.db[b][p]
      BY <1>2 DEF MediumInv, FrameInv
    <3> QED
      BY <2>3, <3>1, <3>2 DEF Seals
  <2>8. HdrInv(g, K)'
    <3>1. 0 <= m /\ 0 # m /\ m # 0
      BY <1>11
    <3> QED
      BY <1>3, <1>4, <1>5, <1>9, <2>1, <2>3, <2>4, <2>5, <2>6, <2>7, <3>1 DEF HdrInv
  <2>9. MediumInv(g, b, K)'
    BY <1>2, <1>3 DEF MediumInv
  <2> QED
    BY <1>8, <2>8, <2>9
<1>12. CASE m = 0
\* The database is that of a transaction that is known.
  <2>1. PICK u \in 0 .. MaxTxn :
           u >= states.floor /\ u <= txn /\ Whole(file, states.db, u) /\ Real(states.db, u)
    <3>1. CASE file.aSalt = 0
      BY <1>2, <1>4, <3>1 DEF MediumInv
    <3>2. CASE file.aSalt # 0
      <4>1. file.aSalt = g /\ K = 0
        BY <1>9, <1>10, <1>12, <3>2
      <4>2. \A p \in Page : NoneOf(file.wal, p, 1, K)
        BY <4>1 DEF NoneOf
      <4>3. Whole(file, states.db, b)
        BY <1>2, <4>2 DEF MediumInv, Whole
      <4> QED
        BY <1>2, <4>1, <4>3 DEF MediumInv
    <3> QED
      BY <3>1, <3>2
  <2>2. /\ states.db \in [0 .. MaxTxn -> [Page -> 0 .. MaxTxn]] /\ file.db \in [Page -> 0 .. Torn]
        /\ \A v \in 0 .. MaxTxn : v = 0 \/ v > txn => states.db[v] = [p \in Page |-> 0]
        /\ 0 \in 0 .. MaxTxn
    <3>1. states.db \in [0 .. MaxTxn -> [Page -> 0 .. MaxTxn]] /\ file.db \in [Page -> 0 .. Torn]
      BY <1>2, FilesAre
    <3>2. \A v \in 0 .. MaxTxn : v = 0 \/ v > txn => states.db[v] = [p \in Page |-> 0]
      BY <1>2 DEF FrameInv
    <3>3. 0 \in 0 .. MaxTxn
      BY Constants
    <3> QED
      BY <3>1, <3>2, <3>3, Zenon
  <2>3. file.db = states.db[u]
    <3>1. \A p \in Page : file.db[p] = states.db[u][p]
      BY <1>2, <2>1, WholeIs
    <3>2. states.db[u] \in [Page -> 0 .. MaxTxn]
      BY <2>2
    <3> QED
      BY <2>2, <3>1, <3>2
  <2>4. u # 0 => states.db[u] # states.db[0]
    BY <2>1, <2>2 DEF Real
  <2>5. u <= t
    BY <1>5, <1>9, <1>12, <2>3, <2>4
  <2>6. file.db = states.db[t]
    <3>1. CASE t = 0
      BY <2>3, <2>5, <3>1
    <3>2. CASE t # 0
      BY <1>5, <1>12, <3>2
    <3> QED
      BY <3>1, <3>2
  <2>7. t <= txn
    <3>1. CASE t = 0
      BY <1>9, <3>1
    <3>2. CASE t # 0
      <4>1. states.db[t] # states.db[0] /\ states.db[0] = [p \in Page |-> 0]
        BY <1>5, <1>12, <2>2, <3>2
      <4>2. t > txn => states.db[t] = [p \in Page |-> 0]
        BY <2>2
      <4> QED
        BY <1>9, <4>1, <4>2
    <3> QED
      BY <3>1, <3>2
  <2>8. Real(states.db, t)
    <3> SUFFICES ASSUME t # 0, \A p \in Page : states.db[t][p] = 0 PROVE FALSE
      BY DEF Real
    <3>1. states.db[t] \in [Page -> 0 .. MaxTxn] /\ states.db[0] = [p \in Page |-> 0]
      BY <2>2
    <3>2. states.db[t] = [p \in Page |-> 0]
      BY <3>1
    <3> QED
      BY <1>5, <1>12, <3>1, <3>2
  <2>9. t >= states.floor
    BY <1>9, <2>1, <2>5
  <2>10. LogOver(file, states.db, file.aSalt, t)
    <3> SUFFICES ASSUME file.aSalt # 0, NEW w, NEW i \in Frames, Valid(file, w, file.aSalt, i), w[i].commit
                 PROVE  FALSE
      BY DEF LogOver
    <3>1. \A j \in 1 .. i : w[j] = file.wal[j]
      <4>1. \A j \in 1 .. i : j \in Frames /\ w[j] \in file.walMay[j]
        BY Constants DEF Valid, Frames
      <4> QED
        BY <1>4, <4>1
    <3>2. Chained(file.wal, file.aSalt, i) /\ file.wal[i].commit
      <4>1. i \in 1 .. i /\ \A j \in 1 .. i : j # 1 => j - 1 \in 1 .. i
        BY Constants DEF Frames
      <4> QED
        BY <3>1, <4>1 DEF Valid, Chained
    <3>3. i <= 0 /\ i > 0
      BY <1>5, <1>12, <3>2, Constants DEF Frames
    <3> QED
      BY <3>3, Constants DEF Frames
  <2>11. Whole(file, states.db, t)
    BY <1>4, <2>6 DEF Whole
  <2>12. PICK a \in 0 .. MaxSalt : a = file.aSalt
    BY <1>9
  <2>13. MediumInv(a, t, 0)'
    BY <1>3, <1>4, <2>7, <2>8, <2>9, <2>10, <2>11, <2>12 DEF MediumInv, Whole
  <2>14. HdrInv(a, 0)'
    <3>1. ~(0 > 0) /\ 0 <= 0
      OBVIOUS
    <3> QED
      BY <1>3, <1>5, <1>9, <1>12, <2>6, <2>7, <2>8, <2>9, <2>10, <2>11, <2>12, <3>1 DEF HdrInv
  <2>15. 0 \in 0 .. MaxFrame
    BY Constants
  <2> QED
    BY <1>8, <2>13, <2>14, <2>15
<1> QED
  BY <1>9, <1>11, <1>12

-----------------------------------------------------------------------------
(* The invariant, and what it is for.                                      *)

LEMMA StepInv == ASSUME IInv, ~ResetRace, [Next]_vars PROVE IInv'
<1>1. CASE UNCHANGED vars
  <2>1. UNCHANGED <<hdr, info, locks, file, conn, ckpt, salts, txn, crashes, states>>
    BY <1>1 DEF vars
  <2> QED
    BY <2>1 DEF IInv, Types, FrameInv, DownInv, NobodyCopies, PlaceInv, ReaderInv, Checked, SnapFrame,
                LogInv, MediumInv, HdrInv, WriterInv, CkptInv, IsLast
<1>2. CASE PowerLoss
  <2>1. Types'
    BY <1>2, FaultTypes DEF IInv
  <2> QED
    BY <1>2, <2>1, PowerLossStep
<1>3. ASSUME NEW c \in Connection,
             \/ walIndexReadHdr(c) \/ TryLock0(c) \/ CheckLock0(c)
             \/ ChooseMark(c) \/ LockMark(c) \/ CheckMark(c)
             \/ sqlite3WalEndReadTransaction(c)
      PROVE  IInv'
  <2>1. Types'
    BY <1>3, ReaderTypes DEF IInv
  <2> QED
    BY <1>3, <2>1, ReadHdrStep, TryLock0Step, CheckLock0Step, ChooseMarkStep, LockMarkStep,
       CheckMarkStep, EndReadStep
<1>4. ASSUME NEW c \in Connection,
             \/ sqlite3WalBeginWriteTransaction(c) \/ walRestartLog(c) \/ WriteWalHdr(c)
             \/ \E p \in Page, commit \in BOOLEAN : AppendFrame(c, p, commit)
             \/ Commit(c) \/ Rollback(c)
      PROVE  IInv'
  <2>1. Types'
    BY <1>4, WriterTypes DEF IInv
  <2> QED
    BY <1>4, <2>1, BeginWriteStep, RestartLogStep, WriteWalHdrStep, AppendFrameStep, CommitStep,
       RollbackStep
<1>5. ASSUME NEW c \in Connection,
             \/ CkptBegin(c) \/ CkptCompare(c) \/ CkptMark(c) \/ CkptLockDb(c)
             \/ CkptCopy(c) \/ CkptCopied(c) \/ CkptFails(c) \/ CkptTruncate(c)
             \/ CkptRelease(c)
      PROVE  IInv'
  <2>1. Types'
    BY <1>5, CkptTypes DEF IInv
  <2> QED
    BY <1>5, <2>1, CkptBeginStep, CkptCompareStep, CkptMarkStep, CkptLockDbStep, CkptCopyStep,
       CkptCopiedStep, CkptFailsStep, CkptTruncateStep, CkptReleaseStep
<1>6. ASSUME NEW c \in Connection, walIndexRecover(c) \/ Crash(c) PROVE IInv'
  <2>1. Types'
    BY <1>6, FaultTypes DEF IInv
  <2> QED
    BY <1>6, <2>1, RecoverStep, CrashStep
<1> QED
  BY <1>1, <1>2, <1>3, <1>4, <1>5, <1>6 DEF Next

LEMMA Invariant == ASSUME ~ResetRace PROVE Spec => []IInv
<1>1. IInv /\ [Next]_vars => IInv'
  BY StepInv
<1> QED
  BY <1>1, InitInv, PTL DEF Spec

LEMMA StepTypes == ASSUME Types, [Next]_vars PROVE Types'
<1>1. CASE UNCHANGED vars
  BY <1>1 DEF vars, Types
<1>2. CASE PowerLoss
  BY <1>2, FaultTypes
<1>3. ASSUME NEW c \in Connection,
             \/ walIndexReadHdr(c) \/ TryLock0(c) \/ CheckLock0(c)
             \/ ChooseMark(c) \/ LockMark(c) \/ CheckMark(c)
             \/ sqlite3WalEndReadTransaction(c)
      PROVE  Types'
  BY <1>3, ReaderTypes
<1>4. ASSUME NEW c \in Connection,
             \/ sqlite3WalBeginWriteTransaction(c) \/ walRestartLog(c) \/ WriteWalHdr(c)
             \/ \E p \in Page, commit \in BOOLEAN : AppendFrame(c, p, commit)
             \/ Commit(c) \/ Rollback(c)
      PROVE  Types'
  BY <1>4, WriterTypes
<1>5. ASSUME NEW c \in Connection,
             \/ CkptBegin(c) \/ CkptCompare(c) \/ CkptMark(c) \/ CkptLockDb(c)
             \/ CkptCopy(c) \/ CkptCopied(c) \/ CkptFails(c) \/ CkptTruncate(c)
             \/ CkptRelease(c)
      PROVE  Types'
  BY <1>5, CkptTypes
<1>6. ASSUME NEW c \in Connection, walIndexRecover(c) \/ Crash(c) PROVE Types'
  BY <1>6, FaultTypes
<1> QED
  BY <1>1, <1>2, <1>3, <1>4, <1>5, <1>6 DEF Next

\* The log, the wal-index and the database stay within their types, also when the log
\* starts again under a checkpoint (ResetRace): no frame is written behind the log, no
\* page copied that is none (walIndexAppend, walCheckpoint).
THEOREM WalTypeOK == Spec => []TypeOK
<1>1. Init => Types
  BY InitInv DEF IInv
<1>2. Types /\ [Next]_vars => Types'
  BY StepTypes
<1>3. Types => TypeOK
  BY TypesImplyTypeOK
<1> QED
  BY <1>1, <1>2, <1>3, PTL DEF Spec

\* Between the checks of walTryBeginRead and the end of its transaction, a reader
\* finds every page as its snapshot has it (sqlite3WalFindFrame), whatever writers,
\* checkpoints of every mode and restarts of the log do meanwhile.
THEOREM SnapshotsAreHeld == ASSUME ~ResetRace PROVE Spec => []SnapshotHeld
BY Invariant, IInvImpliesSnapshotHeld, PTL

\* The log behind nBackfill over the database file is the last commit: a checkpoint
\* that stops or fails in between, a restart of the log, a crash, a power loss and
\* the recovery after it lose none and show none by half (walCheckpoint, walIndexRecover).
THEOREM CommitsAreKept == ASSUME ~ResetRace PROVE Spec => []CommitsKept
BY Invariant, IInvImpliesCommitsKept, PTL

\* A transaction that was synced, by its commit (synchronous=FULL) or by a checkpoint
\* before its copy, is found by every later recovery (sqlite3WalFrames, walCheckpoint).
THEOREM SyncedCommitsAreKept == ASSUME ~ResetRace PROVE Spec => []SyncedKept
BY Invariant, IInvImpliesSyncedKept, PTL

\* nBackfill is not greater than mxFrame (wal.c:339), but for the restart of the log
\* that a passive checkpoint does not see (wal.c:1791).
THEOREM BackfillStaysInLog == ASSUME ~ResetRace PROVE Spec => []BackfillInLog
BY Invariant, IInvImpliesSyncedKept, PTL
=============================================================================
