-------------------------- MODULE ConnectionsProofs --------------------------
(***************************************************************************)
(* First the locks of WinLocks exclude each other, for any set of handles. *)
(* Then the pager keeps to the rules of winLock: whatever is proved of the *)
(* locks holds for the connections as they use them.  And because they     *)
(* exclude each other as they do, what the files hold and what each        *)
(* connection makes of them is an inductive invariant, IInv: one lemma     *)
(* for each action, then the theorems at the end.                          *)
(***************************************************************************)
EXTENDS Connections, SequenceTheorems, TLAPS

-----------------------------------------------------------------------------
(* The locks. *)

\* What the system grants: beside an exclusive lock there is no other.
Granted ==
    \A r \in Ranges : \A c, d \in Conn :
        c # d /\ held[r][c] = "exclusive" => held[r][d] = "free"

\* The level a call starts from, and the level it was asked for, at each of its
\* system calls.
InCall(c) ==
    /\ at[c] = "pending" => \/ want[c] = SHARED_LOCK /\ locktype[c] = NO_LOCK
                            \/ want[c] = EXCLUSIVE_LOCK
                               /\ locktype[c] \in {SHARED_LOCK, RESERVED_LOCK}
    /\ at[c] \in {"read", "unpend"} => want[c] = SHARED_LOCK /\ locktype[c] = NO_LOCK
    /\ at[c] = "reserve" => locktype[c] = SHARED_LOCK
    /\ at[c] \in {"unread", "range", "reread"} => locktype[c] \in SHARED_LOCK .. PENDING_LOCK
    /\ at[c] \in {"peek", "unpeek"} => locktype[c] \in {NO_LOCK, SHARED_LOCK}
    /\ at[c] \in {"unrange", "regain"} =>
         locktype[c] = EXCLUSIVE_LOCK /\ want[c] \in {NO_LOCK, SHARED_LOCK}
    /\ at[c] = "regain" => want[c] = SHARED_LOCK
    /\ at[c] = "unreserve" => locktype[c] >= RESERVED_LOCK /\ want[c] \in {NO_LOCK, SHARED_LOCK}
    /\ at[c] = "release" => locktype[c] >= SHARED_LOCK /\ want[c] = NO_LOCK
    /\ at[c] = "unpending" => locktype[c] >= PENDING_LOCK /\ want[c] \in {NO_LOCK, SHARED_LOCK}

\* Which ranges a handle has locked, by its level and the call it is about to make.
\* The PENDING byte is held from the attempt on to the very last step down.
HasRanges(c) ==
    /\ \/ locktype[c] >= PENDING_LOCK
       \/ at[c] \in {"read", "unpend", "unread", "range", "reread"}
       => held["PENDING"][c] = "exclusive"
    /\ held["SHARED"][c] = "exclusive" =>
         locktype[c] = EXCLUSIVE_LOCK /\ at[c] \in {"none", "unrange"}
    /\ /\ locktype[c] \in SHARED_LOCK .. PENDING_LOCK
       /\ at[c] \in {"none", "pending", "reserve", "unread", "peek", "unpeek"}
       => held["SHARED"][c] = "shared"
    /\ at[c] \in {"unreserve", "unpending"} /\ want[c] = SHARED_LOCK
       => held["SHARED"][c] = "shared"
    /\ at[c] = "unpend" /\ res[c] => held["SHARED"][c] = "shared"
    /\ locktype[c] >= SHARED_LOCK
       => held["SHARED"][c] # "free" \/ held["PENDING"][c] = "exclusive"
    /\ /\ locktype[c] = RESERVED_LOCK
       /\ at[c] \in {"none", "pending", "unread", "range", "reread"}
       => held["RESERVED"][c] = "exclusive"

\* Beside EXCLUSIVE no handle has a level, nor a lock on the shared range that its
\* level does not show yet.
Alone ==
    \A c, d \in Conn : c # d /\ locktype[c] = EXCLUSIVE_LOCK =>
        locktype[d] = NO_LOCK /\ held["SHARED"][d] = "free"

LockInv ==
    /\ LockTypeOK
    /\ Granted
    /\ \A c \in Conn : InCall(c) /\ HasRanges(c)
    /\ Alone

-----------------------------------------------------------------------------

LEMMA LockPendingKeeps ==
    ASSUME LockInv, NEW c \in Conn, LockPending(c)
    PROVE  LockInv'
<1> USE DEF Ranges, Holds, Steps, NO_LOCK, SHARED_LOCK, RESERVED_LOCK, PENDING_LOCK, EXCLUSIVE_LOCK
<1>1. LockTypeOK'
  <2>1. LockTypeOK
    BY DEF LockInv
  <2>2. held' \in [Ranges -> [Conn -> Holds]]
    BY <2>1 DEF LockTypeOK, LockPending, Free, SetHeld, Go, Return
  <2>3. locktype' \in [Conn -> NO_LOCK .. EXCLUSIVE_LOCK] /\ want' \in [Conn -> NO_LOCK .. EXCLUSIVE_LOCK]
    BY <2>1 DEF LockTypeOK, LockPending, Free, SetHeld, Go, Return
  <2>4. at' \in [Conn -> Steps]
    BY <2>1 DEF LockTypeOK, LockPending, Free, SetHeld, Go, Return
  <2>5. res' \in [Conn -> BOOLEAN]
    BY <2>1 DEF LockTypeOK, LockPending, Free, SetHeld, Go, Return
  <2> QED
    BY <2>2, <2>3, <2>4, <2>5 DEF LockTypeOK
<1>2. Granted'
  BY DEF LockInv, LockTypeOK, Granted, LockPending, Free, SetHeld, Go, Return
<1>3. ASSUME NEW e \in Conn PROVE InCall(e)'
  BY DEF LockInv, LockTypeOK, InCall, LockPending, Free, SetHeld, Go, Return
<1>4. ASSUME NEW e \in Conn PROVE HasRanges(e)'
  BY DEF LockInv, LockTypeOK, Granted, InCall, HasRanges, LockPending, Free, SetHeld, Go, Return
<1>5. Alone'
  BY DEF LockInv, LockTypeOK, Granted, InCall, HasRanges, Alone, LockPending, Free, SetHeld, Go, Return
<1> QED
  BY <1>1, <1>2, <1>3, <1>4, <1>5 DEF LockInv

LEMMA LockReadKeeps ==
    ASSUME LockInv, NEW c \in Conn, LockRead(c)
    PROVE  LockInv'
<1> USE DEF Ranges, Holds, Steps, NO_LOCK, SHARED_LOCK, RESERVED_LOCK, PENDING_LOCK, EXCLUSIVE_LOCK
<1>1. LockTypeOK'
  BY DEF LockInv, LockTypeOK, LockRead, Free, SetHeld, Go
<1>2. Granted'
  BY DEF LockInv, LockTypeOK, Granted, LockRead, Free, SetHeld, Go
<1>3. ASSUME NEW e \in Conn PROVE InCall(e)'
  BY DEF LockInv, LockTypeOK, InCall, LockRead, Free, SetHeld, Go
<1>4. ASSUME NEW e \in Conn PROVE HasRanges(e)'
  BY DEF LockInv, LockTypeOK, Granted, InCall, HasRanges, LockRead, Free, SetHeld, Go
<1>5. Alone'
  BY DEF LockInv, LockTypeOK, Granted, InCall, HasRanges, Alone, LockRead, Free, SetHeld, Go
<1> QED
  BY <1>1, <1>2, <1>3, <1>4, <1>5 DEF LockInv

LEMMA UnlockPendingAgainKeeps ==
    ASSUME LockInv, NEW c \in Conn, UnlockPendingAgain(c)
    PROVE  LockInv'
<1> USE DEF Ranges, Holds, Steps, NO_LOCK, SHARED_LOCK, RESERVED_LOCK, PENDING_LOCK, EXCLUSIVE_LOCK
<1>1. LockTypeOK'
  BY DEF LockInv, LockTypeOK, UnlockPendingAgain, SetHeld, Return
<1>2. Granted'
  BY DEF LockInv, LockTypeOK, Granted, UnlockPendingAgain, SetHeld, Return
<1>3. ASSUME NEW e \in Conn PROVE InCall(e)'
  BY DEF LockInv, LockTypeOK, InCall, UnlockPendingAgain, SetHeld, Return
<1>4. ASSUME NEW e \in Conn PROVE HasRanges(e)'
  BY DEF LockInv, LockTypeOK, Granted, InCall, HasRanges, UnlockPendingAgain, SetHeld, Return
<1>5. Alone'
  BY DEF LockInv, LockTypeOK, Granted, InCall, HasRanges, Alone, UnlockPendingAgain, SetHeld, Return
<1> QED
  BY <1>1, <1>2, <1>3, <1>4, <1>5 DEF LockInv

LEMMA LockReservedKeeps ==
    ASSUME LockInv, NEW c \in Conn, LockReserved(c)
    PROVE  LockInv'
<1> USE DEF Ranges, Holds, Steps, NO_LOCK, SHARED_LOCK, RESERVED_LOCK, PENDING_LOCK, EXCLUSIVE_LOCK
<1>1. LockTypeOK'
  <2>1. LockTypeOK
    BY DEF LockInv
  <2>2. held' \in [Ranges -> [Conn -> Holds]]
    BY <2>1 DEF LockTypeOK, LockReserved, Free, SetHeld, Return
  <2>3. locktype' \in [Conn -> NO_LOCK .. EXCLUSIVE_LOCK] /\ want' \in [Conn -> NO_LOCK .. EXCLUSIVE_LOCK]
    BY <2>1 DEF LockTypeOK, LockReserved, Free, SetHeld, Return
  <2>4. at' \in [Conn -> Steps]
    BY <2>1 DEF LockTypeOK, LockReserved, Free, SetHeld, Return
  <2>5. res' \in [Conn -> BOOLEAN]
    BY <2>1 DEF LockTypeOK, LockReserved, Free, SetHeld, Return
  <2> QED
    BY <2>2, <2>3, <2>4, <2>5 DEF LockTypeOK
<1>2. Granted'
  BY DEF LockInv, LockTypeOK, Granted, LockReserved, Free, SetHeld, Return
<1>3. ASSUME NEW e \in Conn PROVE InCall(e)'
  BY DEF LockInv, LockTypeOK, InCall, LockReserved, Free, SetHeld, Return
<1>4. ASSUME NEW e \in Conn PROVE HasRanges(e)'
  BY DEF LockInv, LockTypeOK, Granted, InCall, HasRanges, LockReserved, Free, SetHeld, Return
<1>5. Alone'
  BY DEF LockInv, LockTypeOK, Granted, InCall, HasRanges, Alone, LockReserved, Free, SetHeld, Return
<1> QED
  BY <1>1, <1>2, <1>3, <1>4, <1>5 DEF LockInv

LEMMA UnlockReadKeeps ==
    ASSUME LockInv, NEW c \in Conn, UnlockRead(c)
    PROVE  LockInv'
<1> USE DEF Ranges, Holds, Steps, NO_LOCK, SHARED_LOCK, RESERVED_LOCK, PENDING_LOCK, EXCLUSIVE_LOCK
<1>1. LockTypeOK'
  BY DEF LockInv, LockTypeOK, UnlockRead, SetHeld, Go
<1>2. Granted'
  BY DEF LockInv, LockTypeOK, Granted, UnlockRead, SetHeld, Go
<1>3. ASSUME NEW e \in Conn PROVE InCall(e)'
  BY DEF LockInv, LockTypeOK, InCall, UnlockRead, SetHeld, Go
<1>4. ASSUME NEW e \in Conn PROVE HasRanges(e)'
  BY DEF LockInv, LockTypeOK, Granted, InCall, HasRanges, UnlockRead, SetHeld, Go
<1>5. Alone'
  BY DEF LockInv, LockTypeOK, Granted, InCall, HasRanges, Alone, UnlockRead, SetHeld, Go
<1> QED
  BY <1>1, <1>2, <1>3, <1>4, <1>5 DEF LockInv

LEMMA LockRangeKeeps ==
    ASSUME LockInv, NEW c \in Conn, LockRange(c)
    PROVE  LockInv'
<1> USE DEF Ranges, Holds, Steps, NO_LOCK, SHARED_LOCK, RESERVED_LOCK, PENDING_LOCK, EXCLUSIVE_LOCK
<1>1. LockTypeOK'
  <2>1. LockTypeOK
    BY DEF LockInv
  <2>2. held' \in [Ranges -> [Conn -> Holds]]
    BY <2>1 DEF LockTypeOK, LockRange, Free, SetHeld, Go, Return
  <2>3. locktype' \in [Conn -> NO_LOCK .. EXCLUSIVE_LOCK] /\ want' \in [Conn -> NO_LOCK .. EXCLUSIVE_LOCK]
    BY <2>1 DEF LockTypeOK, LockRange, Free, SetHeld, Go, Return
  <2>4. at' \in [Conn -> Steps]
    BY <2>1 DEF LockTypeOK, LockRange, Free, SetHeld, Go, Return
  <2>5. res' \in [Conn -> BOOLEAN]
    BY <2>1 DEF LockTypeOK, LockRange, Free, SetHeld, Go, Return
  <2> QED
    BY <2>2, <2>3, <2>4, <2>5 DEF LockTypeOK
<1>2. Granted'
  BY DEF LockInv, LockTypeOK, Granted, LockRange, Free, SetHeld, Go, Return
<1>3. ASSUME NEW e \in Conn PROVE InCall(e)'
  BY DEF LockInv, LockTypeOK, InCall, LockRange, Free, SetHeld, Go, Return
<1>4. ASSUME NEW e \in Conn PROVE HasRanges(e)'
  BY DEF LockInv, LockTypeOK, Granted, InCall, HasRanges, LockRange, Free, SetHeld, Go, Return
<1>5. Alone'
  BY DEF LockInv, LockTypeOK, Granted, InCall, HasRanges, Alone, LockRange, Free, SetHeld, Go, Return
<1> QED
  BY <1>1, <1>2, <1>3, <1>4, <1>5 DEF LockInv

LEMMA RelockReadKeeps ==
    ASSUME LockInv, NEW c \in Conn, RelockRead(c)
    PROVE  LockInv'
<1> USE DEF Ranges, Holds, Steps, NO_LOCK, SHARED_LOCK, RESERVED_LOCK, PENDING_LOCK, EXCLUSIVE_LOCK
<1>1. LockTypeOK'
  BY DEF LockInv, LockTypeOK, RelockRead, Free, SetHeld, Return
<1>2. Granted'
  BY DEF LockInv, LockTypeOK, Granted, RelockRead, Free, SetHeld, Return
<1>3. ASSUME NEW e \in Conn PROVE InCall(e)'
  BY DEF LockInv, LockTypeOK, InCall, RelockRead, Free, SetHeld, Return
<1>4. ASSUME NEW e \in Conn PROVE HasRanges(e)'
  BY DEF LockInv, LockTypeOK, Granted, InCall, HasRanges, RelockRead, Free, SetHeld, Return
<1>5. Alone'
  BY DEF LockInv, LockTypeOK, Granted, InCall, HasRanges, Alone, RelockRead, Free, SetHeld, Return
<1> QED
  BY <1>1, <1>2, <1>3, <1>4, <1>5 DEF LockInv

LEMMA PeekReservedKeeps ==
    ASSUME LockInv, NEW c \in Conn, PeekReserved(c)
    PROVE  LockInv'
<1> USE DEF Ranges, Holds, Steps, NO_LOCK, SHARED_LOCK, RESERVED_LOCK, PENDING_LOCK, EXCLUSIVE_LOCK
<1>1. LockTypeOK'
  BY DEF LockInv, LockTypeOK, PeekReserved, Free, SetHeld, Go
<1>2. Granted'
  BY DEF LockInv, LockTypeOK, Granted, PeekReserved, Free, SetHeld, Go
<1>3. ASSUME NEW e \in Conn PROVE InCall(e)'
  BY DEF LockInv, LockTypeOK, InCall, PeekReserved, Free, SetHeld, Go
<1>4. ASSUME NEW e \in Conn PROVE HasRanges(e)'
  BY DEF LockInv, LockTypeOK, Granted, InCall, HasRanges, PeekReserved, Free, SetHeld, Go
<1>5. Alone'
  BY DEF LockInv, LockTypeOK, Granted, InCall, HasRanges, Alone, PeekReserved, Free, SetHeld, Go
<1> QED
  BY <1>1, <1>2, <1>3, <1>4, <1>5 DEF LockInv

LEMMA UnpeekReservedKeeps ==
    ASSUME LockInv, NEW c \in Conn, UnpeekReserved(c)
    PROVE  LockInv'
<1> USE DEF Ranges, Holds, Steps, NO_LOCK, SHARED_LOCK, RESERVED_LOCK, PENDING_LOCK, EXCLUSIVE_LOCK
<1>1. LockTypeOK'
  BY DEF LockInv, LockTypeOK, UnpeekReserved, SetHeld, Go
<1>2. Granted'
  BY DEF LockInv, LockTypeOK, Granted, UnpeekReserved, SetHeld, Go
<1>3. ASSUME NEW e \in Conn PROVE InCall(e)'
  BY DEF LockInv, LockTypeOK, InCall, UnpeekReserved, SetHeld, Go
<1>4. ASSUME NEW e \in Conn PROVE HasRanges(e)'
  BY DEF LockInv, LockTypeOK, Granted, InCall, HasRanges, UnpeekReserved, SetHeld, Go
<1>5. Alone'
  BY DEF LockInv, LockTypeOK, Granted, InCall, HasRanges, Alone, UnpeekReserved, SetHeld, Go
<1> QED
  BY <1>1, <1>2, <1>3, <1>4, <1>5 DEF LockInv

LEMMA UnlockRangeKeeps ==
    ASSUME LockInv, NEW c \in Conn, UnlockRange(c)
    PROVE  LockInv'
<1> USE DEF Ranges, Holds, Steps, NO_LOCK, SHARED_LOCK, RESERVED_LOCK, PENDING_LOCK, EXCLUSIVE_LOCK
<1>1. LockTypeOK'
  BY DEF LockInv, LockTypeOK, UnlockRange, SetHeld, Go
<1>2. Granted'
  BY DEF LockInv, LockTypeOK, Granted, UnlockRange, SetHeld, Go
<1>3. ASSUME NEW e \in Conn PROVE InCall(e)'
  BY DEF LockInv, LockTypeOK, InCall, UnlockRange, SetHeld, Go
<1>4. ASSUME NEW e \in Conn PROVE HasRanges(e)'
  BY DEF LockInv, LockTypeOK, Granted, InCall, HasRanges, UnlockRange, SetHeld, Go
<1>5. Alone'
  BY DEF LockInv, LockTypeOK, Granted, InCall, HasRanges, Alone, UnlockRange, SetHeld, Go
<1> QED
  BY <1>1, <1>2, <1>3, <1>4, <1>5 DEF LockInv

LEMMA RegainReadKeeps ==
    ASSUME LockInv, NEW c \in Conn, RegainRead(c)
    PROVE  LockInv'
<1> USE DEF Ranges, Holds, Steps, NO_LOCK, SHARED_LOCK, RESERVED_LOCK, PENDING_LOCK, EXCLUSIVE_LOCK
<1>1. LockTypeOK'
  BY DEF LockInv, LockTypeOK, RegainRead, Free, SetHeld, Go
<1>2. Granted'
  BY DEF LockInv, LockTypeOK, Granted, RegainRead, Free, SetHeld, Go
<1>3. ASSUME NEW e \in Conn PROVE InCall(e)'
  BY DEF LockInv, LockTypeOK, InCall, RegainRead, Free, SetHeld, Go
<1>4. ASSUME NEW e \in Conn PROVE HasRanges(e)'
  BY DEF LockInv, LockTypeOK, Granted, InCall, HasRanges, RegainRead, Free, SetHeld, Go
<1>5. Alone'
  BY DEF LockInv, LockTypeOK, Granted, InCall, HasRanges, Alone, RegainRead, Free, SetHeld, Go
<1> QED
  BY <1>1, <1>2, <1>3, <1>4, <1>5 DEF LockInv

LEMMA UnlockReservedKeeps ==
    ASSUME LockInv, NEW c \in Conn, UnlockReserved(c)
    PROVE  LockInv'
<1> USE DEF Ranges, Holds, Steps, NO_LOCK, SHARED_LOCK, RESERVED_LOCK, PENDING_LOCK, EXCLUSIVE_LOCK
<1>1. LockTypeOK'
  BY DEF LockInv, LockTypeOK, UnlockReserved, SetHeld, Go, Lower, AfterReserve
<1>2. Granted'
  BY DEF LockInv, LockTypeOK, Granted, UnlockReserved, SetHeld, Go, Lower, AfterReserve
<1>3. ASSUME NEW e \in Conn PROVE InCall(e)'
  BY DEF LockInv, LockTypeOK, InCall, UnlockReserved, SetHeld, Go, Lower, AfterReserve
<1>4. ASSUME NEW e \in Conn PROVE HasRanges(e)'
  BY DEF LockInv, LockTypeOK, Granted, InCall, HasRanges, UnlockReserved, SetHeld, Go, Lower, AfterReserve
<1>5. Alone'
  BY DEF LockInv, LockTypeOK, Granted, InCall, HasRanges, Alone, UnlockReserved, SetHeld, Go, Lower, AfterReserve
<1> QED
  BY <1>1, <1>2, <1>3, <1>4, <1>5 DEF LockInv

LEMMA ReleaseReadKeeps ==
    ASSUME LockInv, NEW c \in Conn, ReleaseRead(c)
    PROVE  LockInv'
<1> USE DEF Ranges, Holds, Steps, NO_LOCK, SHARED_LOCK, RESERVED_LOCK, PENDING_LOCK, EXCLUSIVE_LOCK
<1>1. LockTypeOK'
  BY DEF LockInv, LockTypeOK, ReleaseRead, SetHeld, Go, Lower, AfterRelease
<1>2. Granted'
  BY DEF LockInv, LockTypeOK, Granted, ReleaseRead, SetHeld, Go, Lower, AfterRelease
<1>3. ASSUME NEW e \in Conn PROVE InCall(e)'
  BY DEF LockInv, LockTypeOK, InCall, ReleaseRead, SetHeld, Go, Lower, AfterRelease
<1>4. ASSUME NEW e \in Conn PROVE HasRanges(e)'
  BY DEF LockInv, LockTypeOK, Granted, InCall, HasRanges, ReleaseRead, SetHeld, Go, Lower, AfterRelease
<1>5. Alone'
  BY DEF LockInv, LockTypeOK, Granted, InCall, HasRanges, Alone, ReleaseRead, SetHeld, Go, Lower, AfterRelease
<1> QED
  BY <1>1, <1>2, <1>3, <1>4, <1>5 DEF LockInv

LEMMA UnlockPendingKeeps ==
    ASSUME LockInv, NEW c \in Conn, UnlockPending(c)
    PROVE  LockInv'
<1> USE DEF Ranges, Holds, Steps, NO_LOCK, SHARED_LOCK, RESERVED_LOCK, PENDING_LOCK, EXCLUSIVE_LOCK
<1>1. LockTypeOK'
  BY DEF LockInv, LockTypeOK, UnlockPending, SetHeld, Go, Lower
<1>2. Granted'
  BY DEF LockInv, LockTypeOK, Granted, UnlockPending, SetHeld, Go, Lower
<1>3. ASSUME NEW e \in Conn PROVE InCall(e)'
  BY DEF LockInv, LockTypeOK, InCall, UnlockPending, SetHeld, Go, Lower
<1>4. ASSUME NEW e \in Conn PROVE HasRanges(e)'
  BY DEF LockInv, LockTypeOK, Granted, InCall, HasRanges, UnlockPending, SetHeld, Go, Lower
<1>5. Alone'
  BY DEF LockInv, LockTypeOK, Granted, InCall, HasRanges, Alone, UnlockPending, SetHeld, Go, Lower
<1> QED
  BY <1>1, <1>2, <1>3, <1>4, <1>5 DEF LockInv

LEMMA winCheckReservedLockKeeps ==
    ASSUME LockInv, NEW c \in Conn, winCheckReservedLock(c)
    PROVE  LockInv'
<1> USE DEF Ranges, Holds, Steps, NO_LOCK, SHARED_LOCK, RESERVED_LOCK, PENDING_LOCK, EXCLUSIVE_LOCK
<1>1. LockTypeOK'
  BY DEF LockInv, LockTypeOK, winCheckReservedLock, Go
<1>2. Granted'
  BY DEF LockInv, LockTypeOK, Granted, winCheckReservedLock, Go
<1>3. ASSUME NEW e \in Conn PROVE InCall(e)'
  BY DEF LockInv, LockTypeOK, InCall, winCheckReservedLock, Go
<1>4. ASSUME NEW e \in Conn PROVE HasRanges(e)'
  BY DEF LockInv, LockTypeOK, Granted, InCall, HasRanges, winCheckReservedLock, Go
<1>5. Alone'
  BY DEF LockInv, LockTypeOK, Granted, InCall, HasRanges, Alone, winCheckReservedLock, Go
<1> QED
  BY <1>1, <1>2, <1>3, <1>4, <1>5 DEF LockInv

LEMMA DropLocksKeeps ==
    ASSUME LockInv, NEW c \in Conn, DropLocks(c)
    PROVE  LockInv'
<1> USE DEF Ranges, Holds, Steps, NO_LOCK, SHARED_LOCK, RESERVED_LOCK, PENDING_LOCK, EXCLUSIVE_LOCK
<1>1. LockTypeOK'
  BY DEF LockInv, LockTypeOK, DropLocks, Go
<1>2. Granted'
  BY DEF LockInv, LockTypeOK, Granted, DropLocks, Go
<1>3. ASSUME NEW e \in Conn PROVE InCall(e)'
  BY DEF LockInv, LockTypeOK, InCall, DropLocks, Go
<1>4. ASSUME NEW e \in Conn PROVE HasRanges(e)'
  BY DEF LockInv, LockTypeOK, Granted, InCall, HasRanges, DropLocks, Go
<1>5. Alone'
  BY DEF LockInv, LockTypeOK, Granted, InCall, HasRanges, Alone, DropLocks, Go
<1> QED
  BY <1>1, <1>2, <1>3, <1>4, <1>5 DEF LockInv

LEMMA winLockKeeps ==
    ASSUME LockInv, NEW c \in Conn,
           NEW level \in {SHARED_LOCK, RESERVED_LOCK, EXCLUSIVE_LOCK}, winLock(c, level)
    PROVE  LockInv'
<1> USE DEF Ranges, Holds, Steps, NO_LOCK, SHARED_LOCK, RESERVED_LOCK, PENDING_LOCK, EXCLUSIVE_LOCK
<1>1. LockTypeOK'
  <2>1. LockTypeOK
    BY DEF LockInv
  <2>2. held' \in [Ranges -> [Conn -> Holds]]
    BY <2>1 DEF LockTypeOK, winLock, Go
  <2>3. locktype' \in [Conn -> NO_LOCK .. EXCLUSIVE_LOCK] /\ want' \in [Conn -> NO_LOCK .. EXCLUSIVE_LOCK]
    BY <2>1 DEF LockTypeOK, winLock, Go
  <2>4. at' \in [Conn -> Steps]
    BY <2>1 DEF LockTypeOK, winLock, Go
  <2>5. res' \in [Conn -> BOOLEAN]
    BY <2>1 DEF LockTypeOK, winLock, Go
  <2> QED
    BY <2>2, <2>3, <2>4, <2>5 DEF LockTypeOK
<1>2. Granted'
  BY DEF LockInv, LockTypeOK, Granted, winLock, Go
<1>3. ASSUME NEW e \in Conn PROVE InCall(e)'
  BY DEF LockInv, LockTypeOK, InCall, winLock, Go
<1>4. ASSUME NEW e \in Conn PROVE HasRanges(e)'
  BY DEF LockInv, LockTypeOK, Granted, InCall, HasRanges, winLock, Go
<1>5. Alone'
  BY DEF LockInv, LockTypeOK, Granted, InCall, HasRanges, Alone, winLock, Go
<1> QED
  BY <1>1, <1>2, <1>3, <1>4, <1>5 DEF LockInv

LEMMA winUnlockKeeps ==
    ASSUME LockInv, NEW c \in Conn,
           NEW level \in {NO_LOCK, SHARED_LOCK}, winUnlock(c, level)
    PROVE  LockInv'
<1> USE DEF Ranges, Holds, Steps, NO_LOCK, SHARED_LOCK, RESERVED_LOCK, PENDING_LOCK, EXCLUSIVE_LOCK
<1>1. LockTypeOK'
  BY DEF LockInv, LockTypeOK, winUnlock, Go
<1>2. Granted'
  BY DEF LockInv, LockTypeOK, Granted, winUnlock, Go
<1>3. ASSUME NEW e \in Conn PROVE InCall(e)'
  BY DEF LockInv, LockTypeOK, InCall, winUnlock, Go
<1>4. ASSUME NEW e \in Conn PROVE HasRanges(e)'
  <2>1. CASE e = c
    <3>1. CASE locktype[c] = EXCLUSIVE_LOCK
      <4>1. at[c] = "none" /\ at'[c] = "unrange" /\ UNCHANGED <<held, locktype, res>>
        BY <3>1 DEF LockInv, LockTypeOK, winUnlock, Go
      <4>2. HasRanges(c)
        BY DEF LockInv
      <4> QED
        BY <2>1, <3>1, <4>1, <4>2 DEF HasRanges
    <3>2. CASE locktype[c] \in {RESERVED_LOCK, PENDING_LOCK}
      BY <2>1, <3>2 DEF LockInv, LockTypeOK, InCall, HasRanges, winUnlock, Go
    <3>3. CASE locktype[c] \in {NO_LOCK, SHARED_LOCK}
      BY <2>1, <3>3 DEF LockInv, LockTypeOK, InCall, HasRanges, winUnlock, Go
    <3> QED
      BY <3>1, <3>2, <3>3 DEF LockInv, LockTypeOK
  <2>2. CASE e # c
    BY <2>2 DEF LockInv, LockTypeOK, InCall, HasRanges, winUnlock, Go
  <2> QED
    BY <2>1, <2>2
<1>5. Alone'
  BY DEF LockInv, LockTypeOK, Granted, InCall, HasRanges, Alone, winUnlock, Go
<1> QED
  BY <1>1, <1>2, <1>3, <1>4, <1>5 DEF LockInv

LEMMA InitLockInv == LockInit => LockInv
BY DEF LockInit, LockInv, LockTypeOK, Granted, InCall, HasRanges, Alone, Ranges, Holds, Steps,
       NO_LOCK, SHARED_LOCK, RESERVED_LOCK, PENDING_LOCK, EXCLUSIVE_LOCK

\* One system call of a VFS call in progress keeps the invariant.
LEMMA LockStepKeeps ==
    ASSUME LockInv, NEW c \in Conn, LockStep(c)
    PROVE  LockInv'
<1>1. LockInv'
  <2>1. CASE LockPending(c)
    BY <2>1, LockPendingKeeps
  <2>2. CASE LockRead(c)
    BY <2>2, LockReadKeeps
  <2>3. CASE UnlockPendingAgain(c)
    BY <2>3, UnlockPendingAgainKeeps
  <2>4. CASE LockReserved(c)
    BY <2>4, LockReservedKeeps
  <2>5. CASE UnlockRead(c)
    BY <2>5, UnlockReadKeeps
  <2>6. CASE LockRange(c)
    BY <2>6, LockRangeKeeps
  <2>7. CASE RelockRead(c)
    BY <2>7, RelockReadKeeps
  <2>8. CASE PeekReserved(c)
    BY <2>8, PeekReservedKeeps
  <2>9. CASE UnpeekReserved(c)
    BY <2>9, UnpeekReservedKeeps
  <2>10. CASE UnlockRange(c)
    BY <2>10, UnlockRangeKeeps
  <2>11. CASE RegainRead(c)
    BY <2>11, RegainReadKeeps
  <2>12. CASE UnlockReserved(c)
    BY <2>12, UnlockReservedKeeps
  <2>13. CASE ReleaseRead(c)
    BY <2>13, ReleaseReadKeeps
  <2>14. CASE UnlockPending(c)
    BY <2>14, UnlockPendingKeeps
  <2> QED
    BY <2>1, <2>2, <2>3, <2>4, <2>5, <2>6, <2>7, <2>8, <2>9, <2>10, <2>11, <2>12, <2>13, <2>14 DEF LockStep
<1> QED
  BY <1>1

LEMMA LockNextKeeps == LockInv /\ [LockNext]_lockVars => LockInv'
<1> SUFFICES ASSUME LockInv, [LockNext]_lockVars PROVE LockInv'
  OBVIOUS
<1>1. CASE UNCHANGED lockVars
  BY <1>1 DEF lockVars, LockInv, LockTypeOK, Granted, InCall, HasRanges, Alone
<1>2. ASSUME NEW c \in Conn, LockStep(c) PROVE LockInv'
  BY <1>2, LockStepKeeps
<1>3. ASSUME NEW c \in Conn, LockCall(c) PROVE LockInv'
  BY <1>3, winLockKeeps, winCheckReservedLockKeeps, winUnlockKeeps DEF LockCall
<1>4. ASSUME NEW c \in Conn, DropLocks(c) PROVE LockInv'
  BY <1>4, DropLocksKeeps
<1> QED
  BY <1>1, <1>2, <1>3, <1>4 DEF LockNext

LEMMA LockInvImplies == LockInv => LockTypeOK /\ Exclusion /\ OneReserved /\ LevelIsHeld
<1> SUFFICES ASSUME LockInv PROVE LockTypeOK /\ Exclusion /\ OneReserved /\ LevelIsHeld
  OBVIOUS
<1> USE DEF Ranges, Holds, NO_LOCK, SHARED_LOCK, RESERVED_LOCK, PENDING_LOCK, EXCLUSIVE_LOCK
<1>1. LockTypeOK /\ Exclusion
  BY DEF LockInv, Alone, Exclusion
<1>2. OneReserved
  BY DEF LockInv, LockTypeOK, Granted, HasRanges, OneReserved
<1>3. LevelIsHeld
  <2> SUFFICES ASSUME NEW c \in Conn
               PROVE  /\ at[c] \in {"reread", "regain"} => Free("SHARED", "shared")
                      /\ at[c] = "none" /\ locktype[c] \in SHARED_LOCK .. PENDING_LOCK
                           => held["SHARED"][c] = "shared"
    BY DEF LevelIsHeld
  <2>1. ASSUME at[c] \in {"reread", "regain"}, NEW d \in Conn PROVE held["SHARED"][d] # "exclusive"
    BY <2>1 DEF LockInv, LockTypeOK, Granted, InCall, HasRanges
  <2> QED
    BY <2>1 DEF LockInv, HasRanges, Free
<1> QED
  BY <1>1, <1>2, <1>3

-----------------------------------------------------------------------------
\* In every behaviour of any set of file handles: beside a handle with the level
\* EXCLUSIVE nobody has a lock, at most one has RESERVED, and a level of SHARED or
\* more is backed by a read lock, also where winLock and winUnlock take the read
\* lock back without being able to fail.
THEOREM LocksExclude ==
    LockSpec => [](LockTypeOK /\ Exclusion /\ OneReserved /\ LevelIsHeld)
<1>1. LockInit => LockInv
  BY InitLockInv
<1>2. LockInv /\ [LockNext]_lockVars => LockInv'
  BY LockNextKeeps
<1>3. LockInv => LockTypeOK /\ Exclusion /\ OneReserved /\ LevelIsHeld
  BY LockInvImplies
<1> QED
  BY <1>1, <1>2, <1>3, PTL DEF LockSpec

-----------------------------------------------------------------------------
(* The connections. *)

\* Every step of a connection is a step of the locks or leaves them alone.
LEMMA NextUsesLocks == [Next]_vars => [LockNext]_lockVars
<1> SUFFICES ASSUME [Next]_vars PROVE [LockNext]_lockVars
  OBVIOUS
<1>1. CASE UNCHANGED vars
  BY <1>1 DEF vars, lockVars
<1>2. ASSUME NEW c \in Conn, SystemCall(c) PROVE [LockNext]_lockVars
  BY <1>2 DEF SystemCall, LockNext
<1>3. ASSUME NEW c \in Conn, PagerStep(c) PROVE [LockNext]_lockVars
  <2>1. CASE SharedGranted(c) \/ HotAccess(c) \/ HotCheck(c)
    BY <2>1 DEF SharedGranted, HotAccess, HotCheck, LockNext, LockCall, lockVars
  <2>2. CASE HotCount(c) \/ HotClean(c) \/ HotLocked(c) \/ HotOpen(c)
    BY <2>2 DEF HotCount, HotClean, HotLocked, HotOpen, LockNext, LockCall, lockVars
  <2>3. CASE VersionCheck(c) \/ PlaybackHeader(c) \/ PlaybackRecord(c) \/ FinalizeJournal(c)
    BY <2>3 DEF VersionCheck, PlaybackHeader, PlaybackRecord, FinalizeJournal, lockVars
  <2>4. CASE EndTransaction(c) \/ BeginReserved(c) \/ ExclusiveGranted(c)
    BY <2>4 DEF EndTransaction, BeginReserved, ExclusiveGranted, LockNext, LockCall, lockVars
  <2>5. CASE pager_write(c) \/ WritePage(c)
    BY <2>5 DEF pager_write, WritePage, lockVars
  <2> QED
    BY <1>3, <2>1, <2>2, <2>3, <2>4, <2>5 DEF PagerStep
<1>4. ASSUME NEW c \in Conn, PagerCall(c) PROVE [LockNext]_lockVars
  BY <1>4 DEF PagerCall, sqlite3PagerSharedLock, sqlite3PagerGet, sqlite3PagerBegin,
              pager_open_journal, pagerStress, sqlite3PagerCommitPhaseOne,
              sqlite3PagerCommitPhaseTwo, sqlite3PagerRollback, LockNext, LockCall, lockVars
<1>5. ASSUME NEW c \in Conn, pager_unlock(c) \/ Crash(c) PROVE [LockNext]_lockVars
  BY <1>5 DEF pager_unlock, Crash, LockNext, LockCall
<1> QED
  BY <1>1, <1>2, <1>3, <1>4, <1>5 DEF Next

\* Connections, for any number of them, implement the specification of the locks ...
THEOREM ConnectionsUseLocks == Spec => LockSpec
<1>1. Init => LockInit
  BY DEF Init
<1> QED
  BY <1>1, NextUsesLocks, PTL DEF Spec, LockSpec

\* ... so that no connection has any lock on the database file while another one
\* writes it or rolls back a hot journal, whatever the busy handlers, crashes and
\* attempts that failed half-way.
THEOREM ConnectionsExclude == Spec => []Exclusion
BY ConnectionsUseLocks, LocksExclude, PTL

\* A connection whose level is SHARED or more and that is between two calls has
\* its lock on the shared range, also after an attempt at EXCLUSIVE has failed
\* (winLock, winUnlock).
THEOREM LevelsAreHeld == Spec => []LevelIsHeld
BY ConnectionsUseLocks, LocksExclude, PTL

-----------------------------------------------------------------------------
(* The invariant of the files and of the pagers. *)

\* A file of at most two pages, and the page caches.
Files == BoundedSeq(0 .. MaxTxn, 2)
Caches == UNION {[S -> 0 .. MaxTxn] : S \in SUBSET Page}

PagerTypes ==
    /\ mode \in Modes
    /\ db \in Files
    /\ journal \in [file : BOOLEAN, valid : BOOLEAN, orig : Files]
    /\ committed \in Files
    /\ pc \in [Conn -> Places]
    /\ eState \in [Conn -> {"OPEN", "READER"} \cup Writers]
    /\ cache \in [Conn -> Caches]
    /\ dbFileVers \in [Conn -> 0 .. MaxTxn]
    /\ heldShared \in [Conn -> BOOLEAN]
    /\ jfd \in [Conn -> BOOLEAN]
    /\ todo \in [Conn -> SUBSET Page]
    /\ txns \in 0 .. MaxTxn
    /\ crashes \in 0 .. MaxCrash

\* What the files hold between any two steps.
FilesInv ==
    /\ journal.valid => journal.file
    /\ ~journal.valid => journal.orig = <<>>
    /\ FilesHoldCommitted
    /\ journal.valid => Len(journal.orig) <= Len(db)
    /\ Len(committed) \in {0, 2}
    /\ Len(committed) = 0 => 0 \in InitSizes
    /\ Counter(committed) <= txns

\* On the way up to EXCLUSIVE, and on the way down to a level.
Climbing(c) == at[c] \in {"pending", "unread", "range", "reread"} /\ want[c] = EXCLUSIVE_LOCK
Lowering(c, level) ==
    at[c] \in {"unrange", "regain", "unreserve", "release", "unpending"} /\ want[c] = level

\* The RESERVED byte belongs to c, for good; c alone has the file.
Owns(c) == locktype[c] >= RESERVED_LOCK /\ held["RESERVED"][c] = "exclusive"
Sure(c) == at[c] = "none" /\ locktype[c] = EXCLUSIVE_LOCK

\* Whoever has the RESERVED byte, while it lasts, shows it in its level, and finds
\* the database as committed until it has the EXCLUSIVE lock too.
ReservedInv(c) ==
    /\ held["RESERVED"][c] = "exclusive" =>
         /\ locktype[c] >= RESERVED_LOCK
         /\ at[c] \notin {"release", "unpending"}
         /\ db = committed \/ locktype[c] = EXCLUSIVE_LOCK
    /\ at[c] = "reserve" => pc[c] \in {"clean", "begin", "beginExclusive"}

Playback == {"header", "records", "finalize", "ended"}

\* The locks and the places in a call that go with eState OPEN ...
OpenLocks(c) ==
    /\ pc[c] = "idle" => \/ at[c] = "none" /\ locktype[c] = NO_LOCK
                         \/ Lowering(c, NO_LOCK)
    /\ pc[c] = "shared" => \/ at[c] \in {"pending", "read", "unpend"} /\ want[c] = SHARED_LOCK
                           \/ /\ at[c] = "none"
                              /\ locktype[c] = IF res[c] THEN SHARED_LOCK ELSE NO_LOCK
    /\ pc[c] \in {"access", "check"} => at[c] = "none" /\ locktype[c] = SHARED_LOCK
    /\ pc[c] = "count" => /\ at[c] \in {"none", "peek", "unpeek"} /\ locktype[c] = SHARED_LOCK
                          /\ at[c] = "unpeek" => ~res[c]
    /\ pc[c] = "clean" => \/ at[c] = "reserve" /\ locktype[c] = SHARED_LOCK
                          \/ at[c] = "none" /\ IF res[c] THEN Owns(c) /\ locktype[c] = RESERVED_LOCK
                                                         ELSE locktype[c] = SHARED_LOCK
    /\ pc[c] = "hotLock" => \/ Climbing(c) /\ locktype[c] = SHARED_LOCK
                            \/ at[c] = "none" /\ IF res[c] THEN locktype[c] = EXCLUSIVE_LOCK
                                                 ELSE locktype[c] \in {SHARED_LOCK, PENDING_LOCK}
    /\ pc[c] = "fail" => at[c] = "none" /\ locktype[c] \in {SHARED_LOCK, PENDING_LOCK}
    /\ pc[c] \in {"open"} \cup Playback => Sure(c)
    /\ pc[c] = "version" => \/ at[c] = "none" /\ locktype[c] = SHARED_LOCK
                            \/ Lowering(c, SHARED_LOCK) /\ locktype[c] >= SHARED_LOCK
    /\ pc[c] \in {"idle", "shared", "access", "check", "count", "clean", "hotLock", "fail",
                  "open", "version"} \cup Playback

\* ... with READER, also after an attempt to begin a transaction has failed ...
ReaderLocks(c) ==
    /\ locktype[c] >= SHARED_LOCK
    /\ \/ at[c] = "none" /\ (locktype[c] >= RESERVED_LOCK => Owns(c))
       \/ pc[c] = "idle" /\ Lowering(c, SHARED_LOCK)
       \/ pc[c] \in {"begin", "beginExclusive"} /\ at[c] = "reserve"
       \/ pc[c] = "beginExclusive" /\ Climbing(c) /\ Owns(c)
    /\ (pc[c] \in {"begin", "beginExclusive"} /\ at[c] = "none" /\ res[c]) => Owns(c)
    /\ pc[c] \in {"idle", "begin", "beginExclusive"}

\* ... and with the states of a write transaction.
WriterLocks(c) ==
    /\ Owns(c)
    /\ eState[c] = "LOCKED" =>
         at[c] = "none" /\ pc[c] \in {"idle", "journal", "finalize", "ended"}
    /\ eState[c] = "CACHEMOD" =>
         \/ at[c] = "none" /\ pc[c] \in {"idle"} \cup Playback
         \/ /\ pc[c] \in {"spillLock", "commitLock"}
            /\ Climbing(c) \/ (at[c] = "none" /\ (res[c] => locktype[c] = EXCLUSIVE_LOCK))
    /\ eState[c] = "DBMOD" =>
         /\ Sure(c)
         /\ pc[c] \in {"spillLock", "commitLock"} => res[c]
         /\ pc[c] \in {"idle", "spillLock", "spillWrite", "commitLock", "commitWrite"} \cup Playback
    /\ eState[c] = "FINISHED" =>
         Sure(c) /\ pc[c] \in {"idle", "phaseTwo"} \cup Playback

PlaceInv(c) ==
    /\ eState[c] = "OPEN" => OpenLocks(c)
    /\ eState[c] = "READER" => ReaderLocks(c)
    /\ eState[c] \in Writers => WriterLocks(c)

\* A write transaction with a journal, and one whose rollback has reset the cache.
Live == {"CACHEMOD", "DBMOD", "FINISHED"}
Restored(c) == eState[c] \in Live /\ pc[c] \in {"records", "finalize", "ended"}
Writing(c) == eState[c] \in Live /\ ~Restored(c)

\* Where c relies on the database file: reading it, and where it has found that
\* there is nothing to roll back or has just rolled it back.
Trusts(c) ==
    \/ eState[c] \in {"READER", "LOCKED", "CACHEMOD"}
    \/ pc[c] \in {"clean", "version", "finalize", "ended"}
    \/ pc[c] = "count" /\ at[c] = "none" /\ res[c]

FileView(c) ==
    /\ Trusts(c) => db = committed
    /\ eState[c] \in Live /\ pc[c] # "ended" => journal.valid /\ jfd[c]
    /\ pc[c] = "records" =>
         /\ Len(db) = Len(committed) /\ todo[c] \subseteq DOMAIN committed
         /\ \A p \in DOMAIN committed \ todo[c] : db[p] = committed[p]
         /\ todo[c] # {} => journal.valid /\ eState[c] # "CACHEMOD"
    /\ pc[c] = "journal" => jfd[c] /\ DOMAIN db \subseteq DOMAIN cache[c]

Matches(c) == \A p \in DOMAIN cache[c] : cache[c][p] = Content(committed, p)

\* A cache that outlives its lock holds page 1, the counter in it is the one seen
\* last, and as long as the database has that counter the cache is good.
CacheView(c) ==
    /\ ~heldShared[c] => eState[c] = "OPEN" /\ DOMAIN cache[c] = {}
    /\ ~Writing(c) /\ DOMAIN cache[c] # {} =>
          /\ 1 \in DOMAIN cache[c] /\ dbFileVers[c] = cache[c][1]
          /\ Len(committed) > 0
          /\ dbFileVers[c] <= Counter(committed)
          /\ dbFileVers[c] = Counter(committed) => Matches(c)
    /\ eState[c] \in {"READER", "LOCKED"} \/ Restored(c) => Matches(c)
    /\ dbFileVers[c] <= txns

\* The counter a write transaction starts from is that of the last commit; what
\* the transaction writes, txns, is newer than any page there is.
Seen(c) ==
    /\ dbFileVers[c] < txns /\ Counter(committed) < txns
    /\ dbFileVers[c] >= Counter(committed)
    /\ Len(committed) > 0 => dbFileVers[c] = Counter(committed)

\* The new counter is one more, however often the commit is tried, and reaches the
\* file and dbFileVers with page 1.
WriteView(c) ==
    /\ pc[c] \in {"begin", "beginExclusive"} \/ eState[c] = "LOCKED" =>
         /\ Len(committed) > 0 => 1 \in DOMAIN cache[c]
         /\ Seen(c)
    /\ Writing(c) => DOMAIN cache[c] = Page
    /\ /\ eState[c] \in {"CACHEMOD", "DBMOD"}
       /\ \/ pc[c] \in {"idle", "spillLock", "spillWrite", "commitLock"}
          \/ pc[c] = "commitWrite" /\ todo[c] = Page
       => Seen(c)
    /\ pc[c] = "spillWrite" => todo[c] = {2}
    /\ pc[c] = "commitWrite" => todo[c] \in {Page, {2}}
    /\ pc[c] = "commitLock" \/ (pc[c] = "commitWrite" /\ todo[c] = Page) =>
         cache[c][1] = dbFileVers[c] + 1
    /\ pc[c] = "commitWrite" /\ todo[c] = {2} =>
         /\ Len(db) >= 1 /\ db[1] = cache[c][1] /\ dbFileVers[c] = cache[c][1]
         /\ dbFileVers[c] > Counter(committed)
    /\ eState[c] = "FINISHED" /\ pc[c] \in {"idle", "phaseTwo"} =>
         /\ Len(db) = 2 /\ \A p \in Page : db[p] = cache[c][p]
         /\ dbFileVers[c] = cache[c][1]
         /\ dbFileVers[c] > Counter(committed)

ConnInv(c) == ReservedInv(c) /\ PlaceInv(c) /\ FileView(c) /\ CacheView(c) /\ WriteView(c)

IInv == LockInv /\ PagerTypes /\ FilesInv /\ \A c \in Conn : ConnInv(c)

-----------------------------------------------------------------------------
(* Files and pages *)

\* A file is a function on its page numbers.
LEMMA FileFacts ==
    ASSUME NEW f \in Files
    PROVE  /\ Len(f) \in {0, 1, 2} /\ DOMAIN f = 1 .. Len(f)
           /\ \A p \in 1 .. Len(f) : f[p] \in 0 .. MaxTxn
           /\ f = [p \in 1 .. Len(f) |-> f[p]]
<1>1. PICK m \in 0 .. 2 : f \in [1 .. m -> 0 .. MaxTxn]
  BY DEF Files, BoundedSeq, SeqOf
<1>2. f \in Seq(0 .. MaxTxn)
  <2>1. f \in UNION {[1 .. n -> 0 .. MaxTxn] : n \in Nat}
    BY <1>1
  <2> QED
    BY <2>1, SeqDef, Zenon
<1>3. Len(f) \in Nat /\ DOMAIN f = 1 .. Len(f) /\ DOMAIN f = 1 .. m
  BY <1>1, <1>2, LenProperties
<1>4. Len(f) = m
  <2>1. m \in 1 .. Len(f) \/ m = 0
    BY <1>3
  <2>2. Len(f) \in 1 .. m \/ Len(f) = 0
    BY <1>3
  <2> QED
    BY <1>1, <1>3, <2>1, <2>2
<1>5. f = [p \in DOMAIN f |-> f[p]] /\ \A p \in DOMAIN f : f[p] \in 0 .. MaxTxn
  BY <1>1
<1> QED
  BY <1>3, <1>4, <1>5

LEMMA FileIntro ==
    ASSUME NEW n \in {0, 1, 2}, NEW f \in [1 .. n -> 0 .. MaxTxn]
    PROVE  f \in Files /\ Len(f) = n
<1>1. n \in 0 .. 2
  OBVIOUS
<1>2. f \in Files
  BY <1>1 DEF Files, BoundedSeq, SeqOf
<1>3. Len(f) \in Nat /\ DOMAIN f = 1 .. Len(f) /\ DOMAIN f = 1 .. n
  BY <1>2, FileFacts
<1>4. (n \in 1 .. Len(f) \/ n = 0) /\ (Len(f) \in 1 .. n \/ Len(f) = 0)
  BY <1>1, <1>3
<1> QED
  BY <1>1, <1>2, <1>3, <1>4

\* Files of the same length and with the same pages are the same.
LEMMA FileEqual ==
    ASSUME NEW f \in Files, NEW g \in Files, Len(f) = Len(g),
           \A p \in 1 .. Len(f) : f[p] = g[p]
    PROVE  f = g
BY FileFacts

LEMMA NoFile == <<>> \in Files /\ Len(<<>>) = 0 /\ DOMAIN <<>> = {}
<1>1. <<>> \in Seq(0 .. MaxTxn) /\ Len(<<>>) = 0
  BY EmptySeq
<1>2. <<>> \in [1 .. 0 -> 0 .. MaxTxn]
  BY <1>1, LenProperties
<1>3. <<>> \in Files
  BY <1>2, FileIntro
<1> QED
  BY <1>1, <1>3, FileFacts

LEMMA CounterType ==
    ASSUME NEW f \in Files
    PROVE  Counter(f) \in 0 .. MaxTxn
BY FileFacts, ConnectionsAssumption DEF Counter

LEMMA ContentType ==
    ASSUME NEW f \in Files, NEW p \in Page
    PROVE  Content(f, p) \in 0 .. MaxTxn
BY FileFacts, ConnectionsAssumption DEF Content, Page

\* Writing page p: the file is as long as it was or ends with p.
LEMMA MaxOfTwo ==
    ASSUME NEW a \in Nat, NEW b \in Nat
    PROVE  Max({a, b}) = IF a >= b THEN a ELSE b
BY DEF Max

LEMMA WrittenFacts ==
    ASSUME NEW f \in Files, NEW p \in Page, NEW v \in 0 .. MaxTxn
    PROVE  /\ Written(f, p, v) \in Files
           /\ Len(Written(f, p, v)) = IF p >= Len(f) THEN p ELSE Len(f)
           /\ Written(f, p, v)[p] = v
           /\ \A q \in 1 .. Len(f) : q # p => Written(f, p, v)[q] = f[q]
<1> DEFINE n == IF p >= Len(f) THEN p ELSE Len(f)
           w == [i \in 1 .. n |-> IF i = p THEN v ELSE IF i <= Len(f) THEN f[i] ELSE 0]
<1>1. n \in {0, 1, 2} /\ p \in 1 .. n /\ Len(f) <= n
  BY FileFacts DEF Page
<1>2. w \in [1 .. n -> 0 .. MaxTxn]
  BY FileFacts, ConnectionsAssumption
<1>3. Written(f, p, v) = w
  <2>1. Len(f) \in Nat /\ p \in Nat
    BY FileFacts DEF Page
  <2>2. Max({p, Len(f)}) = n
    BY <2>1, MaxOfTwo
  <2> QED
    BY <2>2 DEF Written
<1>4. w \in Files /\ Len(w) = n
  BY <1>1, <1>2, FileIntro
<1> QED
  BY <1>1, <1>3, <1>4, FileFacts

\* The pages are written in the order of their numbers.
LEMMA MinOfPages ==
    ASSUME NEW S \in SUBSET Page, S # {}
    PROVE  /\ Min(S) \in S
           /\ 1 \in S => Min(S) = 1
<1>1. \E x \in S : \A y \in S : x <= y
  <2>1. CASE 1 \in S
    BY <2>1 DEF Page
  <2>2. CASE 1 \notin S
    <3>1. 2 \in S /\ \A y \in S : y = 2
      BY <2>2 DEF Page
    <3> QED
      BY <3>1
  <2> QED
    BY <2>1, <2>2
<1>2. Min(S) \in S /\ \A y \in S : Min(S) <= y
  BY <1>1 DEF Min
<1>3. Min(S) \in {1, 2}
  BY <1>2 DEF Page
<1> QED
  BY <1>2, <1>3

LEMMA CacheFacts ==
    ASSUME NEW k \in Caches
    PROVE  /\ DOMAIN k \in SUBSET Page
           /\ \A p \in DOMAIN k : k[p] \in 0 .. MaxTxn
BY DEF Caches

LEMMA CacheIntro ==
    ASSUME NEW S \in SUBSET Page, NEW k \in [S -> 0 .. MaxTxn]
    PROVE  k \in Caches /\ DOMAIN k = S
BY DEF Caches

-----------------------------------------------------------------------------
(* What the others notice of a step *)

\* Nothing that belongs to d changes.
PagerSame(d) ==
    /\ pc'[d] = pc[d] /\ eState'[d] = eState[d] /\ cache'[d] = cache[d]
    /\ dbFileVers'[d] = dbFileVers[d] /\ heldShared'[d] = heldShared[d]
    /\ jfd'[d] = jfd[d] /\ todo'[d] = todo[d]

LockSame(d) ==
    /\ locktype'[d] = locktype[d] /\ at'[d] = at[d] /\ want'[d] = want[d] /\ res'[d] = res[d]
    /\ held'["RESERVED"][d] = held["RESERVED"][d]

PrivateSame(d) == PagerSame(d) /\ LockSame(d)

\* The journal d may need is not taken away.
JournalLeft(d) ==
    \/ journal' = journal
    \/ journal'.valid
    \/ eState[d] \notin Live /\ ~Sure(d)

\* A step of another connection that leaves the database file alone ...
LEMMA OthersStay ==
    ASSUME IInv, NEW d \in Conn, PrivateSame(d), JournalLeft(d),
           db' = db, committed' = committed, txns' \in Nat, txns <= txns'
    PROVE  ConnInv(d)'
<1>1. ConnInv(d)
  BY DEF IInv
<1>2. txns \in Nat /\ dbFileVers[d] \in Nat /\ Counter(committed) \in Nat
  BY CounterType, ConnectionsAssumption DEF IInv, PagerTypes
<1>3. Counter(committed)' = Counter(committed)
  BY DEF Counter
<1>4. ReservedInv(d)'
  BY <1>1 DEF ConnInv, ReservedInv, PrivateSame, PagerSame, LockSame
<1>5. PlaceInv(d)'
  BY <1>1 DEF ConnInv, PlaceInv, OpenLocks, ReaderLocks, WriterLocks, Climbing, Lowering, Owns, Sure, PrivateSame, PagerSame, LockSame
<1>6. FileView(d)'
  <2>1. (Trusts(d) => db = committed)'
    BY <1>1 DEF ConnInv, FileView, Trusts, PrivateSame, PagerSame, LockSame
  <2>2. eState[d] \in Live \/ (pc[d] = "records" /\ todo[d] # {}) => journal'.valid \/ journal' = journal
    <3>1. eState[d] = "OPEN" /\ pc[d] = "records" => Sure(d)
      BY <1>1 DEF ConnInv, PlaceInv, OpenLocks, Playback
    <3>2. eState[d] \in Live \cup {"OPEN", "READER", "LOCKED"}
      BY DEF IInv, PagerTypes, Writers, Live
    <3>3. eState[d] \in {"READER", "LOCKED"} => pc[d] # "records"
      BY <1>1 DEF ConnInv, PlaceInv, ReaderLocks, WriterLocks, Writers
    <3> QED
      BY <3>1, <3>2, <3>3 DEF JournalLeft
  <2>3. (eState[d] \in Live /\ pc[d] # "ended" => journal.valid /\ jfd[d])'
    BY <1>1, <2>2 DEF ConnInv, FileView, PrivateSame, PagerSame, LockSame
  <2>4. (pc[d] = "records" =>
         /\ Len(db) = Len(committed) /\ todo[d] \subseteq DOMAIN committed
         /\ \A p \in DOMAIN committed \ todo[d] : db[p] = committed[p]
         /\ todo[d] # {} => journal.valid /\ eState[d] # "CACHEMOD")'
    BY <1>1, <2>2 DEF ConnInv, FileView, PrivateSame, PagerSame, LockSame
  <2>5. (pc[d] = "journal" => jfd[d] /\ DOMAIN db \subseteq DOMAIN cache[d])'
    BY <1>1 DEF ConnInv, FileView, PrivateSame, PagerSame, LockSame
  <2> QED
    BY <2>1, <2>3, <2>4, <2>5 DEF FileView
<1>7. CacheView(d)'
  <2>1. Matches(d)' = Matches(d)
    BY DEF Matches, Content, PrivateSame, PagerSame, LockSame
  <2>2. Writing(d)' = Writing(d) /\ Restored(d)' = Restored(d)
    BY DEF Writing, Restored, PrivateSame, PagerSame, LockSame
  <2> QED
    BY <1>1, <1>2, <1>3, <2>1, <2>2 DEF ConnInv, CacheView, PrivateSame, PagerSame, LockSame
<1>8. WriteView(d)'
  <2>1. Seen(d) => Seen(d)'
    BY <1>2, <1>3 DEF Seen, PrivateSame, PagerSame, LockSame
  <2>2. Writing(d)' = Writing(d)
    BY DEF Writing, Restored, PrivateSame, PagerSame, LockSame
  <2> QED
    BY <1>1, <1>2, <1>3, <2>1, <2>2 DEF ConnInv, WriteView, PrivateSame, PagerSame, LockSame
<1> QED
  BY <1>4, <1>5, <1>6, <1>7, <1>8 DEF ConnInv

\* ... and one that changes it while d, having no lock, is between two reads.
LEMMA OthersAway ==
    ASSUME IInv, NEW d \in Conn, PrivateSame(d), locktype[d] = NO_LOCK, txns' = txns,
           \/ committed' = committed
           \/ committed' \in Files /\ Len(committed') > 0 /\ Counter(committed)' > Counter(committed)
    PROVE  ConnInv(d)'
<1>1. ConnInv(d)
  BY DEF IInv
<1>2. txns \in Nat /\ dbFileVers[d] \in Nat /\ Counter(committed) \in Nat /\ Counter(committed)' \in Nat
  <2>1. txns \in Nat /\ dbFileVers[d] \in Nat /\ Counter(committed) \in Nat
    BY CounterType, ConnectionsAssumption DEF IInv, PagerTypes
  <2>2. committed' \in Files => Counter(committed') \in 0 .. MaxTxn
    BY CounterType
  <2>3. Counter(committed)' = Counter(committed')
    BY DEF Counter
  <2>4. committed \in Files
    BY DEF IInv, PagerTypes
  <2> QED
    BY <2>1, <2>2, <2>3, <2>4, ConnectionsAssumption
<1>3. eState[d] = "OPEN" /\ pc[d] \in {"idle", "shared"}
  <2> USE DEF NO_LOCK, SHARED_LOCK, RESERVED_LOCK, PENDING_LOCK, EXCLUSIVE_LOCK
  <2>1. eState[d] \in {"OPEN", "READER"} \cup Writers
    BY DEF IInv, PagerTypes
  <2>2. eState[d] \notin Writers
    BY <1>1 DEF ConnInv, PlaceInv, WriterLocks, Owns
  <2>3. eState[d] # "READER"
    BY <1>1 DEF ConnInv, PlaceInv, ReaderLocks
  <2>4. OpenLocks(d)
    BY <1>1, <2>1, <2>2, <2>3 DEF ConnInv, PlaceInv
  <2>5. pc[d] # "clean"
    BY <2>4 DEF OpenLocks, Owns
  <2>6. pc[d] \notin {"open"} \cup Playback
    BY <2>4 DEF OpenLocks, Sure
  <2>7. pc[d] \notin {"hotLock", "fail", "version", "count"}
    BY <2>4 DEF OpenLocks
  <2> QED
    BY <2>1, <2>2, <2>3, <2>4, <2>5, <2>6, <2>7 DEF OpenLocks
<1>4. eState'[d] = "OPEN" /\ pc'[d] \in {"idle", "shared"}
  BY <1>3 DEF PrivateSame, PagerSame, LockSame
<1>5. ReservedInv(d)'
  BY <1>1 DEF ConnInv, ReservedInv, PrivateSame, PagerSame, LockSame, NO_LOCK, RESERVED_LOCK
<1>6. PlaceInv(d)'
  BY <1>1, <1>3 DEF ConnInv, PlaceInv, OpenLocks, Climbing, Lowering, Owns, Sure, Playback, Writers,
                   PrivateSame, PagerSame, LockSame
<1>7. FileView(d)'
  BY <1>4 DEF FileView, Trusts, Live
<1>8. CacheView(d)'
  <2>1. ~Writing(d) /\ ~Restored(d) /\ ~Writing(d)' /\ ~Restored(d)'
    BY <1>3, <1>4 DEF Writing, Restored, Live
  <2>2. CASE committed' = committed
    <3>1. Matches(d)' = Matches(d) /\ Counter(committed)' = Counter(committed)
      BY <2>2 DEF Matches, Content, Counter, PrivateSame, PagerSame, LockSame
    <3> QED
      BY <1>1, <1>3, <2>1, <2>2, <3>1 DEF ConnInv, CacheView, PrivateSame, PagerSame, LockSame
  <2>3. CASE Len(committed') > 0 /\ Counter(committed)' > Counter(committed)
    BY <1>1, <1>2, <1>3, <2>1, <2>3 DEF ConnInv, CacheView, PrivateSame, PagerSame, LockSame
  <2> QED
    BY <2>2, <2>3
<1>9. WriteView(d)'
  BY <1>4 DEF WriteView, Writing, Live
<1> QED
  BY <1>5, <1>6, <1>7, <1>8, <1>9 DEF ConnInv

\* Whoever owns the RESERVED byte has no other writer beside it, and whoever has
\* any lock has nobody with EXCLUSIVE beside it.
LEMMA OwnerAlone ==
    ASSUME IInv, NEW c \in Conn, NEW d \in Conn, c # d, Owns(c)
    PROVE  eState[d] \notin Live /\ ~Owns(d)
<1>1. ~Owns(d)
  <2>1. Granted
    BY DEF IInv, LockInv
  <2> QED
    BY <2>1 DEF Granted, Ranges, Owns
<1>2. PlaceInv(d)
  BY DEF IInv, ConnInv
<1> QED
  BY <1>1, <1>2 DEF PlaceInv, WriterLocks, Writers, Live

LEMMA NobodySure ==
    ASSUME IInv, NEW c \in Conn, NEW d \in Conn, c # d, locktype[c] >= SHARED_LOCK
    PROVE  locktype[d] # EXCLUSIVE_LOCK /\ ~Sure(d)
<1>1. Alone
  BY DEF IInv, LockInv
<1> QED
  BY <1>1 DEF Alone, Sure, NO_LOCK, SHARED_LOCK

LEMMA SureAlone ==
    ASSUME IInv, NEW c \in Conn, NEW d \in Conn, c # d, locktype[c] = EXCLUSIVE_LOCK
    PROVE  locktype[d] = NO_LOCK
BY DEF IInv, LockInv, Alone

-----------------------------------------------------------------------------
(* The system calls of winLock, winCheckReservedLock and winUnlock *)

LEMMA SystemCallReserved ==
    ASSUME IInv, NEW c \in Conn, SystemCall(c)
    PROVE  ReservedInv(c)'
<1> USE DEF Ranges, Holds, Steps, NO_LOCK, SHARED_LOCK, RESERVED_LOCK, PENDING_LOCK, EXCLUSIVE_LOCK
<1>1. ReservedInv(c) /\ InCall(c) /\ PlaceInv(c) /\ LockTypeOK
  BY DEF IInv, ConnInv, LockInv
<1>2. at[c] = "reserve" => db = committed
  <2>1. Trusts(c) => db = committed
    BY DEF IInv, ConnInv, FileView
  <2>2. eState[c] \in {"OPEN", "READER"} \cup Writers
    BY DEF IInv, PagerTypes
  <2> QED
    BY <1>1, <2>1, <2>2 DEF ReservedInv, PlaceInv, OpenLocks, Playback, WriterLocks, Writers, Trusts
<1>3. pc' = pc /\ db' = db /\ committed' = committed
  BY DEF SystemCall, fileVars, pagerVars
<1>4. CASE LockPending(c) \/ LockRead(c) \/ UnlockPendingAgain(c)
  BY <1>1, <1>3, <1>4 DEF ReservedInv, InCall, LockTypeOK, LockPending, LockRead, UnlockPendingAgain,
                          SetHeld, Go, Return
<1>5. CASE LockReserved(c)
  BY <1>1, <1>2, <1>3, <1>5 DEF ReservedInv, InCall, LockTypeOK, LockReserved, SetHeld, Return
<1>6. CASE UnlockRead(c) \/ LockRange(c) \/ RelockRead(c)
  BY <1>1, <1>3, <1>6 DEF ReservedInv, InCall, LockTypeOK, UnlockRead, LockRange, RelockRead,
                          SetHeld, Go, Return
<1>7. CASE PeekReserved(c) \/ UnpeekReserved(c)
  BY <1>1, <1>3, <1>7 DEF ReservedInv, InCall, LockTypeOK, PeekReserved, UnpeekReserved, SetHeld, Go
<1>8. CASE UnlockRange(c) \/ RegainRead(c) \/ UnlockReserved(c)
  BY <1>1, <1>3, <1>8 DEF ReservedInv, InCall, LockTypeOK, UnlockRange, RegainRead, UnlockReserved,
                          SetHeld, Go, Lower, AfterReserve
<1>9. CASE ReleaseRead(c) \/ UnlockPending(c)
  BY <1>1, <1>3, <1>9 DEF ReservedInv, InCall, LockTypeOK, ReleaseRead, UnlockPending, SetHeld, Go, Lower,
                          AfterRelease
<1> QED
  BY <1>4, <1>5, <1>6, <1>7, <1>8, <1>9 DEF SystemCall, LockStep

LEMMA SystemCallPlace ==
    ASSUME IInv, NEW c \in Conn, SystemCall(c)
    PROVE  PlaceInv(c)'
<1> USE DEF Ranges, Holds, Steps, NO_LOCK, SHARED_LOCK, RESERVED_LOCK, PENDING_LOCK, EXCLUSIVE_LOCK
<1>1. ReservedInv(c) /\ InCall(c) /\ PlaceInv(c) /\ LockTypeOK
  BY DEF IInv, ConnInv, LockInv
<1>2. eState[c] \in {"OPEN", "READER"} \cup Writers
  BY DEF IInv, PagerTypes
<1>3. pc' = pc /\ eState' = eState
  BY DEF SystemCall, pagerVars
<1>4. at[c] # "none"
  BY DEF SystemCall, LockStep, LockPending, LockRead, UnlockPendingAgain, LockReserved, UnlockRead,
         LockRange, RelockRead, PeekReserved, UnpeekReserved, UnlockRange, RegainRead, UnlockReserved,
         ReleaseRead, UnlockPending
<1>5. CASE eState[c] = "OPEN"
  <2>1. OpenLocks(c)
    BY <1>1, <1>5 DEF PlaceInv
  <2>2. OpenLocks(c)'
    <3>1. CASE pc[c] = "idle" \/ pc[c] = "version"
      <4>1. Lowering(c, IF pc[c] = "idle" THEN NO_LOCK ELSE SHARED_LOCK)
        BY <1>4, <2>1, <3>1 DEF OpenLocks
      <4>2. CASE UnlockRange(c) \/ RegainRead(c) \/ UnlockReserved(c)
        BY <1>1, <1>3, <3>1, <4>1, <4>2 DEF OpenLocks, Lowering, InCall, LockTypeOK, UnlockRange,
              RegainRead, UnlockReserved, Go, Lower, AfterReserve, Playback
      <4>3. CASE ReleaseRead(c) \/ UnlockPending(c)
        BY <1>1, <1>3, <3>1, <4>1, <4>3 DEF OpenLocks, Lowering, InCall, LockTypeOK, ReleaseRead,
              UnlockPending, Go, Lower, AfterRelease, Playback
      <4> QED
        BY <4>1, <4>2, <4>3 DEF SystemCall, LockStep, Lowering, LockPending, LockRead,
              UnlockPendingAgain, LockReserved, UnlockRead, LockRange, RelockRead, PeekReserved,
              UnpeekReserved
    <3>2. CASE pc[c] = "shared"
      <4>1. at[c] \in {"pending", "read", "unpend"} /\ want[c] = SHARED_LOCK
        BY <1>4, <2>1, <3>2 DEF OpenLocks
      <4>2. LockPending(c) \/ LockRead(c) \/ UnlockPendingAgain(c)
        BY <4>1 DEF SystemCall, LockStep, LockReserved, UnlockRead, LockRange, RelockRead,
              PeekReserved, UnpeekReserved, UnlockRange, RegainRead, UnlockReserved, ReleaseRead,
              UnlockPending
      <4> QED
        BY <1>1, <1>3, <3>2, <4>1, <4>2 DEF OpenLocks, InCall, LockTypeOK, LockPending, LockRead,
              UnlockPendingAgain, Go, Return, Playback
    <3>3. CASE pc[c] = "count"
      <4>1. PeekReserved(c) \/ UnpeekReserved(c)
        BY <1>4, <2>1, <3>3 DEF OpenLocks, SystemCall, LockStep, LockPending, LockRead,
              UnlockPendingAgain, LockReserved, UnlockRead, LockRange, RelockRead, UnlockRange,
              RegainRead, UnlockReserved, ReleaseRead, UnlockPending
      <4> QED
        BY <1>1, <1>3, <2>1, <3>3, <4>1 DEF OpenLocks, LockTypeOK, PeekReserved, UnpeekReserved, Go,
              Playback
    <3>4. CASE pc[c] = "clean"
      <4>1. LockReserved(c)
        BY <1>4, <2>1, <3>4 DEF OpenLocks, SystemCall, LockStep, LockPending, LockRead,
              UnlockPendingAgain, UnlockRead, LockRange, RelockRead, PeekReserved, UnpeekReserved,
              UnlockRange, RegainRead, UnlockReserved, ReleaseRead, UnlockPending
      <4> QED
        BY <1>1, <1>3, <1>4, <2>1, <3>4, <4>1 DEF OpenLocks, LockTypeOK, LockReserved, SetHeld,
              Return, Owns, Playback
    <3>5. CASE pc[c] = "hotLock"
      <4>1. Climbing(c) /\ locktype[c] = SHARED_LOCK
        BY <1>4, <2>1, <3>5 DEF OpenLocks
      <4>2. LockPending(c) \/ UnlockRead(c) \/ LockRange(c) \/ RelockRead(c)
        BY <4>1 DEF Climbing, SystemCall, LockStep, LockRead, UnlockPendingAgain, LockReserved,
              PeekReserved, UnpeekReserved, UnlockRange, RegainRead, UnlockReserved, ReleaseRead,
              UnlockPending
      <4> QED
        BY <1>1, <1>3, <3>5, <4>1, <4>2 DEF OpenLocks, Climbing, LockTypeOK, LockPending, UnlockRead,
              LockRange, RelockRead, Go, Return, Playback
    <3> QED
      BY <1>4, <2>1, <3>1, <3>2, <3>3, <3>4, <3>5 DEF OpenLocks, Sure
  <2> QED
    BY <1>3, <1>5, <2>2 DEF PlaceInv, Writers
<1>6. CASE eState[c] = "READER"
  <2>1. ReaderLocks(c)
    BY <1>1, <1>6 DEF PlaceInv
  <2>2. ReaderLocks(c)'
    <3>1. CASE pc[c] = "idle" /\ Lowering(c, SHARED_LOCK)
      <4>2. CASE UnlockRange(c) \/ RegainRead(c) \/ UnlockReserved(c)
        BY <1>1, <1>3, <3>1, <4>2, <2>1 DEF ReaderLocks, Lowering, InCall, LockTypeOK, UnlockRange,
              RegainRead, UnlockReserved, Go, Lower, AfterReserve
      <4>3. CASE ReleaseRead(c) \/ UnlockPending(c)
        BY <1>1, <1>3, <3>1, <4>3, <2>1 DEF ReaderLocks, Lowering, InCall, LockTypeOK, ReleaseRead,
              UnlockPending, Go, Lower, AfterRelease
      <4> QED
        BY <3>1, <4>2, <4>3 DEF SystemCall, LockStep, Lowering, LockPending, LockRead,
              UnlockPendingAgain, LockReserved, UnlockRead, LockRange, RelockRead, PeekReserved,
              UnpeekReserved
    <3>2. CASE pc[c] \in {"begin", "beginExclusive"} /\ at[c] = "reserve"
      <4>1. LockReserved(c)
        BY <3>2 DEF SystemCall, LockStep, LockPending, LockRead,
              UnlockPendingAgain, UnlockRead, LockRange, RelockRead, PeekReserved, UnpeekReserved,
              UnlockRange, RegainRead, UnlockReserved, ReleaseRead, UnlockPending
      <4> QED
        BY <1>1, <1>3, <2>1, <3>2, <4>1 DEF ReaderLocks, InCall, LockTypeOK, LockReserved, SetHeld,
              Return, Owns
    <3>3. CASE pc[c] = "beginExclusive" /\ Climbing(c) /\ Owns(c)
      <4>2. LockPending(c) \/ UnlockRead(c) \/ LockRange(c) \/ RelockRead(c)
        BY <3>3 DEF Climbing, SystemCall, LockStep, LockRead, UnlockPendingAgain, LockReserved,
              PeekReserved, UnpeekReserved, UnlockRange, RegainRead, UnlockReserved, ReleaseRead,
              UnlockPending
      <4> QED
        BY <1>1, <1>3, <3>3, <4>2 DEF ReaderLocks, Climbing, Owns, LockTypeOK, LockPending, UnlockRead,
              LockRange, RelockRead, SetHeld, Go, Return
    <3> QED
      BY <1>4, <2>1, <3>1, <3>2, <3>3 DEF ReaderLocks
  <2> QED
    BY <1>3, <1>6, <2>2 DEF PlaceInv, Writers
<1>7. CASE eState[c] \in Writers
  <2>1. WriterLocks(c)
    BY <1>1, <1>7 DEF PlaceInv
  <2>2. eState[c] = "CACHEMOD" /\ pc[c] \in {"spillLock", "commitLock"} /\ Climbing(c) /\ Owns(c)
    BY <1>4, <1>7, <2>1 DEF WriterLocks, Sure, Writers
  <2>3. LockPending(c) \/ UnlockRead(c) \/ LockRange(c) \/ RelockRead(c)
    BY <2>2 DEF Climbing, SystemCall, LockStep, LockRead, UnlockPendingAgain, LockReserved,
          PeekReserved, UnpeekReserved, UnlockRange, RegainRead, UnlockReserved, ReleaseRead,
          UnlockPending
  <2>4. WriterLocks(c)'
    BY <1>1, <1>3, <2>2, <2>3 DEF WriterLocks, Climbing, Owns, LockTypeOK, LockPending, UnlockRead,
          LockRange, RelockRead, SetHeld, Go, Return
  <2> QED
    BY <1>3, <2>2, <2>4 DEF PlaceInv
<1> QED
  BY <1>2, <1>5, <1>6, <1>7

\* What the last call said of the RESERVED byte is true as long as it matters: who
\* has it cannot write before c gives up its SHARED lock.
LEMMA SystemCallFile ==
    ASSUME IInv, NEW c \in Conn, SystemCall(c)
    PROVE  FileView(c)'
<1> USE DEF NO_LOCK, SHARED_LOCK, RESERVED_LOCK, PENDING_LOCK, EXCLUSIVE_LOCK
<1>1. FileView(c) /\ PlaceInv(c) /\ LockTypeOK
  BY DEF IInv, ConnInv, LockInv
<1>2. /\ pc' = pc /\ eState' = eState /\ db' = db /\ committed' = committed /\ journal' = journal
      /\ jfd' = jfd /\ todo' = todo /\ cache' = cache
  BY DEF SystemCall, fileVars, pagerVars
<1>3. ASSUME Trusts(c)', ~Trusts(c) PROVE db = committed
  <2>1. pc[c] = "count" /\ (at[c] # "none" \/ ~res[c]) /\ at'[c] = "none" /\ res'[c]
    BY <1>2, <1>3 DEF Trusts
  <2>2. eState[c] = "OPEN" /\ locktype[c] = SHARED_LOCK /\ at[c] \in {"none", "peek", "unpeek"}
    <3>1. eState[c] \in {"OPEN", "READER"} \cup Writers
      BY DEF IInv, PagerTypes
    <3> QED
      BY <1>1, <2>1, <3>1 DEF PlaceInv, OpenLocks, ReaderLocks, WriterLocks, Writers, Playback
  <2>3. PeekReserved(c) \/ UnpeekReserved(c)
    BY <2>2 DEF SystemCall, LockStep, LockPending, LockRead, UnlockPendingAgain, LockReserved,
          UnlockRead, LockRange, RelockRead, UnlockRange, RegainRead, UnlockReserved, ReleaseRead,
          UnlockPending
  <2>4. CASE PeekReserved(c)
    <3>1. PICK d \in Conn : held["RESERVED"][d] = "exclusive"
      BY <1>1, <2>1, <2>4 DEF PeekReserved, Free, LockTypeOK
    <3>2. locktype[d] # EXCLUSIVE_LOCK
      BY <2>2, <3>1, NobodySure
    <3>3. ReservedInv(d)
      BY DEF IInv, ConnInv
    <3> QED
      BY <3>1, <3>2, <3>3 DEF ReservedInv
  <2>5. CASE UnpeekReserved(c)
    BY <1>1, <2>1, <2>2, <2>5 DEF UnpeekReserved, PlaceInv, OpenLocks
  <2> QED
    BY <2>3, <2>4, <2>5
<1> QED
  BY <1>1, <1>2, <1>3 DEF FileView, Trusts

-----------------------------------------------------------------------------
(* From the parts to the whole *)

\* What a step has to keep beside the locks.
Kept == PagerTypes' /\ FilesInv' /\ \A e \in Conn : ConnInv(e)'

LockMove(c) == LockStep(c) \/ LockCall(c) \/ DropLocks(c) \/ UNCHANGED lockVars

LEMMA OthersLocks ==
    ASSUME LockTypeOK, NEW c \in Conn, NEW d \in Conn, c # d, LockMove(c)
    PROVE  LockSame(d)
<1> USE DEF LockTypeOK, LockSame, Ranges
<1>1. CASE LockPending(c) \/ LockRead(c) \/ UnlockPendingAgain(c) \/ LockReserved(c)
  BY <1>1 DEF LockPending, LockRead, UnlockPendingAgain, LockReserved, SetHeld, Go, Return
<1>2. CASE UnlockRead(c) \/ LockRange(c) \/ RelockRead(c) \/ PeekReserved(c) \/ UnpeekReserved(c)
  BY <1>2 DEF UnlockRead, LockRange, RelockRead, PeekReserved, UnpeekReserved, SetHeld, Go, Return
<1>3. CASE UnlockRange(c) \/ RegainRead(c) \/ UnlockReserved(c) \/ ReleaseRead(c) \/ UnlockPending(c)
  BY <1>3 DEF UnlockRange, RegainRead, UnlockReserved, ReleaseRead, UnlockPending, SetHeld, Go, Lower
<1>4. CASE LockCall(c)
  BY <1>4 DEF LockCall, winLock, winCheckReservedLock, winUnlock, Go
<1>5. CASE DropLocks(c)
  BY <1>5 DEF DropLocks, Go
<1>6. CASE UNCHANGED lockVars
  BY <1>6 DEF lockVars
<1> QED
  BY <1>1, <1>2, <1>3, <1>4, <1>5, <1>6 DEF LockMove, LockStep

\* A step that leaves the files alone has to be looked at for c only.
LEMMA QuietKeeps ==
    ASSUME IInv, NEW c \in Conn, LockMove(c),
           \A d \in Conn : d # c => PagerSame(d),
           UNCHANGED fileVars, txns' \in Nat, txns <= txns', PagerTypes', ConnInv(c)'
    PROVE  Kept
<1>1. FilesInv'
  <2>1. Counter(committed)' = Counter(committed)
    BY DEF Counter, fileVars
  <2>2. Counter(committed) \in Nat /\ txns \in Nat /\ FilesInv
    BY CounterType, ConnectionsAssumption DEF IInv, PagerTypes
  <2> QED
    BY <2>1, <2>2 DEF FilesInv, FilesHoldCommitted, fileVars
<1>2. ASSUME NEW d \in Conn, d # c PROVE ConnInv(d)'
  <2>1. PrivateSame(d)
    BY <1>2, OthersLocks DEF PrivateSame, IInv, LockInv
  <2> QED
    BY <2>1, OthersStay DEF JournalLeft, fileVars
<1> QED
  BY <1>1, <1>2 DEF Kept

OpenPlaces == {"idle", "shared", "access", "check", "count", "clean", "hotLock", "fail",
               "open", "version"} \cup Playback

\* Without a transaction the views of the cache and of the writes only depend on
\* what c has seen, not on its place.
LEMMA StaysOpen ==
    ASSUME IInv, NEW c \in Conn, eState[c] = "OPEN", eState'[c] = "OPEN", pc'[c] \in OpenPlaces,
           cache'[c] = cache[c], dbFileVers'[c] = dbFileVers[c], heldShared'[c] = heldShared[c],
           committed' = committed, txns' = txns
    PROVE  CacheView(c)' /\ WriteView(c)'
<1>1. CacheView(c)
  BY DEF IInv, ConnInv
<1>2. ~Writing(c) /\ ~Restored(c) /\ ~Writing(c)' /\ ~Restored(c)'
  BY DEF Writing, Restored, Live
<1>3. Matches(c)' = Matches(c) /\ Counter(committed)' = Counter(committed)
  BY DEF Matches, Content, Counter
<1>4. CacheView(c)'
  BY <1>1, <1>2, <1>3 DEF CacheView
<1>5. WriteView(c)'
  BY <1>2 DEF WriteView, OpenPlaces, Playback
<1> QED
  BY <1>4, <1>5

LEMMA SystemCallKeeps ==
    ASSUME IInv, NEW c \in Conn, SystemCall(c)
    PROVE  Kept
<1>1. UNCHANGED <<fileVars, pagerVars, boundVars>> /\ LockStep(c)
  BY DEF SystemCall
<1>2. PagerTypes'
  BY <1>1 DEF IInv, PagerTypes, fileVars, pagerVars, boundVars
<1>3. CacheView(c)' /\ WriteView(c)'
  <2>1. CacheView(c) /\ WriteView(c)
    BY DEF IInv, ConnInv
  <2>2. CacheView(c)'
    BY <1>1, <2>1 DEF CacheView, Matches, Content, Counter, Writing, Restored, fileVars, pagerVars, boundVars
  <2>3. WriteView(c)'
    BY <1>1, <2>1 DEF WriteView, Seen, Counter, Writing, Restored, fileVars, pagerVars, boundVars
  <2> QED
    BY <2>2, <2>3
<1>4. ConnInv(c)'
  BY <1>3, SystemCallReserved, SystemCallPlace, SystemCallFile DEF ConnInv
<1>5. \A d \in Conn : d # c => PagerSame(d)
  BY <1>1 DEF PagerSame, pagerVars
<1>6. txns' \in Nat /\ txns <= txns'
  BY <1>1, ConnectionsAssumption DEF IInv, PagerTypes, boundVars
<1> QED
  BY <1>1, <1>2, <1>4, <1>5, <1>6, QuietKeeps DEF LockMove

-----------------------------------------------------------------------------
(* sqlite3PagerSharedLock *)

\* The levels of c between two VFS calls, by its place.
LEMMA BetweenCalls ==
    ASSUME IInv, NEW c \in Conn, at[c] = "none"
    PROVE  /\ ReservedInv(c) /\ PlaceInv(c) /\ FileView(c) /\ LockTypeOK /\ PagerTypes /\ FilesInv
           /\ pc[c] \in {"shared", "access", "check", "count", "clean", "hotLock", "fail", "open",
                         "version"} => eState[c] = "OPEN" /\ OpenLocks(c)
           /\ eState[c] = "OPEN" => OpenLocks(c) /\ pc[c] \in OpenPlaces
           /\ eState[c] = "READER" => ReaderLocks(c)
           /\ eState[c] \in Writers => WriterLocks(c)
<1>1. ReservedInv(c) /\ PlaceInv(c) /\ FileView(c) /\ LockTypeOK /\ PagerTypes /\ FilesInv
  BY DEF IInv, ConnInv, LockInv
<1>2. eState[c] \in {"OPEN", "READER"} \cup Writers
  BY <1>1 DEF PagerTypes
<1>3. eState[c] = "READER" => pc[c] \in {"idle", "begin", "beginExclusive"}
  BY <1>1 DEF PlaceInv, ReaderLocks
<1>4. eState[c] \in Writers =>
        pc[c] \in {"idle", "journal", "spillLock", "spillWrite", "commitLock", "commitWrite", "phaseTwo"}
                  \cup Playback
  BY <1>1 DEF PlaceInv, WriterLocks, Writers, Playback
<1>5. eState[c] = "OPEN" => OpenLocks(c) /\ pc[c] \in OpenPlaces
  BY <1>1 DEF PlaceInv, OpenLocks, OpenPlaces
<1> QED
  BY <1>1, <1>2, <1>3, <1>4, <1>5 DEF PlaceInv, Playback

LEMMA QuietOpenKeeps ==
    ASSUME IInv, NEW c \in Conn, LockMove(c), QuietBut, eState[c] = "OPEN", pc'[c] \in OpenPlaces,
           To(c, pc'[c]), UNCHANGED <<eState, cache, dbFileVers, heldShared, todo>>,
           jfd' \in [Conn -> BOOLEAN], \A d \in Conn : d # c => jfd'[d] = jfd[d],
           ReservedInv(c)', PlaceInv(c)', FileView(c)'
    PROVE  Kept
<1>1. PagerTypes
  BY DEF IInv
<1>2. pc' \in [Conn -> Places] /\ \A d \in Conn : d # c => pc'[d] = pc[d]
  <2>1. pc'[c] \in Places
    BY DEF OpenPlaces, Playback, Places
  <2> QED
    BY <1>1, <2>1 DEF PagerTypes, To
<1>3. PagerTypes'
  BY <1>1, <1>2 DEF PagerTypes, QuietBut, fileVars, boundVars
<1>4. CacheView(c)' /\ WriteView(c)'
  BY StaysOpen DEF QuietBut, fileVars, boundVars
<1>5. ConnInv(c)'
  BY <1>4 DEF ConnInv
<1>6. \A d \in Conn : d # c => PagerSame(d)
  BY <1>2 DEF PagerSame
<1>7. UNCHANGED fileVars /\ txns' \in Nat /\ txns <= txns'
  BY <1>1, ConnectionsAssumption DEF PagerTypes, QuietBut, boundVars
<1> QED
  BY <1>3, <1>5, <1>6, <1>7, QuietKeeps

LEMMA SharedLockKeeps ==
    ASSUME IInv, NEW c \in Conn, sqlite3PagerSharedLock(c)
    PROVE  Kept
<1> USE DEF NO_LOCK, SHARED_LOCK, RESERVED_LOCK, PENDING_LOCK, EXCLUSIVE_LOCK
<1>1. at[c] = "none" /\ pc[c] = "idle" /\ eState[c] = "OPEN" /\ To(c, "shared")
  BY DEF sqlite3PagerSharedLock, At
<1>2. ReservedInv(c) /\ FileView(c) /\ LockTypeOK /\ PagerTypes /\ locktype[c] = NO_LOCK
  BY <1>1, BetweenCalls DEF OpenLocks, Lowering
<1>3. pc'[c] = "shared"
  BY <1>1, <1>2 DEF To, PagerTypes
<1>4. /\ at'[c] = "pending" /\ want'[c] = SHARED_LOCK
      /\ locktype' = locktype /\ held' = held
  BY <1>1, <1>2 DEF sqlite3PagerSharedLock, winLock, Go, LockTypeOK
<1>5. QuietBut /\ UNCHANGED <<eState, cache, dbFileVers, heldShared, jfd, todo>> /\ LockMove(c)
  BY DEF sqlite3PagerSharedLock, LockMove, LockCall
<1>6. ReservedInv(c)'
  BY <1>2, <1>3, <1>4, <1>5 DEF ReservedInv, QuietBut, fileVars
<1>7. PlaceInv(c)'
  BY <1>1, <1>3, <1>4, <1>5 DEF PlaceInv, OpenLocks, Playback, Writers
<1>8. FileView(c)'
  BY <1>1, <1>3, <1>4, <1>5 DEF FileView, Trusts, Live
<1> QED
  BY <1>1, <1>2, <1>3, <1>5, <1>6, <1>7, <1>8, QuietOpenKeeps DEF OpenPlaces, PagerTypes

LEMMA SharedGrantedKeeps ==
    ASSUME IInv, NEW c \in Conn, SharedGranted(c)
    PROVE  Kept
<1> USE DEF NO_LOCK, SHARED_LOCK, RESERVED_LOCK, PENDING_LOCK, EXCLUSIVE_LOCK
<1>1. at[c] = "none" /\ pc[c] = "shared"
  BY DEF SharedGranted, At
<1>2. /\ ReservedInv(c) /\ FileView(c) /\ LockTypeOK /\ PagerTypes /\ eState[c] = "OPEN"
      /\ locktype[c] = IF res[c] THEN SHARED_LOCK ELSE NO_LOCK
  BY <1>1, BetweenCalls DEF OpenLocks
<1>3. QuietBut /\ UNCHANGED <<eState, cache, dbFileVers, heldShared, jfd, todo>> /\ LockMove(c)
  BY DEF SharedGranted, LockMove, LockCall
<1>4. locktype' = locktype /\ held' = held /\ To(c, pc'[c])
  BY <1>2 DEF SharedGranted, winLock, lockVars, To, PagerTypes
<1>5. \/ res[c] /\ pc'[c] \in {"access", "check"} /\ at'[c] = "none"
      \/ ~res[c] /\ pc'[c] = "shared" /\ at'[c] = "pending" /\ want'[c] = SHARED_LOCK
      \/ ~res[c] /\ pc'[c] = "idle" /\ at'[c] = "none"
  BY <1>1, <1>2 DEF SharedGranted, winLock, Go, LockTypeOK, lockVars, To, PagerTypes
<1>6. ReservedInv(c)'
  BY <1>2, <1>3, <1>4, <1>5 DEF ReservedInv, QuietBut, fileVars
<1>7. PlaceInv(c)'
  BY <1>2, <1>3, <1>4, <1>5 DEF PlaceInv, OpenLocks, Playback, Writers
<1>8. FileView(c)'
  BY <1>2, <1>3, <1>5 DEF FileView, Trusts, Live
<1> QED
  BY <1>2, <1>3, <1>4, <1>5, <1>6, <1>7, <1>8, QuietOpenKeeps DEF OpenPlaces, PagerTypes

LEMMA HotAccessKeeps ==
    ASSUME IInv, NEW c \in Conn, HotAccess(c)
    PROVE  Kept
<1>1. at[c] = "none" /\ pc[c] = "access"
  BY DEF HotAccess, At
<1>2. /\ ReservedInv(c) /\ FileView(c) /\ LockTypeOK /\ PagerTypes /\ FilesInv /\ eState[c] = "OPEN"
      /\ locktype[c] = SHARED_LOCK
  BY <1>1, BetweenCalls DEF OpenLocks
<1>3. QuietBut /\ UNCHANGED <<eState, cache, dbFileVers, heldShared, jfd, todo>> /\ UNCHANGED lockVars
  BY DEF HotAccess
<1>4. pc'[c] = (IF journal.file THEN "check" ELSE "version") /\ To(c, pc'[c])
  BY <1>2 DEF HotAccess, To, PagerTypes
<1>5. ~journal.file => db = committed
  BY <1>2 DEF FilesInv, FilesHoldCommitted
<1>6. ReservedInv(c)'
  BY <1>1, <1>2, <1>3, <1>4 DEF ReservedInv, QuietBut, fileVars, lockVars
<1>7. PlaceInv(c)'
  BY <1>1, <1>2, <1>3, <1>4 DEF PlaceInv, OpenLocks, Playback, Writers, lockVars
<1>8. FileView(c)'
  BY <1>2, <1>3, <1>4, <1>5 DEF FileView, Trusts, Live, QuietBut, fileVars
<1> QED
  BY <1>2, <1>3, <1>4, <1>6, <1>7, <1>8, QuietOpenKeeps DEF OpenPlaces, PagerTypes, LockMove

LEMMA HotCheckKeeps ==
    ASSUME IInv, NEW c \in Conn, HotCheck(c)
    PROVE  Kept
<1> USE DEF NO_LOCK, SHARED_LOCK, RESERVED_LOCK, PENDING_LOCK, EXCLUSIVE_LOCK
<1>1. at[c] = "none" /\ pc[c] = "check" /\ To(c, "count")
  BY DEF HotCheck, At
<1>2. /\ ReservedInv(c) /\ FileView(c) /\ LockTypeOK /\ PagerTypes /\ eState[c] = "OPEN"
      /\ locktype[c] = SHARED_LOCK
  BY <1>1, BetweenCalls DEF OpenLocks
<1>3. QuietBut /\ UNCHANGED <<eState, cache, dbFileVers, heldShared, jfd, todo>> /\ LockMove(c)
  BY DEF HotCheck, LockMove, LockCall
<1>4. at'[c] = "peek" /\ UNCHANGED <<held, locktype, res>> /\ pc'[c] = "count"
  BY <1>1, <1>2 DEF HotCheck, winCheckReservedLock, Go, LockTypeOK, To, PagerTypes
<1>6. ReservedInv(c)'
  BY <1>2, <1>3, <1>4 DEF ReservedInv, QuietBut, fileVars
<1>7. PlaceInv(c)'
  BY <1>2, <1>3, <1>4 DEF PlaceInv, OpenLocks, Playback, Writers
<1>8. FileView(c)'
  BY <1>2, <1>3, <1>4 DEF FileView, Trusts, Live
<1> QED
  BY <1>1, <1>2, <1>3, <1>4, <1>6, <1>7, <1>8, QuietOpenKeeps DEF OpenPlaces, PagerTypes

\* A journal that is no hot journal has nothing to roll back, as far as c can see:
\* somebody has the RESERVED byte, the database is empty, or the header is gone.
LEMMA HotCountKeeps ==
    ASSUME IInv, NEW c \in Conn, HotCount(c)
    PROVE  Kept
<1> USE DEF NO_LOCK, SHARED_LOCK, RESERVED_LOCK, PENDING_LOCK, EXCLUSIVE_LOCK
<1> DEFINE remnant == ~res[c] /\ Len(db) = 0 /\ ~jfd[c]
           hot     == ~res[c] /\ ~remnant /\ LooksHot(c)
<1>1. at[c] = "none" /\ pc[c] = "count"
  BY DEF HotCount, At
<1>2. /\ ReservedInv(c) /\ FileView(c) /\ LockTypeOK /\ PagerTypes /\ FilesInv /\ eState[c] = "OPEN"
      /\ locktype[c] = SHARED_LOCK
  BY <1>1, BetweenCalls DEF OpenLocks
<1>3. QuietBut /\ UNCHANGED <<eState, cache, dbFileVers, heldShared, jfd, todo>>
  BY DEF HotCount
<1>4. \/ remnant /\ winLock(c, RESERVED_LOCK) /\ To(c, "clean")
      \/ hot /\ winLock(c, EXCLUSIVE_LOCK) /\ To(c, "hotLock")
      \/ ~remnant /\ ~hot /\ To(c, "version") /\ UNCHANGED lockVars
  BY DEF HotCount
<1>5. LockMove(c) /\ To(c, pc'[c])
  BY <1>2, <1>4 DEF LockMove, LockCall, To, PagerTypes
<1>6. /\ UNCHANGED <<held, locktype>>
      /\ \/ remnant /\ pc'[c] = "clean" /\ at'[c] = "reserve"
         \/ pc'[c] = "hotLock" /\ at'[c] = "pending" /\ want'[c] = EXCLUSIVE_LOCK
         \/ ~remnant /\ ~hot /\ pc'[c] = "version" /\ at'[c] = "none"
  BY <1>1, <1>2, <1>4 DEF winLock, Go, LockTypeOK, To, PagerTypes, lockVars
<1>7. remnant => db = committed
  <2>1. CASE journal.valid /\ Len(db) = 0
    <3>1. Len(journal.orig) = 0
      BY <1>2, <2>1, FileFacts DEF FilesInv, PagerTypes
    <3> QED
      BY <1>2, <2>1, <3>1, FileEqual DEF FilesInv, FilesHoldCommitted, PagerTypes
  <2> QED
    BY <1>2, <2>1 DEF FilesInv, FilesHoldCommitted
<1>8. ~remnant /\ ~hot => db = committed
  BY <1>1, <1>2 DEF FilesInv, FilesHoldCommitted, LooksHot, FileView, Trusts
<1>9. ReservedInv(c)'
  BY <1>2, <1>3, <1>6 DEF ReservedInv, QuietBut, fileVars
<1>10. PlaceInv(c)'
  BY <1>2, <1>3, <1>6 DEF PlaceInv, OpenLocks, Climbing, Playback, Writers
<1>11. FileView(c)'
  BY <1>2, <1>3, <1>6, <1>7, <1>8 DEF FileView, Trusts, Live, QuietBut, fileVars
<1> QED
  BY <1>2, <1>3, <1>5, <1>6, <1>9, <1>10, <1>11, QuietOpenKeeps DEF OpenPlaces, PagerTypes

LEMMA HotLockedKeeps ==
    ASSUME IInv, NEW c \in Conn, HotLocked(c)
    PROVE  Kept
<1>1. at[c] = "none" /\ pc[c] = "hotLock"
  BY DEF HotLocked, At
<1>2. /\ ReservedInv(c) /\ FileView(c) /\ PagerTypes /\ eState[c] = "OPEN"
      /\ IF res[c] THEN locktype[c] = EXCLUSIVE_LOCK ELSE locktype[c] \in {SHARED_LOCK, PENDING_LOCK}
  BY <1>1, BetweenCalls DEF OpenLocks, Climbing
<1>3. QuietBut /\ UNCHANGED <<eState, cache, dbFileVers, heldShared, jfd, todo>> /\ UNCHANGED lockVars
  BY DEF HotLocked
<1>4. pc'[c] = (IF res[c] THEN "open" ELSE "fail") /\ To(c, pc'[c])
  BY <1>2 DEF HotLocked, To, PagerTypes
<1>6. ReservedInv(c)'
  BY <1>1, <1>2, <1>3, <1>4 DEF ReservedInv, QuietBut, fileVars, lockVars
<1>7. PlaceInv(c)'
  BY <1>1, <1>2, <1>3, <1>4 DEF PlaceInv, OpenLocks, Sure, Playback, Writers, lockVars
<1>8. FileView(c)'
  BY <1>2, <1>3, <1>4 DEF FileView, Trusts, Live, QuietBut, fileVars
<1> QED
  BY <1>2, <1>3, <1>4, <1>6, <1>7, <1>8, QuietOpenKeeps DEF OpenPlaces, PagerTypes, LockMove

LEMMA HotOpenKeeps ==
    ASSUME IInv, NEW c \in Conn, HotOpen(c)
    PROVE  Kept
<1> USE DEF NO_LOCK, SHARED_LOCK, RESERVED_LOCK, PENDING_LOCK, EXCLUSIVE_LOCK
<1>1. at[c] = "none" /\ pc[c] = "open"
  BY DEF HotOpen, At
<1>2. /\ ReservedInv(c) /\ FileView(c) /\ LockTypeOK /\ PagerTypes /\ FilesInv /\ eState[c] = "OPEN"
      /\ locktype[c] = EXCLUSIVE_LOCK
  BY <1>1, BetweenCalls DEF OpenLocks, Sure
<1>3. QuietBut /\ UNCHANGED <<eState, cache, dbFileVers, heldShared, todo>>
  BY DEF HotOpen
<1>4. LockMove(c) /\ To(c, pc'[c])
  BY <1>2 DEF HotOpen, LockMove, LockCall, To, PagerTypes
<1>5. jfd' \in [Conn -> BOOLEAN] /\ \A d \in Conn : d # c => jfd'[d] = jfd[d]
  BY <1>2 DEF HotOpen, PagerTypes
<1>6. /\ UNCHANGED <<held, locktype>>
      /\ \/ journal.file /\ pc'[c] = "header" /\ at'[c] = "none"
         \/ ~journal.file /\ pc'[c] = "version" /\ at'[c] = "unrange" /\ want'[c] = SHARED_LOCK
  BY <1>1, <1>2 DEF HotOpen, winUnlock, Go, LockTypeOK, To, PagerTypes, lockVars
<1>7. ~journal.file => db = committed
  BY <1>2 DEF FilesInv, FilesHoldCommitted
<1>9. ReservedInv(c)'
  BY <1>2, <1>3, <1>6 DEF ReservedInv, QuietBut, fileVars
<1>10. PlaceInv(c)'
  BY <1>2, <1>3, <1>6 DEF PlaceInv, OpenLocks, Lowering, Sure, Playback, Writers
<1>11. FileView(c)'
  BY <1>2, <1>3, <1>6, <1>7 DEF FileView, Trusts, Live, QuietBut, fileVars
<1> QED
  BY <1>2, <1>3, <1>4, <1>5, <1>6, <1>9, <1>10, <1>11, QuietOpenKeeps DEF OpenPlaces, Playback

\* The remnant is deleted under the RESERVED lock: no live transaction has it open.
LEMMA HotCleanKeeps ==
    ASSUME IInv, NEW c \in Conn, HotClean(c)
    PROVE  Kept
<1> USE DEF NO_LOCK, SHARED_LOCK, RESERVED_LOCK, PENDING_LOCK, EXCLUSIVE_LOCK
<1>1. at[c] = "none" /\ pc[c] = "clean" /\ To(c, "version")
  BY DEF HotClean, At
<1>2. /\ ReservedInv(c) /\ FileView(c) /\ LockTypeOK /\ PagerTypes /\ FilesInv /\ eState[c] = "OPEN"
      /\ IF res[c] THEN Owns(c) /\ locktype[c] = RESERVED_LOCK ELSE locktype[c] = SHARED_LOCK
  BY <1>1, BetweenCalls DEF OpenLocks
<1>3. UNCHANGED <<db, committed, boundVars, eState, cache, dbFileVers, heldShared, jfd, todo>>
  BY DEF HotClean
<1>4. db = committed
  BY <1>1, <1>2 DEF FileView, Trusts
<1>5. journal' = journal \/ (journal' = Absent /\ \A d \in Conn : ~jfd[d])
  BY DEF HotClean
<1>6. LockMove(c) /\ pc'[c] = "version"
  BY <1>1, <1>2 DEF HotClean, LockMove, LockCall, To, PagerTypes
<1>7. /\ UNCHANGED <<held, locktype>>
      /\ \/ res[c] /\ at'[c] = "unreserve" /\ want'[c] = SHARED_LOCK
         \/ ~res[c] /\ at'[c] = "none"
  BY <1>1, <1>2 DEF HotClean, winUnlock, Go, LockTypeOK, lockVars
<1>8. PagerTypes'
  <2>1. journal' \in [file : BOOLEAN, valid : BOOLEAN, orig : Files]
    <3>1. Absent \in [file : BOOLEAN, valid : BOOLEAN, orig : Files]
      BY NoFile DEF Absent
    <3> QED
      BY <1>2, <1>5, <3>1 DEF PagerTypes
  <2>2. pc' \in [Conn -> Places]
    BY <1>1, <1>2 DEF PagerTypes, To, Places
  <2> QED
    BY <1>2, <1>3, <2>1, <2>2 DEF PagerTypes, boundVars
<1>9. FilesInv'
  <2>1. Counter(committed)' = Counter(committed)
    BY <1>3 DEF Counter
  <2>2. CASE journal' = journal
    BY <1>2, <1>3, <2>1, <2>2 DEF FilesInv, FilesHoldCommitted, boundVars
  <2>3. CASE journal' = Absent
    BY <1>2, <1>3, <1>4, <2>1, <2>3 DEF FilesInv, FilesHoldCommitted, Absent, boundVars
  <2> QED
    BY <1>5, <2>2, <2>3
<1>10. ReservedInv(c)'
  BY <1>2, <1>3, <1>4, <1>6, <1>7 DEF ReservedInv
<1>11. PlaceInv(c)'
  BY <1>2, <1>3, <1>6, <1>7 DEF PlaceInv, OpenLocks, Lowering, Playback, Writers
<1>12. FileView(c)'
  BY <1>2, <1>3, <1>4, <1>6 DEF FileView, Trusts, Live
<1>13. ConnInv(c)'
  <2>1. CacheView(c)' /\ WriteView(c)'
    BY <1>2, <1>3, <1>6, StaysOpen DEF OpenPlaces, boundVars
  <2> QED
    BY <1>10, <1>11, <1>12, <2>1 DEF ConnInv
<1>14. ASSUME NEW d \in Conn, d # c PROVE ConnInv(d)'
  <2>1. PrivateSame(d)
    <3>1. LockSame(d)
      BY <1>2, <1>6, <1>14, OthersLocks
    <3>2. PagerSame(d)
      BY <1>1, <1>2, <1>3, <1>14 DEF PagerSame, PagerTypes, To
    <3> QED
      BY <3>1, <3>2 DEF PrivateSame
  <2>2. JournalLeft(d)
    <3>1. ~Sure(d)
      BY <1>2, <1>14, NobodySure
    <3>2. eState[d] \in Live /\ pc[d] # "ended" => jfd[d]
      BY DEF IInv, ConnInv, FileView
    <3>3. CASE journal' = journal
      BY <3>3 DEF JournalLeft
    <3>4. CASE res[c]
      BY <1>2, <1>14, <3>1, <3>4, OwnerAlone DEF JournalLeft
    <3>5. CASE ~res[c]
      BY <3>5 DEF HotClean, JournalLeft
    <3> QED
      BY <3>4, <3>5
  <2>3. txns' = txns /\ txns \in Nat
    BY <1>2, <1>3, ConnectionsAssumption DEF PagerTypes, boundVars
  <2> QED
    BY <1>3, <2>1, <2>2, <2>3, OthersStay
<1> QED
  BY <1>8, <1>9, <1>13, <1>14 DEF Kept

\* The counter in the file tells whether the cache is still good.
LEMMA VersionCheckKeeps ==
    ASSUME IInv, NEW c \in Conn, VersionCheck(c)
    PROVE  Kept
<1>1. at[c] = "none" /\ pc[c] = "version" /\ To(c, "idle")
  BY DEF VersionCheck, At
<1>2. /\ ReservedInv(c) /\ FileView(c) /\ PagerTypes /\ eState[c] = "OPEN" /\ locktype[c] = SHARED_LOCK
  BY <1>1, BetweenCalls DEF OpenLocks, Lowering
<1>3. CacheView(c)
  BY DEF IInv, ConnInv
<1>4. /\ QuietBut /\ UNCHANGED <<lockVars, dbFileVers, jfd, todo>>
      /\ eState' = [eState EXCEPT ![c] = "READER"] /\ heldShared' = [heldShared EXCEPT ![c] = TRUE]
      /\ cache' = [cache EXCEPT ![c] =
                      IF heldShared[c] /\ dbFileVers[c] # Counter(db) THEN NoPages ELSE @]
  BY DEF VersionCheck
<1>5. db = committed
  BY <1>1, <1>2 DEF FileView, Trusts
<1>6. NoPages \in Caches /\ DOMAIN NoPages = {}
  <2>1. NoPages \in [{} -> 0 .. MaxTxn]
    BY DEF NoPages
  <2> QED
    BY <2>1, CacheIntro
<1>7. /\ pc'[c] = "idle" /\ eState'[c] = "READER" /\ heldShared'[c]
      /\ cache'[c] = IF heldShared[c] /\ dbFileVers[c] # Counter(committed) THEN NoPages ELSE cache[c]
  BY <1>1, <1>2, <1>4, <1>5 DEF PagerTypes, To
<1>8. \A d \in Conn : d # c => PagerSame(d)
  BY <1>1, <1>2, <1>4 DEF PagerSame, PagerTypes, To
<1>9. PagerTypes'
  <2>1. cache' \in [Conn -> Caches]
    BY <1>2, <1>4, <1>6 DEF PagerTypes
  <2>2. pc' \in [Conn -> Places] /\ eState' \in [Conn -> {"OPEN", "READER"} \cup Writers]
        /\ heldShared' \in [Conn -> BOOLEAN]
    BY <1>1, <1>2, <1>4 DEF PagerTypes, To, Places
  <2> QED
    BY <1>2, <1>4, <2>1, <2>2 DEF PagerTypes, QuietBut, fileVars, boundVars
<1>10. ReservedInv(c)'
  BY <1>1, <1>2, <1>4, <1>7 DEF ReservedInv, QuietBut, fileVars, lockVars
<1>11. PlaceInv(c)'
  BY <1>1, <1>2, <1>4, <1>7 DEF PlaceInv, ReaderLocks, Writers, lockVars, SHARED_LOCK, RESERVED_LOCK
<1>12. FileView(c)'
  BY <1>4, <1>5, <1>7 DEF FileView, Live, QuietBut, fileVars
<1>13. CacheView(c)'
  <2>1. \/ cache'[c] = cache[c] /\ (DOMAIN cache[c] # {} => dbFileVers[c] = Counter(committed))
        \/ cache'[c] = NoPages
    BY <1>3, <1>7 DEF CacheView
  <2>2. ~Writing(c) /\ ~Writing(c)' /\ committed' = committed /\ Counter(committed)' = Counter(committed)
        /\ txns' = txns
    BY <1>2, <1>4, <1>7 DEF Writing, Live, QuietBut, fileVars, boundVars, Counter
  <2>3. Matches(c)'
    BY <1>3, <1>6, <2>1, <2>2 DEF CacheView, Matches, Content
  <2> QED
    BY <1>3, <1>4, <1>6, <1>7, <2>1, <2>2, <2>3 DEF CacheView
<1>14. WriteView(c)'
  BY <1>7 DEF WriteView, Writing, Live
<1>15. ConnInv(c)'
  BY <1>10, <1>11, <1>12, <1>13, <1>14 DEF ConnInv
<1>16. UNCHANGED fileVars /\ txns' \in Nat /\ txns <= txns'
  BY <1>2, <1>4, ConnectionsAssumption DEF PagerTypes, QuietBut, boundVars
<1> QED
  BY <1>4, <1>8, <1>9, <1>15, <1>16, QuietKeeps DEF LockMove

LEMMA UnlockKeeps ==
    ASSUME IInv, NEW c \in Conn, pager_unlock(c)
    PROVE  Kept
<1> USE DEF NO_LOCK, SHARED_LOCK, RESERVED_LOCK, PENDING_LOCK, EXCLUSIVE_LOCK
<1>1. at[c] = "none" /\ To(c, "idle")
      /\ (pc[c] = "fail" \/ (pc[c] = "idle" /\ eState[c] = "READER"))
  BY DEF pager_unlock, At
<1>2. /\ ReservedInv(c) /\ FileView(c) /\ LockTypeOK /\ PagerTypes
      /\ eState[c] \in {"OPEN", "READER"} /\ locktype[c] >= SHARED_LOCK
  BY <1>1, BetweenCalls DEF OpenLocks, ReaderLocks
<1>3. CacheView(c)
  BY DEF IInv, ConnInv
<1>4. /\ QuietBut /\ UNCHANGED <<cache, dbFileVers, heldShared, todo>> /\ LockMove(c)
      /\ eState' = [eState EXCEPT ![c] = "OPEN"] /\ jfd' = [jfd EXCEPT ![c] = @ /\ mode = "PERSIST"]
  BY DEF pager_unlock, CloseJournal, LockMove, LockCall
<1>5. pc'[c] = "idle" /\ eState'[c] = "OPEN"
  BY <1>1, <1>2, <1>4 DEF PagerTypes, To
<1>6. /\ UNCHANGED <<held, locktype>> /\ want'[c] = NO_LOCK
      /\ at'[c] \in {"unrange", "unreserve"} \/ (locktype[c] = SHARED_LOCK /\ at'[c] = "release")
  BY <1>1, <1>2 DEF pager_unlock, winUnlock, Go, LockTypeOK
<1>7. \A d \in Conn : d # c => PagerSame(d)
  BY <1>1, <1>2, <1>4 DEF PagerSame, PagerTypes, To
<1>8. PagerTypes'
  <2>1. pc' \in [Conn -> Places] /\ eState' \in [Conn -> {"OPEN", "READER"} \cup Writers]
        /\ jfd' \in [Conn -> BOOLEAN]
    BY <1>1, <1>2, <1>4 DEF PagerTypes, To, Places
  <2> QED
    BY <1>2, <1>4, <2>1 DEF PagerTypes, QuietBut, fileVars, boundVars
<1>9. ReservedInv(c)'
  BY <1>2, <1>4, <1>5, <1>6 DEF ReservedInv, QuietBut, fileVars
<1>10. PlaceInv(c)'
  BY <1>5, <1>6 DEF PlaceInv, OpenLocks, Lowering, Playback, Writers
<1>11. FileView(c)'
  BY <1>5 DEF FileView, Trusts, Live
<1>12. CacheView(c)'
  <2>1. ~Writing(c) /\ ~Writing(c)' /\ ~Restored(c)' /\ committed' = committed
        /\ Counter(committed)' = Counter(committed) /\ txns' = txns
    BY <1>2, <1>4, <1>5 DEF Writing, Restored, Live, QuietBut, fileVars, boundVars, Counter
  <2>2. Matches(c)' = Matches(c)
    BY <1>4, <2>1 DEF Matches, Content
  <2> QED
    BY <1>3, <1>4, <1>5, <2>1, <2>2 DEF CacheView
<1>13. WriteView(c)'
  BY <1>5 DEF WriteView, Writing, Live
<1>14. ConnInv(c)'
  BY <1>9, <1>10, <1>11, <1>12, <1>13 DEF ConnInv
<1>15. UNCHANGED fileVars /\ txns' \in Nat /\ txns <= txns'
  BY <1>2, <1>4, ConnectionsAssumption DEF PagerTypes, QuietBut, boundVars
<1> QED
  BY <1>4, <1>7, <1>8, <1>14, <1>15, QuietKeeps

LEMMA EndTransactionKeeps ==
    ASSUME IInv, NEW c \in Conn, EndTransaction(c)
    PROVE  Kept
<1> USE DEF NO_LOCK, SHARED_LOCK, RESERVED_LOCK, PENDING_LOCK, EXCLUSIVE_LOCK
<1>1. at[c] = "none" /\ pc[c] = "ended"
  BY DEF EndTransaction, At
<1>2. /\ ReservedInv(c) /\ FileView(c) /\ LockTypeOK /\ PagerTypes
      /\ locktype[c] >= RESERVED_LOCK /\ eState[c] \in {"OPEN"} \cup Writers
  <2>1. ReservedInv(c) /\ FileView(c) /\ LockTypeOK /\ PagerTypes
    BY <1>1, BetweenCalls
  <2>2. eState[c] = "OPEN" => locktype[c] = EXCLUSIVE_LOCK
    BY <1>1, BetweenCalls DEF OpenLocks, Sure, Playback
  <2>3. eState[c] # "READER"
    BY <1>1, BetweenCalls DEF ReaderLocks
  <2>4. eState[c] \in Writers => locktype[c] >= RESERVED_LOCK
    BY <1>1, BetweenCalls DEF WriterLocks, Owns
  <2> QED
    BY <2>1, <2>2, <2>3, <2>4 DEF PagerTypes
<1>3. CacheView(c)
  BY DEF IInv, ConnInv
<1>4. /\ QuietBut /\ UNCHANGED <<cache, dbFileVers, heldShared, jfd, todo>> /\ LockMove(c)
      /\ eState' = [eState EXCEPT ![c] = IF @ = "OPEN" THEN @ ELSE "READER"]
      /\ To(c, IF eState[c] = "OPEN" THEN "version" ELSE "idle")
  BY DEF EndTransaction, LockMove, LockCall
<1>5. /\ pc'[c] = (IF eState[c] = "OPEN" THEN "version" ELSE "idle")
      /\ eState'[c] = (IF eState[c] = "OPEN" THEN "OPEN" ELSE "READER")
  BY <1>2, <1>4 DEF PagerTypes, To
<1>6. /\ UNCHANGED <<held, locktype>> /\ want'[c] = SHARED_LOCK
      /\ at'[c] \in {"unrange", "unreserve"}
  BY <1>1, <1>2 DEF EndTransaction, winUnlock, Go, LockTypeOK
<1>7. \A d \in Conn : d # c => PagerSame(d)
  BY <1>2, <1>4 DEF PagerSame, PagerTypes, To
<1>8. PagerTypes'
  <2>1. pc' \in [Conn -> Places] /\ eState' \in [Conn -> {"OPEN", "READER"} \cup Writers]
    BY <1>2, <1>4 DEF PagerTypes, To, Places
  <2> QED
    BY <1>2, <1>4, <2>1 DEF PagerTypes, QuietBut, fileVars, boundVars
<1>9. ReservedInv(c)'
  BY <1>2, <1>4, <1>5, <1>6 DEF ReservedInv, QuietBut, fileVars
<1>10. PlaceInv(c)'
  <2>1. CASE eState[c] = "OPEN"
    BY <1>2, <1>5, <1>6, <2>1 DEF PlaceInv, OpenLocks, Lowering, Playback, Writers, LockTypeOK
  <2>2. CASE eState[c] # "OPEN"
    BY <1>2, <1>5, <1>6, <2>2 DEF PlaceInv, ReaderLocks, Lowering, Writers, LockTypeOK
  <2> QED
    BY <2>1, <2>2
<1>11. FileView(c)'
  <2>1. db = committed
    BY <1>1, <1>2 DEF FileView, Trusts
  <2> QED
    BY <1>4, <1>5, <2>1 DEF FileView, Live, QuietBut, fileVars
<1>12. CacheView(c)'
  <2>1. ~Writing(c) /\ ~Writing(c)' /\ ~Restored(c)' /\ committed' = committed
        /\ Counter(committed)' = Counter(committed) /\ txns' = txns
    BY <1>1, <1>4, <1>5 DEF Writing, Restored, Live, QuietBut, fileVars, boundVars, Counter
  <2>2. Matches(c)' = Matches(c)
    BY <1>4, <2>1 DEF Matches, Content
  <2>3. eState[c] # "OPEN" => eState[c] = "LOCKED" \/ Restored(c)
    BY <1>1, <1>2 DEF Restored, Writers, Live
  <2> QED
    BY <1>3, <1>4, <1>5, <2>1, <2>2, <2>3 DEF CacheView
<1>13. WriteView(c)'
  BY <1>5 DEF WriteView, Writing, Live
<1>14. ConnInv(c)'
  BY <1>9, <1>10, <1>11, <1>12, <1>13 DEF ConnInv
<1>15. UNCHANGED fileVars /\ txns' \in Nat /\ txns <= txns'
  BY <1>2, <1>4, ConnectionsAssumption DEF PagerTypes, QuietBut, boundVars
<1> QED
  BY <1>4, <1>7, <1>8, <1>14, <1>15, QuietKeeps

-----------------------------------------------------------------------------
(* Reading and beginning a write transaction *)

\* Page 1 of an empty database, when there is one, is not kept in a cache.  Where
\* it is, a rolled back first commit leaves a counter behind that another
\* connection's first commit has too, and the cached page is taken for current.
Recycled == ~ZeroPageCached \/ 0 \notin InitSizes

LEMMA GetKeeps ==
    ASSUME Recycled, IInv, NEW c \in Conn, NEW p \in Page, sqlite3PagerGet(c, p)
    PROVE  Kept
<1>1. at[c] = "none" /\ pc[c] = "idle" /\ eState[c] \in {"READER", "LOCKED"}
  BY DEF sqlite3PagerGet, At
<1>2. ReservedInv(c) /\ FileView(c) /\ PlaceInv(c) /\ PagerTypes /\ FilesInv
  BY <1>1, BetweenCalls
<1>3. CacheView(c) /\ WriteView(c)
  BY DEF IInv, ConnInv
<1>4. /\ QuietBut /\ UNCHANGED <<lockVars, pc, eState, heldShared, jfd, todo>>
      /\ p \notin DOMAIN cache[c] /\ (p = 2 => 1 \in DOMAIN cache[c])
      /\ cache' = [cache EXCEPT ![c] = [q \in DOMAIN @ \cup {p} |-> IF q = p THEN Content(db, p) ELSE @[q]]]
      /\ dbFileVers' = [dbFileVers EXCEPT ![c] = IF p = 1 /\ Len(db) > 0 THEN db[1] ELSE @]
  BY DEF sqlite3PagerGet
<1>5. db = committed /\ Matches(c)
  BY <1>1, <1>2, <1>3 DEF FileView, Trusts, CacheView
<1>6. Len(committed) \in {0, 2} /\ Len(committed) > 0
  BY <1>2, <1>5 DEF FilesInv, sqlite3PagerGet, Recycled, Page
<1>7. Counter(committed) = committed[1] /\ Content(committed, 1) = committed[1]
      /\ committed[1] \in 0 .. MaxTxn /\ committed[1] <= txns
  BY <1>2, <1>6, FileFacts DEF Counter, Content, FilesInv, PagerTypes
<1>8. cache[c] \in Caches /\ cache'[c] = [q \in DOMAIN cache[c] \cup {p} |->
                                           IF q = p THEN Content(committed, p) ELSE cache[c][q]]
      /\ dbFileVers'[c] = IF p = 1 THEN Counter(committed) ELSE dbFileVers[c]
  BY <1>2, <1>4, <1>5, <1>6, <1>7 DEF PagerTypes
<1>9. \A d \in Conn : d # c => PagerSame(d)
  BY <1>2, <1>4 DEF PagerSame, PagerTypes
<1>10. PagerTypes'
  <2>1. cache'[c] \in Caches
    <3>1. DOMAIN cache[c] \cup {p} \in SUBSET Page
      BY <1>8, CacheFacts
    <3>2. cache'[c] \in [DOMAIN cache[c] \cup {p} -> 0 .. MaxTxn]
      BY <1>2, <1>8, CacheFacts, ContentType DEF PagerTypes
    <3> QED
      BY <3>1, <3>2, CacheIntro
  <2>2. cache' \in [Conn -> Caches]
    BY <1>2, <1>4, <2>1 DEF PagerTypes
  <2>3. dbFileVers' \in [Conn -> 0 .. MaxTxn]
    BY <1>2, <1>4, <1>5, <1>7 DEF PagerTypes
  <2> QED
    BY <1>2, <1>4, <2>2, <2>3 DEF PagerTypes, QuietBut, fileVars, boundVars
<1>11. ReservedInv(c)' /\ PlaceInv(c)' /\ FileView(c)'
  <2>1. ReservedInv(c)'
    BY <1>2, <1>4 DEF ReservedInv, QuietBut, fileVars, lockVars
  <2>2. PlaceInv(c)'
    BY <1>2, <1>4 DEF PlaceInv, OpenLocks, ReaderLocks, WriterLocks, Climbing, Lowering, Owns, Sure, lockVars
  <2>3. FileView(c)'
    BY <1>1, <1>4, <1>5 DEF FileView, Live, QuietBut, fileVars
  <2> QED
    BY <2>1, <2>2, <2>3
<1>12. committed' = committed /\ Counter(committed)' = Counter(committed) /\ txns' = txns
       /\ ~Writing(c) /\ ~Writing(c)' /\ eState'[c] = eState[c] /\ pc'[c] = "idle" /\ heldShared'[c]
       /\ DOMAIN cache'[c] = DOMAIN cache[c] \cup {p}
  BY <1>1, <1>3, <1>4, <1>8 DEF Writing, Live, QuietBut, fileVars, boundVars, Counter, CacheView
<1>13. Matches(c)'
  BY <1>5, <1>8, <1>12 DEF Matches, Content
<1>14. 1 \in DOMAIN cache'[c] /\ dbFileVers'[c] = cache'[c][1] /\ dbFileVers'[c] = Counter(committed)
  <2>1. CASE p = 1
    BY <1>7, <1>8, <1>12, <2>1
  <2>2. CASE p = 2
    <3>1. 1 \in DOMAIN cache[c] /\ dbFileVers[c] = cache[c][1] /\ cache[c][1] = Content(committed, 1)
      BY <1>3, <1>4, <1>5, <1>12, <2>2 DEF CacheView, Matches
    <3> QED
      BY <1>7, <1>8, <1>12, <2>2, <3>1
  <2> QED
    BY <2>1, <2>2 DEF Page
<1>15. CacheView(c)'
  BY <1>1, <1>2, <1>6, <1>7, <1>12, <1>13, <1>14 DEF CacheView, PagerTypes
<1>16. WriteView(c)'
  <2>1. eState[c] = "LOCKED" => Seen(c)'
    <3>1. eState[c] = "LOCKED" => Seen(c)
      BY <1>3 DEF WriteView
    <3> QED
      BY <1>6, <1>12, <1>14, <3>1 DEF Seen
  <2> QED
    BY <1>1, <1>12, <1>14, <2>1 DEF WriteView
<1>17. ConnInv(c)'
  BY <1>11, <1>15, <1>16 DEF ConnInv
<1>18. UNCHANGED fileVars /\ txns' \in Nat /\ txns <= txns'
  BY <1>2, <1>4, ConnectionsAssumption DEF PagerTypes, QuietBut, boundVars
<1> QED
  BY <1>4, <1>9, <1>10, <1>17, <1>18, QuietKeeps DEF LockMove

LEMMA BeginKeeps ==
    ASSUME IInv, NEW c \in Conn, NEW ex \in BOOLEAN, sqlite3PagerBegin(c, ex)
    PROVE  Kept
<1> USE DEF NO_LOCK, SHARED_LOCK, RESERVED_LOCK, PENDING_LOCK, EXCLUSIVE_LOCK
<1>1. at[c] = "none" /\ pc[c] = "idle" /\ eState[c] = "READER"
  BY DEF sqlite3PagerBegin, At
<1>2. ReservedInv(c) /\ FileView(c) /\ LockTypeOK /\ PagerTypes /\ FilesInv /\ ReaderLocks(c)
  BY <1>1, BetweenCalls
<1>3. CacheView(c)
  BY DEF IInv, ConnInv
<1>4. /\ UNCHANGED <<fileVars, mode, crashes, eState, cache, dbFileVers, heldShared, jfd, todo>>
      /\ Len(db) > 0 => 1 \in DOMAIN cache[c]
      /\ To(c, IF ex THEN "beginExclusive" ELSE "begin") /\ LockMove(c)
      /\ txns < MaxTxn /\ txns' = txns + 1
  BY DEF sqlite3PagerBegin, LockMove, LockCall
<1>5. db = committed /\ Matches(c)
  BY <1>1, <1>2, <1>3 DEF FileView, Trusts, CacheView
<1>6. pc'[c] \in {"begin", "beginExclusive"} /\ eState'[c] = "READER"
  BY <1>1, <1>2, <1>4 DEF PagerTypes, To
<1>7. /\ UNCHANGED <<held, locktype>>
      /\ \/ locktype[c] >= RESERVED_LOCK /\ at'[c] = "none" /\ res'[c]
         \/ locktype[c] = SHARED_LOCK /\ at'[c] = "reserve"
  BY <1>1, <1>2 DEF sqlite3PagerBegin, winLock, Go, LockTypeOK, ReaderLocks
<1>8. \A d \in Conn : d # c => PagerSame(d)
  BY <1>2, <1>4 DEF PagerSame, PagerTypes, To
<1>9. PagerTypes'
  <2>1. pc' \in [Conn -> Places]
    BY <1>2, <1>4 DEF PagerTypes, To, Places
  <2>2. txns' \in 0 .. MaxTxn
    BY <1>2, <1>4, ConnectionsAssumption DEF PagerTypes
  <2> QED
    BY <1>2, <1>4, <2>1, <2>2 DEF PagerTypes, fileVars
<1>10. ReservedInv(c)'
  BY <1>2, <1>4, <1>5, <1>6, <1>7 DEF ReservedInv, fileVars
<1>11. PlaceInv(c)'
  BY <1>1, <1>2, <1>6, <1>7 DEF PlaceInv, ReaderLocks, Owns, Writers, Lowering
<1>12. FileView(c)'
  BY <1>4, <1>5, <1>6 DEF FileView, Live, fileVars
<1>13. committed' = committed /\ Counter(committed)' = Counter(committed)
       /\ cache'[c] = cache[c] /\ dbFileVers'[c] = dbFileVers[c] /\ heldShared'[c] = heldShared[c]
       /\ ~Writing(c) /\ ~Writing(c)' /\ ~Restored(c)'
  BY <1>1, <1>4, <1>6 DEF Writing, Restored, Live, fileVars, Counter
<1>14. txns \in Nat /\ dbFileVers[c] \in Nat /\ Counter(committed) \in Nat
  BY <1>2, CounterType, ConnectionsAssumption DEF PagerTypes
<1>15. CacheView(c)'
  <2>1. Matches(c)'
    BY <1>5, <1>13 DEF Matches, Content
  <2> QED
    BY <1>1, <1>3, <1>4, <1>6, <1>13, <1>14, <2>1 DEF CacheView
<1>16. WriteView(c)'
  <2>1. Len(committed) > 0 => 1 \in DOMAIN cache[c] /\ dbFileVers[c] = Counter(committed)
    <3> SUFFICES ASSUME Len(committed) > 0
                 PROVE  1 \in DOMAIN cache[c] /\ dbFileVers[c] = Counter(committed)
      OBVIOUS
    <3>1. 1 \in DOMAIN cache[c] /\ dbFileVers[c] = cache[c][1]
      BY <1>3, <1>4, <1>5, <1>13 DEF CacheView
    <3>2. cache[c][1] = Counter(committed)
      BY <1>2, <1>5, <3>1, FileFacts DEF Matches, Content, Counter, PagerTypes
    <3> QED
      BY <3>1, <3>2
  <2>2. Len(committed) \in {0, 2} /\ Counter(committed) <= txns /\ dbFileVers[c] <= txns
    BY <1>2, <1>3 DEF FilesInv, CacheView
  <2>3. Len(committed) = 0 => Counter(committed) = 0
    BY DEF Counter
  <2>4. Seen(c)'
    BY <1>4, <1>13, <1>14, <2>1, <2>2, <2>3 DEF Seen
  <2> QED
    BY <1>6, <1>13, <2>1, <2>4 DEF WriteView
<1>17. ConnInv(c)'
  BY <1>10, <1>11, <1>12, <1>15, <1>16 DEF ConnInv
<1>18. UNCHANGED fileVars /\ txns' \in Nat /\ txns <= txns'
  BY <1>4, <1>14
<1> QED
  BY <1>4, <1>8, <1>9, <1>17, <1>18, QuietKeeps

\* A step within a transaction that only moves c on.
LEMMA QuietWriterKeeps ==
    ASSUME IInv, NEW c \in Conn, LockMove(c), QuietBut, UNCHANGED <<cache, dbFileVers, heldShared, jfd>>,
           NEW place \in Places, To(c, place),
           NEW state \in {"READER"} \cup Writers, eState' = [eState EXCEPT ![c] = state],
           NEW pages \in SUBSET Page, todo' = [todo EXCEPT ![c] = pages],
           eState[c] # "OPEN", Writing(c)' = Writing(c),
           state \in {"READER", "LOCKED"} \/ Restored(c)' =>
               eState[c] \in {"READER", "LOCKED"} \/ Restored(c),
           ReservedInv(c)', PlaceInv(c)', FileView(c)', WriteView(c)'
    PROVE  Kept
<1>1. PagerTypes /\ CacheView(c)
  BY DEF IInv, ConnInv
<1>2. PagerTypes'
  <2>1. pc' \in [Conn -> Places] /\ eState' \in [Conn -> {"OPEN", "READER"} \cup Writers]
        /\ todo' \in [Conn -> SUBSET Page]
    BY <1>1 DEF PagerTypes, To
  <2> QED
    BY <1>1, <2>1 DEF PagerTypes, QuietBut, fileVars, boundVars
<1>3. \A d \in Conn : d # c => PagerSame(d)
  BY <1>1 DEF PagerSame, PagerTypes, To
<1>4. CacheView(c)'
  <2>1. Matches(c)' = Matches(c) /\ Counter(committed)' = Counter(committed) /\ eState'[c] = state
    BY <1>1 DEF Matches, Content, Counter, QuietBut, fileVars, PagerTypes
  <2> QED
    BY <1>1, <2>1 DEF CacheView, QuietBut, fileVars, boundVars
<1>5. ConnInv(c)'
  BY <1>4 DEF ConnInv
<1>6. UNCHANGED fileVars /\ txns' \in Nat /\ txns <= txns'
  BY <1>1, ConnectionsAssumption DEF PagerTypes, QuietBut, boundVars
<1> QED
  BY <1>2, <1>3, <1>5, <1>6, QuietKeeps

LEMMA BeginReservedKeeps ==
    ASSUME IInv, NEW c \in Conn, BeginReserved(c)
    PROVE  Kept
<1> USE DEF NO_LOCK, SHARED_LOCK, RESERVED_LOCK, PENDING_LOCK, EXCLUSIVE_LOCK
<1>1. at[c] = "none" /\ pc[c] \in {"begin", "beginExclusive"}
  BY DEF BeginReserved, At
<1>2. eState[c] = "READER" /\ ReaderLocks(c)
  <2>1. eState[c] # "OPEN" /\ eState[c] \in {"OPEN", "READER"} \cup Writers
    BY <1>1, BetweenCalls DEF OpenPlaces, Playback, PagerTypes
  <2>2. eState[c] \notin Writers
    BY <1>1, BetweenCalls DEF WriterLocks, Writers, Playback
  <2> QED
    BY <1>1, <2>1, <2>2, BetweenCalls
<1>3. ReservedInv(c) /\ FileView(c) /\ LockTypeOK /\ PagerTypes
  BY <1>1, BetweenCalls
<1>4. WriteView(c)
  BY DEF IInv, ConnInv
<1>5. QuietBut /\ UNCHANGED <<cache, dbFileVers, heldShared, jfd>> /\ todo' = todo /\ LockMove(c)
  BY DEF BeginReserved, LockMove, LockCall
<1>6. PICK place \in Places, state \in {"READER", "LOCKED"} :
        /\ To(c, place) /\ eState' = [eState EXCEPT ![c] = state]
        /\ UNCHANGED <<held, locktype>>
        /\ \/ place = "idle" /\ state = "LOCKED" /\ at'[c] = "none" /\ Owns(c)
           \/ place = pc[c] /\ state = "READER" /\ Owns(c) /\ pc[c] = "beginExclusive"
              /\ at'[c] \in {"pending", "unread"} /\ want'[c] = EXCLUSIVE_LOCK
           \/ place = "idle" /\ state = "READER" /\ at'[c] = "none"
  <2>1. CASE /\ res[c] /\ (pc[c] = "beginExclusive" => locktype[c] = EXCLUSIVE_LOCK)
             /\ eState' = [eState EXCEPT ![c] = "LOCKED"]
             /\ To(c, "idle") /\ UNCHANGED lockVars
    BY <1>1, <1>2, <2>1 DEF ReaderLocks, lockVars, Places
  <2>2. CASE /\ pc[c] = "beginExclusive" /\ locktype[c] \in {RESERVED_LOCK, PENDING_LOCK}
             /\ winLock(c, EXCLUSIVE_LOCK) /\ UNCHANGED <<pc, eState>>
    <3>1. Owns(c)
      BY <1>1, <1>2, <2>2 DEF ReaderLocks, Climbing, Lowering
    <3>2. at'[c] \in {"pending", "unread"} /\ want'[c] = EXCLUSIVE_LOCK /\ UNCHANGED <<held, locktype>>
      BY <1>3, <2>2 DEF winLock, Go, LockTypeOK
    <3>3. To(c, pc[c]) /\ eState' = [eState EXCEPT ![c] = "READER"] /\ pc[c] \in Places
      BY <1>2, <1>3, <2>2 DEF To, PagerTypes
    <3> QED
      BY <2>2, <3>1, <3>2, <3>3
  <2>3. CASE ~res[c] /\ To(c, "idle") /\ UNCHANGED <<eState, lockVars>>
    <3>1. eState' = [eState EXCEPT ![c] = "READER"] /\ UNCHANGED lockVars /\ "idle" \in Places
      BY <1>2, <1>3, <2>3 DEF PagerTypes, Places
    <3> QED
      BY <1>1, <2>3, <3>1 DEF lockVars
  <2> QED
    BY <2>1, <2>2, <2>3 DEF BeginReserved
<1>7. pc'[c] = place /\ eState'[c] = state
  BY <1>3, <1>6 DEF PagerTypes, To
<1>8. ReservedInv(c)'
  BY <1>3, <1>5, <1>6, <1>7 DEF ReservedInv, QuietBut, fileVars
<1>9. PlaceInv(c)'
  <2>1. CASE state = "LOCKED"
    BY <1>6, <1>7, <2>1 DEF PlaceInv, WriterLocks, Owns
  <2>2. CASE state = "READER"
    BY <1>1, <1>2, <1>6, <1>7, <2>2 DEF PlaceInv, ReaderLocks, Climbing, Lowering, Owns, Writers
  <2> QED
    BY <2>1, <2>2
<1>10. FileView(c)'
  BY <1>1, <1>2, <1>3, <1>5, <1>6, <1>7 DEF FileView, Trusts, Live, QuietBut, fileVars
<1>11. Writing(c)' = Writing(c) /\ ~Writing(c)
  BY <1>2, <1>7, <1>6 DEF Writing, Live
<1>12. WriteView(c)'
  <2>1. Seen(c) /\ Seen(c)' /\ (Len(committed) > 0 => 1 \in DOMAIN cache[c])
    BY <1>1, <1>4, <1>5 DEF WriteView, Seen, Counter, QuietBut, fileVars, boundVars
  <2> QED
    BY <1>1, <1>5, <1>6, <1>7, <1>11, <2>1 DEF WriteView, QuietBut, fileVars
<1>13. todo' = [todo EXCEPT ![c] = todo[c]] /\ todo[c] \in SUBSET Page /\ state \in {"READER"} \cup Writers
  BY <1>3, <1>5, <1>6 DEF PagerTypes, Writers
<1> QED
  BY <1>2, <1>5, <1>6, <1>8, <1>9, <1>10, <1>11, <1>12, <1>13, QuietWriterKeeps

-----------------------------------------------------------------------------
(* The journal is synced, the pages are written, the transaction ends *)

\* Where the write transaction is, between two VFS calls.
LEMMA WriterFacts ==
    ASSUME IInv, NEW c \in Conn, at[c] = "none", eState[c] \in Writers
    PROVE  /\ ReservedInv(c) /\ FileView(c) /\ LockTypeOK /\ PagerTypes /\ FilesInv
           /\ CacheView(c) /\ WriteView(c) /\ WriterLocks(c)
           /\ locktype[c] \in {RESERVED_LOCK, PENDING_LOCK, EXCLUSIVE_LOCK}
           /\ held["RESERVED"][c] = "exclusive" /\ heldShared[c]
<1>1. ReservedInv(c) /\ FileView(c) /\ LockTypeOK /\ PagerTypes /\ FilesInv /\ WriterLocks(c)
  BY BetweenCalls
<1>2. CacheView(c) /\ WriteView(c)
  BY DEF IInv, ConnInv
<1>3. heldShared[c]
  BY <1>2 DEF CacheView, Writers
<1>4. locktype[c] \in {RESERVED_LOCK, PENDING_LOCK, EXCLUSIVE_LOCK}
  BY <1>1 DEF LockTypeOK, WriterLocks, Owns, NO_LOCK, RESERVED_LOCK, PENDING_LOCK, EXCLUSIVE_LOCK
<1> QED
  BY <1>1, <1>2, <1>3, <1>4 DEF WriterLocks, Owns

LEMMA StressKeeps ==
    ASSUME IInv, NEW c \in Conn, pagerStress(c)
    PROVE  Kept
<1> USE DEF NO_LOCK, SHARED_LOCK, RESERVED_LOCK, PENDING_LOCK, EXCLUSIVE_LOCK
<1>1. at[c] = "none" /\ pc[c] = "idle" /\ eState[c] \in {"CACHEMOD", "DBMOD"} /\ To(c, "spillLock")
  BY DEF pagerStress, At
<1>2. /\ ReservedInv(c) /\ FileView(c) /\ LockTypeOK /\ PagerTypes /\ WriterLocks(c) /\ WriteView(c)
      /\ locktype[c] \in {RESERVED_LOCK, PENDING_LOCK, EXCLUSIVE_LOCK} /\ held["RESERVED"][c] = "exclusive"
  BY <1>1, WriterFacts DEF Writers
<1>3. QuietBut /\ UNCHANGED <<cache, dbFileVers, heldShared, jfd>> /\ eState' = eState /\ todo' = todo
      /\ LockMove(c)
  BY DEF pagerStress, LockMove, LockCall
<1>4. pc'[c] = "spillLock"
  BY <1>1, <1>2 DEF PagerTypes, To
<1>5. /\ UNCHANGED <<held, locktype>>
      /\ \/ locktype[c] = EXCLUSIVE_LOCK /\ res'[c] /\ at'[c] = "none"
         \/ locktype[c] # EXCLUSIVE_LOCK /\ at'[c] \in {"pending", "unread"} /\ want'[c] = EXCLUSIVE_LOCK
  BY <1>1, <1>2 DEF pagerStress, winLock, Go, LockTypeOK
<1>6. ReservedInv(c)'
  BY <1>2, <1>3, <1>4, <1>5 DEF ReservedInv, QuietBut, fileVars
<1>7. PlaceInv(c)'
  BY <1>1, <1>2, <1>3, <1>4, <1>5 DEF PlaceInv, WriterLocks, Owns, Sure, Climbing
<1>8. FileView(c)'
  BY <1>1, <1>2, <1>3, <1>4 DEF FileView, Trusts, Live, QuietBut, fileVars
<1>9. Writing(c)' = Writing(c) /\ ~Restored(c)'
  BY <1>1, <1>3, <1>4 DEF Writing, Restored, Live
<1>10. WriteView(c)'
  <2>1. Seen(c) /\ Seen(c)'
    BY <1>1, <1>2, <1>3 DEF WriteView, Seen, Counter, QuietBut, fileVars, boundVars
  <2> QED
    BY <1>1, <1>2, <1>3, <1>4, <1>9, <2>1 DEF WriteView
<1>11. /\ eState' = [eState EXCEPT ![c] = eState[c]] /\ todo' = [todo EXCEPT ![c] = todo[c]]
       /\ eState[c] \in {"READER"} \cup Writers /\ todo[c] \in SUBSET Page /\ "spillLock" \in Places
  BY <1>1, <1>2, <1>3 DEF PagerTypes, Writers, Places
<1> QED
  BY <1>1, <1>3, <1>6, <1>7, <1>8, <1>9, <1>10, <1>11, QuietWriterKeeps

LEMMA CommitPhaseOneKeeps ==
    ASSUME IInv, NEW c \in Conn, sqlite3PagerCommitPhaseOne(c)
    PROVE  Kept
<1> USE DEF NO_LOCK, SHARED_LOCK, RESERVED_LOCK, PENDING_LOCK, EXCLUSIVE_LOCK
<1>1. at[c] = "none" /\ pc[c] = "idle" /\ eState[c] \in {"CACHEMOD", "DBMOD"} /\ To(c, "commitLock")
  BY DEF sqlite3PagerCommitPhaseOne, At
<1>2. /\ ReservedInv(c) /\ FileView(c) /\ LockTypeOK /\ PagerTypes /\ WriterLocks(c)
      /\ CacheView(c) /\ WriteView(c) /\ heldShared[c]
      /\ locktype[c] \in {RESERVED_LOCK, PENDING_LOCK, EXCLUSIVE_LOCK} /\ held["RESERVED"][c] = "exclusive"
  BY <1>1, WriterFacts DEF Writers
<1>3. /\ QuietBut /\ UNCHANGED <<eState, dbFileVers, heldShared, jfd, todo>>
      /\ LockMove(c) /\ cache' = [cache EXCEPT ![c][1] = dbFileVers[c] + 1]
  BY DEF sqlite3PagerCommitPhaseOne, LockMove, LockCall
<1>4. pc'[c] = "commitLock" /\ Writing(c) /\ Writing(c)' /\ ~Restored(c)'
  BY <1>1, <1>2, <1>3 DEF PagerTypes, To, Writing, Restored, Live
<1>5. /\ UNCHANGED <<held, locktype>>
      /\ \/ locktype[c] = EXCLUSIVE_LOCK /\ res'[c] /\ at'[c] = "none"
         \/ locktype[c] # EXCLUSIVE_LOCK /\ at'[c] \in {"pending", "unread"} /\ want'[c] = EXCLUSIVE_LOCK
  BY <1>1, <1>2 DEF sqlite3PagerCommitPhaseOne, winLock, Go, LockTypeOK
<1>6. Seen(c) /\ DOMAIN cache[c] = Page
  BY <1>1, <1>2, <1>4 DEF WriteView
<1>7. /\ dbFileVers[c] \in Nat /\ txns \in Nat /\ txns <= MaxTxn /\ dbFileVers[c] + 1 \in 0 .. MaxTxn
  BY <1>2, <1>6, ConnectionsAssumption DEF Seen, PagerTypes
<1>8. cache[c] \in Caches /\ cache'[c] = [cache[c] EXCEPT ![1] = dbFileVers[c] + 1]
  BY <1>2, <1>3 DEF PagerTypes
<1>9. DOMAIN cache'[c] = Page /\ cache'[c][1] = dbFileVers[c] + 1 /\ cache'[c] \in Caches
  <2>1. cache[c] \in [Page -> 0 .. MaxTxn]
    BY <1>6, <1>8 DEF Caches
  <2>2. cache'[c] \in [Page -> 0 .. MaxTxn]
    BY <1>7, <1>8, <2>1
  <2> QED
    BY <1>8, <2>1, <2>2, CacheIntro DEF Page
<1>10. \A d \in Conn : d # c => PagerSame(d)
  BY <1>1, <1>2, <1>3 DEF PagerSame, PagerTypes, To
<1>11. PagerTypes'
  <2>1. cache' \in [Conn -> Caches]
    BY <1>2, <1>3, <1>8, <1>9 DEF PagerTypes
  <2>2. pc' \in [Conn -> Places]
    BY <1>1, <1>2 DEF PagerTypes, To, Places
  <2> QED
    BY <1>2, <1>3, <2>1, <2>2 DEF PagerTypes, QuietBut, fileVars, boundVars
<1>12. ReservedInv(c)'
  BY <1>2, <1>3, <1>4, <1>5 DEF ReservedInv, QuietBut, fileVars
<1>13. PlaceInv(c)'
  BY <1>1, <1>2, <1>3, <1>4, <1>5 DEF PlaceInv, WriterLocks, Owns, Sure, Climbing
<1>14. FileView(c)'
  BY <1>1, <1>2, <1>3, <1>4 DEF FileView, Trusts, Live, QuietBut, fileVars
<1>15. CacheView(c)'
  BY <1>1, <1>2, <1>3, <1>4 DEF CacheView, QuietBut, fileVars, boundVars
<1>16. WriteView(c)'
  <2>1. Seen(c)'
    BY <1>3, <1>6 DEF Seen, Counter, QuietBut, fileVars, boundVars
  <2> QED
    BY <1>1, <1>3, <1>4, <1>9, <2>1 DEF WriteView
<1>17. ConnInv(c)'
  BY <1>12, <1>13, <1>14, <1>15, <1>16 DEF ConnInv
<1>18. UNCHANGED fileVars /\ txns' \in Nat /\ txns <= txns'
  BY <1>3, <1>7 DEF QuietBut, boundVars
<1> QED
  BY <1>3, <1>10, <1>11, <1>17, <1>18, QuietKeeps

LEMMA ExclusiveGrantedKeeps ==
    ASSUME IInv, NEW c \in Conn, ExclusiveGranted(c)
    PROVE  Kept
<1> USE DEF NO_LOCK, SHARED_LOCK, RESERVED_LOCK, PENDING_LOCK, EXCLUSIVE_LOCK
<1>1. at[c] = "none" /\ pc[c] \in {"spillLock", "commitLock"}
  BY DEF ExclusiveGranted, At
<1>2. eState[c] \in {"CACHEMOD", "DBMOD"}
  <2>1. eState[c] # "OPEN" /\ eState[c] \in {"OPEN", "READER"} \cup Writers
    BY <1>1, BetweenCalls DEF OpenPlaces, Playback, PagerTypes
  <2>2. eState[c] # "READER"
    BY <1>1, BetweenCalls DEF ReaderLocks
  <2>3. eState[c] \notin {"LOCKED", "FINISHED"}
    BY <1>1, BetweenCalls DEF WriterLocks, Writers, Playback
  <2> QED
    BY <2>1, <2>2, <2>3 DEF Writers
<1>3. /\ ReservedInv(c) /\ FileView(c) /\ LockTypeOK /\ PagerTypes /\ WriterLocks(c) /\ WriteView(c)
      /\ locktype[c] \in {RESERVED_LOCK, PENDING_LOCK, EXCLUSIVE_LOCK} /\ held["RESERVED"][c] = "exclusive"
  BY <1>1, <1>2, WriterFacts DEF Writers
<1>4. QuietBut /\ UNCHANGED <<cache, dbFileVers, heldShared, jfd>> /\ LockMove(c)
  BY DEF ExclusiveGranted, LockMove, LockCall
<1>5. res[c] => locktype[c] = EXCLUSIVE_LOCK
  BY <1>1, <1>2, <1>3 DEF WriterLocks, Climbing, Sure, Playback
<1>6. eState[c] = "DBMOD" => res[c]
  BY <1>1, <1>3 DEF WriterLocks
<1>7. PICK place \in Places, state \in Writers, pages \in SUBSET Page :
        /\ To(c, place) /\ eState' = [eState EXCEPT ![c] = state] /\ todo' = [todo EXCEPT ![c] = pages]
        /\ UNCHANGED <<held, locktype>>
        /\ \/ /\ place = IF pc[c] = "spillLock" THEN "spillWrite" ELSE "commitWrite"
              /\ pages = IF pc[c] = "spillLock" THEN {2} ELSE Page
              /\ state = "DBMOD" /\ at'[c] = "none" /\ locktype[c] = EXCLUSIVE_LOCK
           \/ /\ place = pc[c] /\ state = "CACHEMOD" /\ pages = todo[c]
              /\ \/ at'[c] \in {"pending", "unread"} /\ want'[c] = EXCLUSIVE_LOCK
                 \/ at'[c] = "none" /\ res'[c] /\ locktype[c] = EXCLUSIVE_LOCK
           \/ place = "idle" /\ state = "CACHEMOD" /\ pages = todo[c] /\ at'[c] = "none"
  <2>1. CASE res[c]
    <3>1. "spillWrite" \in Places /\ "commitWrite" \in Places /\ "DBMOD" \in Writers
          /\ {2} \in SUBSET Page /\ Page \in SUBSET Page
      BY DEF Places, Writers, Page
    <3> QED
      BY <1>1, <1>5, <2>1, <3>1 DEF ExclusiveGranted, lockVars
  <2>2. CASE ~res[c] /\ winLock(c, EXCLUSIVE_LOCK) /\ UNCHANGED <<pc, todo, eState>>
    <3>1. eState[c] = "CACHEMOD" /\ "CACHEMOD" \in Writers
      BY <1>2, <1>6, <2>2 DEF Writers
    <3>2. To(c, pc[c]) /\ eState' = [eState EXCEPT ![c] = "CACHEMOD"] /\ todo' = [todo EXCEPT ![c] = todo[c]]
          /\ pc[c] \in Places /\ todo[c] \in SUBSET Page
      BY <1>3, <2>2, <3>1 DEF To, PagerTypes
    <3>3. /\ UNCHANGED <<held, locktype>>
          /\ \/ at'[c] \in {"pending", "unread"} /\ want'[c] = EXCLUSIVE_LOCK
             \/ at'[c] = "none" /\ res'[c] /\ locktype[c] = EXCLUSIVE_LOCK
      BY <1>1, <1>3, <2>2 DEF winLock, Go, LockTypeOK
    <3> QED
      BY <3>1, <3>2, <3>3
  <2>3. CASE ~res[c] /\ To(c, "idle") /\ UNCHANGED lockVars /\ UNCHANGED <<todo, eState>>
    <3>1. eState[c] = "CACHEMOD" /\ "CACHEMOD" \in Writers /\ "idle" \in Places
      BY <1>2, <1>6, <2>3 DEF Writers, Places
    <3>2. eState' = [eState EXCEPT ![c] = "CACHEMOD"] /\ todo' = [todo EXCEPT ![c] = todo[c]]
          /\ todo[c] \in SUBSET Page
      BY <1>3, <2>3, <3>1 DEF PagerTypes
    <3> QED
      BY <1>1, <2>3, <3>1, <3>2 DEF lockVars
  <2> QED
    BY <2>1, <2>2, <2>3 DEF ExclusiveGranted
<1>8. pc'[c] = place /\ eState'[c] = state /\ todo'[c] = pages
  BY <1>3, <1>7 DEF PagerTypes, To
<1>9. ReservedInv(c)'
  BY <1>3, <1>4, <1>7, <1>8 DEF ReservedInv, QuietBut, fileVars
<1>10. PlaceInv(c)'
  BY <1>1, <1>3, <1>7, <1>8 DEF PlaceInv, WriterLocks, Owns, Sure, Climbing
<1>11. FileView(c)'
  <2>1. state = "CACHEMOD" => eState[c] = "CACHEMOD"
    BY <1>1, <1>3, <1>2, <1>6, <1>7 DEF PagerTypes, ExclusiveGranted
  <2>2. journal.valid /\ jfd[c] /\ (eState[c] = "CACHEMOD" => db = committed)
    BY <1>1, <1>2, <1>3 DEF FileView, Trusts, Live
  <2> QED
    BY <1>1, <1>4, <1>7, <1>8, <2>1, <2>2 DEF FileView, Trusts, Live, QuietBut, fileVars
<1>12. Writing(c)' = Writing(c) /\ Writing(c) /\ ~Restored(c)' /\ state \in {"CACHEMOD", "DBMOD"}
  BY <1>1, <1>2, <1>7, <1>8 DEF Writing, Restored, Live
<1>13. WriteView(c)'
  <2>1. Seen(c) /\ Seen(c)' /\ DOMAIN cache[c] = Page
        /\ (pc[c] = "commitLock" => cache[c][1] = dbFileVers[c] + 1)
    BY <1>1, <1>2, <1>3, <1>4, <1>12 DEF WriteView, Seen, Counter, QuietBut, fileVars, boundVars
  <2>2. Page # {2}
    BY DEF Page
  <2> QED
    BY <1>1, <1>4, <1>7, <1>8, <1>12, <2>1, <2>2 DEF WriteView
<1> QED
  BY <1>2, <1>4, <1>7, <1>9, <1>10, <1>11, <1>12, <1>13, QuietWriterKeeps

LEMMA CommitPhaseTwoKeeps ==
    ASSUME IInv, NEW c \in Conn, sqlite3PagerCommitPhaseTwo(c) \/ sqlite3PagerRollback(c)
    PROVE  Kept
<1> DEFINE place == IF eState[c] = "LOCKED" THEN "finalize"
                    ELSE IF sqlite3PagerRollback(c) THEN "header" ELSE "phaseTwo"
<1>1. at[c] = "none" /\ pc[c] = "idle" /\ eState[c] \in Writers
      /\ (eState[c] # "LOCKED" /\ ~sqlite3PagerRollback(c) => eState[c] = "FINISHED")
  BY DEF sqlite3PagerCommitPhaseTwo, sqlite3PagerRollback, At, Writers
<1>2. /\ ReservedInv(c) /\ FileView(c) /\ PagerTypes /\ WriterLocks(c) /\ WriteView(c)
  BY <1>1, WriterFacts
<1>3. QuietBut /\ UNCHANGED <<lockVars, eState, cache, dbFileVers, heldShared, jfd, todo>>
  BY DEF sqlite3PagerCommitPhaseTwo, sqlite3PagerRollback
<1>4. To(c, place)
  <2>1. CASE sqlite3PagerRollback(c)
    BY <2>1 DEF sqlite3PagerRollback
  <2>2. CASE ~sqlite3PagerRollback(c)
    BY <1>1, <2>2 DEF sqlite3PagerCommitPhaseTwo
  <2> QED
    BY <2>1, <2>2
<1>5. /\ pc'[c] = place /\ place \in {"finalize", "header", "phaseTwo"} /\ place \in Places
      /\ (eState[c] = "LOCKED" <=> place = "finalize") /\ (place = "phaseTwo" => eState[c] = "FINISHED")
  BY <1>1, <1>2, <1>4 DEF PagerTypes, To, Places
<1> HIDE DEF place
<1>6. ReservedInv(c)'
  BY <1>1, <1>2, <1>3, <1>5 DEF ReservedInv, QuietBut, fileVars, lockVars
<1>7. PlaceInv(c)'
  BY <1>1, <1>2, <1>3, <1>5 DEF PlaceInv, WriterLocks, Owns, Sure, Playback, lockVars, Writers
<1>8. FileView(c)'
  BY <1>1, <1>2, <1>3, <1>5 DEF FileView, Trusts, Live, QuietBut, fileVars, Writers
<1>9. Writing(c)' = Writing(c) /\ (~Restored(c)' \/ eState[c] = "LOCKED")
  BY <1>1, <1>3, <1>5 DEF Writing, Restored, Live
<1>10. WriteView(c)'
  <2>1. Seen(c)' = Seen(c)
    BY <1>3 DEF Seen, Counter, QuietBut, fileVars, boundVars
  <2> QED
    BY <1>1, <1>2, <1>3, <1>5, <1>9, <2>1 DEF WriteView, QuietBut, fileVars, Counter
<1>11. /\ eState' = [eState EXCEPT ![c] = eState[c]] /\ todo' = [todo EXCEPT ![c] = todo[c]]
       /\ eState[c] \in {"READER"} \cup Writers /\ todo[c] \in SUBSET Page
  BY <1>1, <1>2, <1>3 DEF PagerTypes
<1>12. LockMove(c) /\ eState[c] # "OPEN"
  BY <1>1, <1>3 DEF LockMove, Writers
<1> QED
  BY <1>3, <1>4, <1>5, <1>6, <1>7, <1>8, <1>9, <1>10, <1>11, <1>12, QuietWriterKeeps

-----------------------------------------------------------------------------
(* Steps that change the files *)

\* With EXCLUSIVE c may do with the files what it likes, as far as others go.
LEMMA SureKeeps ==
    ASSUME IInv, NEW c \in Conn, locktype[c] = EXCLUSIVE_LOCK, LockMove(c),
           \A d \in Conn : d # c => PagerSame(d), txns' = txns,
           \/ committed' = committed
           \/ committed' \in Files /\ Len(committed') > 0 /\ Counter(committed)' > Counter(committed),
           PagerTypes', FilesInv', ConnInv(c)'
    PROVE  Kept
<1>1. ASSUME NEW d \in Conn, d # c PROVE ConnInv(d)'
  <2>1. PrivateSame(d) /\ locktype[d] = NO_LOCK
    BY <1>1, OthersLocks, SureAlone DEF PrivateSame, IInv, LockInv
  <2> QED
    BY <2>1, OthersAway
<1> QED
  BY <1>1 DEF Kept

\* With the RESERVED byte c may do so with the journal.
LEMMA OwnerKeeps ==
    ASSUME IInv, NEW c \in Conn, Owns(c), LockMove(c),
           \A d \in Conn : d # c => PagerSame(d), db' = db, committed' = committed, txns' = txns,
           PagerTypes', FilesInv', ConnInv(c)'
    PROVE  Kept
<1> USE DEF SHARED_LOCK, RESERVED_LOCK
<1>1. ASSUME NEW d \in Conn, d # c PROVE ConnInv(d)'
  <2>1. PrivateSame(d)
    BY <1>1, OthersLocks DEF PrivateSame, IInv, LockInv
  <2>2. locktype[c] >= SHARED_LOCK
    BY DEF Owns, IInv, LockInv, LockTypeOK
  <2>3. JournalLeft(d)
    BY <1>1, <2>2, OwnerAlone, NobodySure DEF JournalLeft
  <2>4. txns \in Nat
    BY ConnectionsAssumption DEF IInv, PagerTypes
  <2> QED
    BY <2>1, <2>3, <2>4, OthersStay
<1> QED
  BY <1>1 DEF Kept

LEMMA CrashKeeps ==
    ASSUME IInv, NEW c \in Conn, Crash(c)
    PROVE  Kept
<1>1. /\ UNCHANGED <<fileVars, mode, txns>> /\ LockMove(c) /\ To(c, "idle")
      /\ crashes < MaxCrash /\ crashes' = crashes + 1
      /\ eState' = [eState EXCEPT ![c] = "OPEN"] /\ cache' = [cache EXCEPT ![c] = NoPages]
      /\ dbFileVers' = [dbFileVers EXCEPT ![c] = 0] /\ heldShared' = [heldShared EXCEPT ![c] = FALSE]
      /\ jfd' = [jfd EXCEPT ![c] = FALSE] /\ todo' = [todo EXCEPT ![c] = {}]
  BY DEF Crash, LockMove
<1>2. PagerTypes /\ LockTypeOK
  BY DEF IInv, LockInv
<1>3. NoPages \in Caches /\ DOMAIN NoPages = {}
  <2>1. NoPages \in [{} -> 0 .. MaxTxn]
    BY DEF NoPages
  <2> QED
    BY <2>1, CacheIntro
<1>4. /\ pc'[c] = "idle" /\ eState'[c] = "OPEN" /\ cache'[c] = NoPages /\ dbFileVers'[c] = 0
      /\ held'["RESERVED"][c] = "free" /\ locktype'[c] = NO_LOCK /\ at'[c] = "none"
  BY <1>1, <1>2 DEF PagerTypes, LockTypeOK, To, Crash, DropLocks, Go, Ranges
<1>5. PagerTypes'
  <2>1. /\ pc' \in [Conn -> Places] /\ eState' \in [Conn -> {"OPEN", "READER"} \cup Writers]
        /\ heldShared' \in [Conn -> BOOLEAN] /\ jfd' \in [Conn -> BOOLEAN] /\ todo' \in [Conn -> SUBSET Page]
    BY <1>1, <1>2 DEF PagerTypes, To, Places
  <2>2. cache' \in [Conn -> Caches] /\ dbFileVers' \in [Conn -> 0 .. MaxTxn]
    BY <1>1, <1>2, <1>3, ConnectionsAssumption DEF PagerTypes
  <2>3. crashes' \in 0 .. MaxCrash
    BY <1>1, <1>2, ConnectionsAssumption DEF PagerTypes
  <2> QED
    BY <1>1, <1>2, <2>1, <2>2, <2>3 DEF PagerTypes, fileVars
<1>6. \A d \in Conn : d # c => PagerSame(d)
  BY <1>1, <1>2 DEF PagerSame, PagerTypes, To
<1>7. txns \in Nat /\ txns' = txns
  BY <1>1, <1>2, ConnectionsAssumption DEF PagerTypes
<1>8. ConnInv(c)'
  <2>1. ReservedInv(c)' /\ PlaceInv(c)' /\ FileView(c)'
    BY <1>4 DEF ReservedInv, PlaceInv, OpenLocks, Playback, Writers, FileView, Trusts, Live
  <2>2. CacheView(c)' /\ WriteView(c)'
    BY <1>3, <1>4, <1>7 DEF CacheView, WriteView, Writing, Restored, Live
  <2> QED
    BY <2>1, <2>2 DEF ConnInv
<1> QED
  BY <1>1, <1>5, <1>6, <1>7, <1>8, QuietKeeps

LEMMA OpenJournalKeeps ==
    ASSUME IInv, NEW c \in Conn, pager_open_journal(c)
    PROVE  Kept
<1>1. at[c] = "none" /\ pc[c] = "idle" /\ eState[c] = "LOCKED" /\ To(c, "journal")
  BY DEF pager_open_journal, At
<1>2. /\ ReservedInv(c) /\ FileView(c) /\ PagerTypes /\ FilesInv /\ WriterLocks(c)
      /\ CacheView(c) /\ WriteView(c)
  BY <1>1, WriterFacts DEF Writers
<1>3. /\ UNCHANGED <<lockVars, db, committed, boundVars, eState, cache, dbFileVers, heldShared, todo>>
      /\ journal' = (IF journal.file THEN journal ELSE Zeroed) /\ jfd' = [jfd EXCEPT ![c] = TRUE]
      /\ DOMAIN db \subseteq DOMAIN cache[c]
  BY DEF pager_open_journal
<1>4. pc'[c] = "journal" /\ jfd'[c]
  BY <1>1, <1>2, <1>3 DEF PagerTypes, To
<1>5. PagerTypes'
  <2>1. Zeroed \in [file : BOOLEAN, valid : BOOLEAN, orig : Files]
    BY NoFile DEF Zeroed
  <2>2. journal' \in [file : BOOLEAN, valid : BOOLEAN, orig : Files]
    BY <1>2, <1>3, <2>1 DEF PagerTypes
  <2>3. pc' \in [Conn -> Places] /\ jfd' \in [Conn -> BOOLEAN]
    BY <1>1, <1>2, <1>3 DEF PagerTypes, To, Places
  <2> QED
    BY <1>2, <1>3, <2>2, <2>3 DEF PagerTypes, boundVars
<1>6. FilesInv'
  <2>1. Counter(committed)' = Counter(committed)
    BY <1>3 DEF Counter
  <2>2. CASE journal' = journal
    BY <1>2, <1>3, <2>1, <2>2 DEF FilesInv, FilesHoldCommitted, boundVars
  <2>3. CASE ~journal.file /\ journal' = Zeroed
    BY <1>2, <1>3, <2>1, <2>3 DEF FilesInv, FilesHoldCommitted, Zeroed, boundVars
  <2> QED
    BY <1>3, <2>2, <2>3
<1>7. \A d \in Conn : d # c => PagerSame(d)
  BY <1>1, <1>2, <1>3 DEF PagerSame, PagerTypes, To
<1>8. ConnInv(c)'
  <2>1. ReservedInv(c)'
    BY <1>1, <1>2, <1>3, <1>4 DEF ReservedInv, lockVars
  <2>2. PlaceInv(c)'
    BY <1>1, <1>2, <1>3, <1>4 DEF PlaceInv, WriterLocks, Owns, lockVars
  <2>3. FileView(c)'
    BY <1>1, <1>2, <1>3, <1>4 DEF FileView, Trusts, Live
  <2>4. ~Writing(c) /\ ~Writing(c)' /\ ~Restored(c)' /\ Counter(committed)' = Counter(committed)
        /\ Matches(c)' = Matches(c)
    BY <1>1, <1>3 DEF Writing, Restored, Live, Counter, Matches, Content
  <2>5. CacheView(c)'
    BY <1>1, <1>2, <1>3, <2>4 DEF CacheView, boundVars
  <2>6. WriteView(c)'
    BY <1>1, <1>2, <1>3, <1>4, <2>4 DEF WriteView, Seen, boundVars
  <2> QED
    BY <2>1, <2>2, <2>3, <2>5, <2>6 DEF ConnInv
<1>9. Owns(c) /\ LockMove(c) /\ txns' = txns
  BY <1>2, <1>3 DEF WriterLocks, LockMove, boundVars
<1> QED
  BY <1>3, <1>5, <1>6, <1>7, <1>8, <1>9, OwnerKeeps

\* The originals in the journal are the committed pages: the cache is.
LEMMA WriteKeeps ==
    ASSUME IInv, NEW c \in Conn, pager_write(c)
    PROVE  Kept
<1> DEFINE orig == [p \in DOMAIN db |-> cache[c][p]]
           new  == [p \in Page |-> IF p = 2 THEN txns ELSE Counter(orig)]
<1>1. at[c] = "none" /\ pc[c] = "journal" /\ To(c, "idle")
  BY DEF pager_write, At
<1>2. eState[c] = "LOCKED"
  <2>1. eState[c] # "OPEN" /\ eState[c] \in {"OPEN", "READER"} \cup Writers
    BY <1>1, BetweenCalls DEF OpenPlaces, Playback, PagerTypes
  <2>2. eState[c] # "READER"
    BY <1>1, BetweenCalls DEF ReaderLocks
  <2>3. eState[c] \notin {"CACHEMOD", "DBMOD", "FINISHED"}
    BY <1>1, BetweenCalls DEF WriterLocks, Writers, Playback
  <2> QED
    BY <2>1, <2>2, <2>3 DEF Writers
<1>3. /\ ReservedInv(c) /\ FileView(c) /\ PagerTypes /\ FilesInv /\ WriterLocks(c)
      /\ CacheView(c) /\ WriteView(c) /\ heldShared[c]
  BY <1>1, <1>2, WriterFacts DEF Writers
<1>4. /\ UNCHANGED <<lockVars, db, committed, boundVars, dbFileVers, heldShared, jfd, todo>>
      /\ journal' = [file |-> TRUE, valid |-> TRUE, orig |-> orig]
      /\ eState' = [eState EXCEPT ![c] = "CACHEMOD"]
  BY DEF pager_write
<1>5. cache' = [cache EXCEPT ![c] = new]
  <2>1. journal'.orig = orig
    BY <1>4
  <2> QED
    BY <2>1 DEF pager_write
<1>6. db = committed /\ orig = db
  <2>1. db = committed /\ Matches(c) /\ DOMAIN db \subseteq DOMAIN cache[c]
    BY <1>1, <1>2, <1>3 DEF FileView, Trusts, CacheView
  <2>2. db = [p \in 1 .. Len(db) |-> db[p]] /\ DOMAIN db = 1 .. Len(db) /\ Len(db) \in {0, 1, 2}
    BY <1>3, FileFacts DEF PagerTypes
  <2>3. ASSUME NEW p \in DOMAIN db PROVE cache[c][p] = db[p]
    BY <2>1, <2>2, <2>3 DEF Matches, Content
  <2> QED
    BY <2>1, <2>2, <2>3
<1> HIDE DEF orig
<1>7. Counter(orig) \in 0 .. MaxTxn /\ txns \in 0 .. MaxTxn
  BY <1>3, <1>6, CounterType DEF PagerTypes
<1>8. new \in Caches /\ DOMAIN new = Page
  <2>1. new \in [Page -> 0 .. MaxTxn]
    BY <1>7
  <2> QED
    BY <2>1, CacheIntro
<1> HIDE DEF new
<1>9. pc'[c] = "idle" /\ eState'[c] = "CACHEMOD" /\ cache'[c] = new
  BY <1>1, <1>3, <1>4, <1>5 DEF PagerTypes, To
<1>10. PagerTypes'
  <2>1. journal' \in [file : BOOLEAN, valid : BOOLEAN, orig : Files]
    BY <1>3, <1>4, <1>6 DEF PagerTypes
  <2>2. pc' \in [Conn -> Places] /\ eState' \in [Conn -> {"OPEN", "READER"} \cup Writers]
    BY <1>1, <1>3, <1>4 DEF PagerTypes, To, Places, Writers
  <2>3. cache' \in [Conn -> Caches]
    BY <1>3, <1>5, <1>8 DEF PagerTypes
  <2> QED
    BY <1>3, <1>4, <2>1, <2>2, <2>3 DEF PagerTypes, boundVars
<1>11. FilesInv'
  <2>1. Counter(committed)' = Counter(committed) /\ Len(db) \in Nat
    BY <1>3, <1>4, FileFacts DEF Counter, PagerTypes
  <2> QED
    BY <1>3, <1>4, <1>6, <2>1 DEF FilesInv, FilesHoldCommitted, boundVars
<1>12. \A d \in Conn : d # c => PagerSame(d)
  BY <1>1, <1>3, <1>4, <1>5 DEF PagerSame, PagerTypes, To
<1>13. ConnInv(c)'
  <2>1. ReservedInv(c)'
    BY <1>1, <1>3, <1>4, <1>9 DEF ReservedInv, lockVars
  <2>2. PlaceInv(c)'
    BY <1>1, <1>2, <1>3, <1>4, <1>9 DEF PlaceInv, WriterLocks, Owns, lockVars
  <2>3. FileView(c)'
    BY <1>1, <1>3, <1>4, <1>6, <1>9 DEF FileView
  <2>4. Writing(c)' /\ ~Restored(c)' /\ Counter(committed)' = Counter(committed)
    BY <1>4, <1>9 DEF Writing, Restored, Live, Counter
  <2>5. CacheView(c)'
    BY <1>3, <1>4, <1>9, <2>4 DEF CacheView, boundVars
  <2>6. WriteView(c)'
    BY <1>2, <1>3, <1>4, <1>8, <1>9, <2>4 DEF WriteView, Seen, boundVars
  <2> QED
    BY <2>1, <2>2, <2>3, <2>5, <2>6 DEF ConnInv
<1>14. Owns(c) /\ LockMove(c) /\ txns' = txns
  BY <1>3, <1>4 DEF WriterLocks, LockMove, boundVars
<1> QED
  BY <1>4, <1>10, <1>11, <1>12, <1>13, <1>14, OwnerKeeps

-----------------------------------------------------------------------------
(* Playback *)

\* c plays back with the EXCLUSIVE lock, unless only its cache has changed.
LEMMA PlaybackFacts ==
    ASSUME IInv, NEW c \in Conn, at[c] = "none", pc[c] \in {"header", "records"}
    PROVE  /\ ReservedInv(c) /\ FileView(c) /\ PagerTypes /\ FilesInv /\ PlaceInv(c)
           /\ CacheView(c) /\ WriteView(c)
           /\ eState[c] \in {"OPEN", "CACHEMOD", "DBMOD", "FINISHED"}
           /\ eState[c] # "OPEN" => WriterLocks(c) /\ journal.valid /\ jfd[c] /\ heldShared[c]
           /\ eState[c] # "CACHEMOD" => locktype[c] = EXCLUSIVE_LOCK
<1>1. ReservedInv(c) /\ PlaceInv(c) /\ FileView(c) /\ PagerTypes /\ FilesInv /\ CacheView(c) /\ WriteView(c)
  BY DEF IInv, ConnInv
<1>2. eState[c] \in {"OPEN", "READER"} \cup Writers
  BY <1>1 DEF PagerTypes
<1>3. eState[c] # "READER"
  BY BetweenCalls DEF ReaderLocks
<1>4. eState[c] # "LOCKED"
  BY BetweenCalls DEF WriterLocks, Writers
<1>5. eState[c] = "OPEN" => locktype[c] = EXCLUSIVE_LOCK
  BY BetweenCalls DEF OpenLocks, Sure, Playback
<1>6. eState[c] \in {"DBMOD", "FINISHED"} => locktype[c] = EXCLUSIVE_LOCK
  BY BetweenCalls DEF WriterLocks, Sure, Writers
<1>7. eState[c] \in Writers => WriterLocks(c)
  BY BetweenCalls
<1> QED
  BY <1>1, <1>2, <1>3, <1>4, <1>5, <1>6, <1>7 DEF Writers, FileView, CacheView, Live

\* The file cut to n pages, or filled up to n.
LEMMA CutFacts ==
    ASSUME NEW f \in Files, NEW n \in {0, 1, 2}
    PROVE  LET cut == [p \in 1 .. n |-> IF p <= Len(f) THEN f[p] ELSE 0]
           IN  cut \in Files /\ Len(cut) = n
<1> DEFINE cut == [p \in 1 .. n |-> IF p <= Len(f) THEN f[p] ELSE 0]
<1>1. cut \in [1 .. n -> 0 .. MaxTxn]
  BY FileFacts, ConnectionsAssumption
<1> HIDE DEF cut
<1>2. cut \in Files /\ Len(cut) = n
  BY <1>1, FileIntro
<1> QED
  BY <1>2 DEF cut

LEMMA PlaybackHeaderKeeps ==
    ASSUME IInv, NEW c \in Conn, PlaybackHeader(c)
    PROVE  Kept
<1> DEFINE hot  == eState[c] = "OPEN"
           file == hot \/ eState[c] \in {"DBMOD", "FINISHED"}
           orig == journal.orig
           good == IF ~journal.valid THEN cache[c]
                   ELSE IF hot THEN NoPages
                   ELSE [p \in DOMAIN cache[c] \cap DOMAIN orig |-> orig[p]]
           cut  == [p \in 1 .. Len(orig) |-> IF p <= Len(db) THEN db[p] ELSE 0]
           vers == IF 1 \in DOMAIN orig \cap DOMAIN good THEN orig[1] ELSE dbFileVers[c]
<1>1. at[c] = "none" /\ pc[c] = "header" /\ To(c, "records")
  BY DEF PlaybackHeader, At
<1>2. /\ ReservedInv(c) /\ FileView(c) /\ PagerTypes /\ FilesInv /\ PlaceInv(c)
      /\ CacheView(c) /\ WriteView(c)
      /\ eState[c] \in {"OPEN", "CACHEMOD", "DBMOD", "FINISHED"}
      /\ eState[c] # "OPEN" => WriterLocks(c) /\ journal.valid /\ jfd[c] /\ heldShared[c]
      /\ eState[c] # "CACHEMOD" => locktype[c] = EXCLUSIVE_LOCK
  BY <1>1, PlaybackFacts
<1>3. cache[c] \in Caches /\ orig \in Files /\ db \in Files /\ committed \in Files
  BY <1>2 DEF PagerTypes
<1>4. /\ UNCHANGED <<lockVars, journal, committed, boundVars, eState, heldShared, jfd>>
      /\ db' = (IF journal.valid /\ file THEN cut ELSE db)
      /\ todo' = [todo EXCEPT ![c] = IF journal.valid /\ file THEN DOMAIN orig ELSE {}]
  BY DEF PlaybackHeader
<1>5. cache' = [cache EXCEPT ![c] = good]
  BY DEF PlaybackHeader
<1>6. cache'[c] = good
  BY <1>2, <1>5 DEF PagerTypes
<1>7. dbFileVers' = [dbFileVers EXCEPT ![c] = vers]
  BY <1>6 DEF PlaybackHeader
<1>8. /\ pc'[c] = "records" /\ dbFileVers'[c] = vers
      /\ todo'[c] = IF journal.valid /\ file THEN DOMAIN orig ELSE {}
  BY <1>1, <1>2, <1>4, <1>7 DEF PagerTypes, To
<1>9. /\ cut \in Files /\ Len(cut) = Len(orig)
      /\ DOMAIN orig = 1 .. Len(orig) /\ Len(orig) \in {0, 1, 2} /\ DOMAIN orig \subseteq Page
      /\ \A p \in DOMAIN orig : orig[p] \in 0 .. MaxTxn
  <2>1. /\ DOMAIN orig = 1 .. Len(orig) /\ Len(orig) \in {0, 1, 2}
        /\ \A p \in 1 .. Len(orig) : orig[p] \in 0 .. MaxTxn
    BY <1>3, FileFacts
  <2>2. cut \in Files /\ Len(cut) = Len(orig)
    BY <1>3, <2>1, CutFacts
  <2> QED
    BY <2>1, <2>2 DEF Page
<1> HIDE DEF cut
<1>10. (journal.valid => orig = committed) /\ (~journal.valid => db = committed /\ DOMAIN orig = {})
  BY <1>2, NoFile DEF FilesInv, FilesHoldCommitted
<1>11. good \in Caches /\ DOMAIN good \subseteq Page
  <2>1. CASE ~journal.valid
    BY <1>3, <2>1, CacheFacts
  <2>2. CASE journal.valid /\ hot
    <3>1. NoPages \in [{} -> 0 .. MaxTxn]
      BY DEF NoPages
    <3> QED
      BY <2>2, <3>1, CacheIntro
  <2>3. CASE journal.valid /\ ~hot
    <3>1. good \in [DOMAIN cache[c] \cap DOMAIN orig -> 0 .. MaxTxn]
      BY <1>9, <2>3
    <3> HIDE DEF good
    <3>2. DOMAIN cache[c] \cap DOMAIN orig \in SUBSET Page
      BY <1>9
    <3> QED
      BY <3>1, <3>2, CacheIntro
  <2> QED
    BY <2>1, <2>2, <2>3
<1>12. \/ good = cache[c] /\ vers = dbFileVers[c] /\ ~journal.valid /\ hot
       \/ DOMAIN good = {} /\ vers = dbFileVers[c]
       \/ /\ ~hot /\ DOMAIN good # {} /\ DOMAIN good \subseteq DOMAIN committed
          /\ \A p \in DOMAIN good : good[p] = committed[p]
          /\ 1 \in DOMAIN good /\ vers = committed[1]
  <2>1. CASE ~journal.valid
    BY <1>2, <1>10, <2>1
  <2>2. CASE journal.valid /\ hot
    BY <2>2 DEF NoPages
  <2>3. CASE journal.valid /\ ~hot
    <3>1. Writing(c)
      BY <1>1, <1>2, <2>3 DEF Writing, Restored, Live
    <3>2. DOMAIN cache[c] = Page
      BY <1>2, <3>1 DEF WriteView
    <3>3. DOMAIN good = DOMAIN orig /\ \A p \in DOMAIN good : good[p] = orig[p]
      BY <1>9, <2>3, <3>2
    <3>4. DOMAIN good # {} => 1 \in DOMAIN good
      BY <1>9, <3>3
    <3> QED
      BY <1>10, <2>3, <3>3, <3>4
  <2> QED
    BY <2>1, <2>2, <2>3
<1>13. vers \in 0 .. MaxTxn
  BY <1>2, <1>9 DEF PagerTypes
<1> HIDE DEF good, vers
<1>14. PagerTypes'
  <2>1. db' \in Files
    BY <1>3, <1>4, <1>9
  <2>2. pc' \in [Conn -> Places] /\ todo' \in [Conn -> SUBSET Page]
    BY <1>1, <1>2, <1>4, <1>9 DEF PagerTypes, To, Places
  <2>3. cache' \in [Conn -> Caches] /\ dbFileVers' \in [Conn -> 0 .. MaxTxn]
    BY <1>2, <1>5, <1>7, <1>11, <1>13 DEF PagerTypes
  <2> QED
    BY <1>2, <1>4, <2>1, <2>2, <2>3 DEF PagerTypes, boundVars
<1>15. Counter(committed)' = Counter(committed) /\ txns' = txns /\ committed' = committed
  BY <1>4 DEF Counter, boundVars
<1>16. FilesInv'
  BY <1>2, <1>4, <1>9, <1>10, <1>15 DEF FilesInv, FilesHoldCommitted
<1>17. \A d \in Conn : d # c => PagerSame(d)
  BY <1>1, <1>2, <1>4, <1>5, <1>7 DEF PagerSame, PagerTypes, To
<1>18. ReservedInv(c)'
  <2>1. db' = db \/ locktype[c] = EXCLUSIVE_LOCK
    BY <1>2, <1>4
  <2> QED
    BY <1>1, <1>2, <1>4, <1>8, <2>1 DEF ReservedInv, lockVars
<1>19. PlaceInv(c)'
  BY <1>1, <1>2, <1>4, <1>8 DEF PlaceInv, OpenLocks, WriterLocks, Owns, Sure, Playback, lockVars, Writers
<1>20. FileView(c)'
  <2>1. eState[c] = "CACHEMOD" => db' = committed
    BY <1>2, <1>4 DEF FileView, Trusts
  <2>2. Len(db') = Len(committed) /\ todo'[c] \subseteq DOMAIN committed
        /\ (todo'[c] # {} => journal.valid /\ eState[c] # "CACHEMOD")
        /\ \A p \in DOMAIN committed \ todo'[c] : db'[p] = committed[p]
    <3>1. CASE journal.valid /\ file
      BY <1>2, <1>4, <1>8, <1>9, <1>10, <3>1
    <3>2. CASE ~(journal.valid /\ file)
      <4>1. db' = committed
        BY <1>2, <1>4, <1>10, <2>1, <3>2
      <4> QED
        BY <1>8, <3>2, <4>1
    <3> QED
      BY <3>1, <3>2
  <2> QED
    BY <1>2, <1>4, <1>8, <2>1, <2>2 DEF FileView, Trusts, Live
<1>21. CacheView(c)'
  <2>1. CASE good = cache[c] /\ vers = dbFileVers[c] /\ ~journal.valid /\ hot
    <3>1. ~Writing(c) /\ ~Writing(c)' /\ ~Restored(c)' /\ Matches(c)' = Matches(c)
      BY <1>4, <1>6, <2>1 DEF Writing, Restored, Live, Matches, Content
    <3> QED
      BY <1>2, <1>4, <1>6, <1>8, <1>15, <2>1, <3>1 DEF CacheView
  <2>2. CASE DOMAIN good = {} /\ vers = dbFileVers[c]
    BY <1>2, <1>4, <1>6, <1>8, <1>15, <2>2 DEF CacheView, Matches
  <2>3. CASE /\ ~hot /\ DOMAIN good # {} /\ DOMAIN good \subseteq DOMAIN committed
             /\ \A p \in DOMAIN good : good[p] = committed[p]
             /\ 1 \in DOMAIN good /\ vers = committed[1]
    <3>1. DOMAIN committed = 1 .. Len(committed) /\ Len(committed) \in Nat
          /\ (1 \in DOMAIN committed => committed[1] \in Nat)
      BY <1>3, FileFacts
    <3>2. Len(committed) > 0 /\ Counter(committed) = committed[1] /\ Counter(committed) <= txns
      BY <1>2, <2>3, <3>1 DEF Counter, FilesInv
    <3>3. Matches(c)'
      BY <1>6, <1>15, <2>3, <3>1 DEF Matches, Content
    <3>4. dbFileVers'[c] = Counter(committed) /\ cache'[c][1] = Counter(committed) /\ 1 \in DOMAIN cache'[c]
      BY <1>6, <1>8, <2>3, <3>2
    <3>5. Counter(committed) \in Nat
      BY <2>3, <3>1, <3>2
    <3>6. (~heldShared[c] => eState[c] = "OPEN" /\ DOMAIN cache[c] = {})' 
      BY <1>2, <1>4, <2>3
    <3> QED
      BY <1>15, <3>2, <3>3, <3>4, <3>5, <3>6 DEF CacheView
  <2> QED
    BY <1>12, <2>1, <2>2, <2>3
<1>22. WriteView(c)'
  <2>1. ~Writing(c)' /\ eState'[c] # "LOCKED"
    BY <1>2, <1>4, <1>8 DEF Writing, Restored
  <2> QED
    BY <1>8, <2>1 DEF WriteView
<1>23. ConnInv(c)'
  BY <1>18, <1>19, <1>20, <1>21, <1>22 DEF ConnInv
<1>24. CASE eState[c] # "CACHEMOD"
  BY <1>2, <1>4, <1>14, <1>15, <1>16, <1>17, <1>23, <1>24, SureKeeps DEF LockMove
<1>25. CASE eState[c] = "CACHEMOD"
  BY <1>2, <1>4, <1>14, <1>15, <1>16, <1>17, <1>23, <1>25, OwnerKeeps DEF LockMove, WriterLocks
<1> QED
  BY <1>24, <1>25

LEMMA PlaybackRecordKeeps ==
    ASSUME IInv, NEW c \in Conn, PlaybackRecord(c)
    PROVE  Kept
<1>1. at[c] = "none" /\ pc[c] = "records"
  BY DEF PlaybackRecord, At
<1>2. /\ ReservedInv(c) /\ FileView(c) /\ PagerTypes /\ FilesInv /\ PlaceInv(c)
      /\ CacheView(c) /\ WriteView(c)
      /\ eState[c] \in {"OPEN", "CACHEMOD", "DBMOD", "FINISHED"}
      /\ eState[c] # "OPEN" => WriterLocks(c) /\ journal.valid /\ jfd[c] /\ heldShared[c]
      /\ eState[c] # "CACHEMOD" => locktype[c] = EXCLUSIVE_LOCK
  BY <1>1, PlaybackFacts
<1>3. /\ UNCHANGED <<lockVars, journal, committed, boundVars, eState, cache, dbFileVers, heldShared, jfd>>
  BY DEF PlaybackRecord
<1>4. /\ Len(db) = Len(committed) /\ todo[c] \subseteq DOMAIN committed
      /\ \A p \in DOMAIN committed \ todo[c] : db[p] = committed[p]
      /\ todo[c] # {} => journal.valid /\ eState[c] # "CACHEMOD"
  BY <1>1, <1>2 DEF FileView
<1>5. /\ db \in Files /\ committed \in Files /\ todo[c] \in SUBSET Page
      /\ Len(db) \in {0, 1, 2} /\ DOMAIN db = 1 .. Len(db) /\ DOMAIN committed = 1 .. Len(committed)
      /\ \A p \in DOMAIN committed : committed[p] \in 0 .. MaxTxn
  BY <1>2, FileFacts DEF PagerTypes
<1>6. Counter(committed)' = Counter(committed) /\ txns' = txns /\ committed' = committed
      /\ (Seen(c) => Seen(c)') /\ Matches(c)' = Matches(c)
  BY <1>3 DEF Counter, Seen, Matches, Content, boundVars
<1>7. CASE todo[c] # {}
  <2> DEFINE p == Min(todo[c])
  <2>1. p \in todo[c]
    BY <1>5, <1>7, MinOfPages
  <2>2. journal.orig = committed /\ locktype[c] = EXCLUSIVE_LOCK
    BY <1>2, <1>4, <1>7 DEF FilesInv, FilesHoldCommitted
  <2>3. db' = Written(db, p, committed[p]) /\ todo' = [todo EXCEPT ![c] = @ \ {p}] /\ pc' = pc
    BY <1>7, <2>2 DEF PlaybackRecord
  <2> HIDE DEF p
  <2>4. p \in Page /\ p \in 1 .. Len(db) /\ committed[p] \in 0 .. MaxTxn
    BY <1>4, <1>5, <2>1
  <2>5. /\ db' \in Files /\ Len(db') = Len(db) /\ db'[p] = committed[p]
        /\ \A q \in 1 .. Len(db) : q # p => db'[q] = db[q]
    <3>1. /\ Written(db, p, committed[p]) \in Files
          /\ Len(Written(db, p, committed[p])) = IF p >= Len(db) THEN p ELSE Len(db)
          /\ Written(db, p, committed[p])[p] = committed[p]
          /\ \A q \in 1 .. Len(db) : q # p => Written(db, p, committed[p])[q] = db[q]
      BY <1>5, <2>4, WrittenFacts
    <3>2. Len(db) \in Nat /\ p \in Nat /\ p <= Len(db)
      BY <1>5, <2>4 DEF Page
    <3>3. (IF p >= Len(db) THEN p ELSE Len(db)) = Len(db)
      BY ONLY <3>2
    <3> QED
      BY ONLY <2>3, <3>1, <3>3
  <2>6. todo'[c] = todo[c] \ {p}
    BY <1>2, <2>3 DEF PagerTypes
  <2>7. PagerTypes'
    <3>1. todo' \in [Conn -> SUBSET Page]
      BY <1>2, <2>3 DEF PagerTypes
    <3> QED
      BY <1>2, <1>3, <2>3, <2>5, <3>1 DEF PagerTypes, boundVars
  <2>8. FilesInv'
    BY <1>2, <1>3, <1>4, <1>6, <1>7, <2>5 DEF FilesInv, FilesHoldCommitted
  <2>9. \A d \in Conn : d # c => PagerSame(d)
    BY <1>2, <1>3, <2>3 DEF PagerSame, PagerTypes
  <2>10. ReservedInv(c)'
    BY <1>1, <1>2, <1>3, <2>2, <2>3 DEF ReservedInv, lockVars
  <2>11. PlaceInv(c)'
    BY <1>1, <1>2, <1>3, <2>3 DEF PlaceInv, OpenLocks, WriterLocks, Owns, Sure, Playback, lockVars, Writers
  <2>12. FileView(c)'
    <3>1. \A q \in DOMAIN committed \ todo'[c] : db'[q] = committed[q]
      BY <1>4, <1>5, <2>5, <2>6
    <3>2. ~Trusts(c)'
      BY <1>1, <1>2, <1>3, <1>4, <1>7, <2>3 DEF Trusts
    <3> QED
      BY <1>1, <1>2, <1>3, <1>4, <1>7, <2>3, <2>5, <2>6, <3>1, <3>2 DEF FileView, Live
  <2>13. CacheView(c)'
    BY <1>2, <1>3, <1>6, <2>3 DEF CacheView, Writing, Restored
  <2>14. WriteView(c)'
    BY <1>1, <1>2, <1>3, <2>3 DEF WriteView, Writing, Restored
  <2>15. ConnInv(c)'
    BY <2>10, <2>11, <2>12, <2>13, <2>14 DEF ConnInv
  <2> QED
    BY <1>3, <1>6, <2>2, <2>7, <2>8, <2>9, <2>15, SureKeeps DEF LockMove
<1>8. CASE todo[c] = {}
  <2>1. UNCHANGED <<db, todo>> /\ To(c, "finalize")
    BY <1>8 DEF PlaybackRecord
  <2>2. db = committed
    BY <1>4, <1>5, <1>8, FileEqual
  <2>3. pc'[c] = "finalize"
    BY <1>2, <2>1 DEF PagerTypes, To
  <2>4. PagerTypes'
    <3>1. pc' \in [Conn -> Places]
      BY <1>2, <2>1 DEF PagerTypes, To, Places
    <3> QED
      BY <1>2, <1>3, <2>1, <3>1 DEF PagerTypes, boundVars
  <2>5. \A d \in Conn : d # c => PagerSame(d)
    BY <1>2, <1>3, <2>1 DEF PagerSame, PagerTypes, To
  <2>6. ReservedInv(c)'
    BY <1>1, <1>2, <1>3, <2>1, <2>3 DEF ReservedInv, lockVars
  <2>7. PlaceInv(c)'
    BY <1>1, <1>2, <1>3, <2>3 DEF PlaceInv, OpenLocks, WriterLocks, Owns, Sure, Playback, lockVars, Writers
  <2>8. FileView(c)'
    BY <1>1, <1>2, <1>3, <2>1, <2>2, <2>3 DEF FileView
  <2>9. CacheView(c)'
    BY <1>1, <1>2, <1>3, <1>6, <2>3 DEF CacheView, Writing, Restored
  <2>10. WriteView(c)'
    BY <1>1, <1>2, <1>3, <2>3 DEF WriteView, Writing, Restored
  <2>11. ConnInv(c)'
    BY <2>6, <2>7, <2>8, <2>9, <2>10 DEF ConnInv
  <2>12. UNCHANGED fileVars /\ txns \in Nat
    BY <1>2, <1>3, <2>1, ConnectionsAssumption DEF fileVars, PagerTypes
  <2> QED
    BY <1>3, <1>6, <2>4, <2>5, <2>11, <2>12, QuietKeeps DEF LockMove
<1> QED
  BY <1>7, <1>8

-----------------------------------------------------------------------------
(* The end of the journal, and the writing of the pages *)

\* Here a transaction commits: the database as written is the committed one.
LEMMA FinalizeKeeps ==
    ASSUME IInv, NEW c \in Conn, FinalizeJournal(c)
    PROVE  /\ Kept
           /\ committed' # committed => Counter(committed)' > Counter(committed)
<1>1. at[c] = "none" /\ pc[c] \in {"finalize", "phaseTwo"} /\ To(c, "ended")
  BY DEF FinalizeJournal, At
<1>2. /\ UNCHANGED <<lockVars, db, boundVars, eState, cache, dbFileVers, heldShared, todo>>
      /\ journal' = (IF jfd[c] THEN Finalized ELSE journal)
      /\ jfd' = [jfd EXCEPT ![c] = @ /\ mode = "PERSIST"]
      /\ committed' = IF pc[c] = "phaseTwo" THEN db ELSE committed
  BY DEF FinalizeJournal
<1>3. ReservedInv(c) /\ FileView(c) /\ PagerTypes /\ FilesInv /\ PlaceInv(c) /\ CacheView(c) /\ WriteView(c)
  BY DEF IInv, ConnInv
<1>4. /\ eState[c] \in {"OPEN"} \cup Writers
      /\ eState[c] = "OPEN" => pc[c] = "finalize" /\ locktype[c] = EXCLUSIVE_LOCK
      /\ eState[c] # "OPEN" => Owns(c) /\ heldShared[c]
      /\ pc[c] = "phaseTwo" => eState[c] = "FINISHED" /\ locktype[c] = EXCLUSIVE_LOCK
  <2>1. eState[c] \in {"OPEN", "READER"} \cup Writers
    BY <1>3 DEF PagerTypes
  <2>2. eState[c] # "READER"
    BY <1>1, BetweenCalls DEF ReaderLocks
  <2>3. eState[c] = "OPEN" => pc[c] = "finalize" /\ locktype[c] = EXCLUSIVE_LOCK
    BY <1>1, BetweenCalls DEF OpenLocks, Sure, Playback
  <2>4. eState[c] \in Writers => WriterLocks(c)
    BY <1>1, BetweenCalls
  <2>5. pc[c] = "phaseTwo" /\ eState[c] \in Writers => eState[c] = "FINISHED" /\ locktype[c] = EXCLUSIVE_LOCK
    BY <2>4 DEF WriterLocks, Sure, Playback, Writers
  <2>6. eState[c] # "OPEN" => heldShared[c]
    BY <1>3 DEF CacheView
  <2> QED
    BY <1>1, <2>1, <2>2, <2>3, <2>4, <2>5, <2>6 DEF WriterLocks
<1>5. /\ pc'[c] = "ended" /\ txns' = txns
      /\ eState[c] \in Live /\ pc[c] = "phaseTwo" => jfd[c]
  BY <1>1, <1>2, <1>3 DEF PagerTypes, To, boundVars, FileView
<1>6. \A d \in Conn : d # c => PagerSame(d)
  BY <1>1, <1>2, <1>3 DEF PagerSame, PagerTypes, To
<1>7. PagerTypes'
  <2>1. Finalized \in [file : BOOLEAN, valid : BOOLEAN, orig : Files]
    BY NoFile DEF Finalized, Absent, Zeroed
  <2>2. journal' \in [file : BOOLEAN, valid : BOOLEAN, orig : Files] /\ committed' \in Files
    BY <1>2, <1>3, <2>1 DEF PagerTypes
  <2>3. pc' \in [Conn -> Places] /\ jfd' \in [Conn -> BOOLEAN]
    BY <1>1, <1>2, <1>3 DEF PagerTypes, To, Places
  <2> QED
    BY <1>2, <1>3, <2>2, <2>3 DEF PagerTypes, boundVars
<1>8. ~Finalized.valid /\ Finalized.orig = <<>>
  BY DEF Finalized, Absent, Zeroed
<1>9. ReservedInv(c)'
  BY <1>1, <1>2, <1>3, <1>4, <1>5 DEF ReservedInv, lockVars
<1>10. PlaceInv(c)'
  BY <1>1, <1>2, <1>3, <1>4, <1>5 DEF PlaceInv, OpenLocks, WriterLocks, Owns, Sure, Playback, lockVars, Writers
<1>11. LockMove(c)
  BY <1>2 DEF LockMove
<1>12. CASE pc[c] = "finalize"
  <2>1. db = committed /\ committed' = committed /\ Counter(committed)' = Counter(committed)
        /\ Matches(c)' = Matches(c)
    BY <1>2, <1>3, <1>12 DEF FileView, Trusts, Counter, Matches, Content
  <2>2. FilesInv'
    <3>1. journal' = journal \/ journal' = Finalized
      BY <1>2
    <3> QED
      BY <1>2, <1>3, <1>5, <1>8, <2>1, <3>1 DEF FilesInv, FilesHoldCommitted
  <2>3. FileView(c)'
    BY <1>2, <1>5, <2>1 DEF FileView
  <2>4. CacheView(c)'
    BY <1>1, <1>2, <1>3, <1>5, <1>12, <2>1 DEF CacheView, Writing, Restored
  <2>5. WriteView(c)'
    BY <1>1, <1>2, <1>3, <1>5, <1>12, <2>1 DEF WriteView, Writing, Restored, Seen
  <2>6. ConnInv(c)'
    BY <1>9, <1>10, <2>3, <2>4, <2>5 DEF ConnInv
  <2>7. Kept
    <3>1. CASE eState[c] = "OPEN"
      BY <1>4, <1>5, <1>6, <1>7, <1>11, <2>1, <2>2, <2>6, <3>1, SureKeeps
    <3>2. CASE eState[c] # "OPEN"
      BY <1>2, <1>4, <1>5, <1>6, <1>7, <1>11, <2>1, <2>2, <2>6, <3>2, OwnerKeeps
    <3> QED
      BY <3>1, <3>2
  <2> QED
    BY <2>1, <2>7
<1>13. CASE pc[c] = "phaseTwo"
  <2>1. eState[c] = "FINISHED" /\ jfd[c] /\ journal' = Finalized /\ committed' = db /\ db' = db
    BY <1>2, <1>4, <1>5, <1>13 DEF Live
  <2>2. /\ Len(db) = 2 /\ \A p \in Page : db[p] = cache[c][p]
        /\ dbFileVers[c] = cache[c][1] /\ dbFileVers[c] > Counter(committed)
        /\ DOMAIN cache[c] = Page
    <3>1. Writing(c)
      BY <1>13, <2>1 DEF Writing, Restored, Live
    <3> QED
      BY <1>3, <1>13, <2>1, <3>1 DEF WriteView
  <2>3. Counter(committed)' = dbFileVers[c]
    BY <2>1, <2>2 DEF Counter, Page
  <2>4. dbFileVers[c] \in Nat /\ dbFileVers[c] <= txns
    BY <1>3, ConnectionsAssumption DEF PagerTypes, CacheView
  <2>5. FilesInv'
    <3>1. committed' = db /\ db' = db /\ journal' = Finalized /\ txns' = txns
      BY <1>5, <2>1
    <3>2. ~journal'.valid /\ journal'.orig = <<>>
      BY ONLY <1>8, <3>1
    <3>3. Len(committed') = 2
      BY ONLY <2>2, <3>1
    <3>4. Counter(committed)' <= txns'
      BY ONLY <2>3, <2>4, <3>1
    <3> QED
      BY ONLY <3>1, <3>2, <3>3, <3>4 DEF FilesInv, FilesHoldCommitted
  <2>6. FileView(c)'
    BY <1>2, <1>5, <2>1 DEF FileView
  <2>8. ~Writing(c)' /\ cache'[c] = cache[c] /\ eState'[c] = "FINISHED"
    BY <1>2, <1>5, <2>1 DEF Writing, Restored, Live
  <2>7. Matches(c)'
    <3>1. committed' = db
      BY <2>1
    <3>2. \A p \in Page : Content(db, p) = db[p]
      BY ONLY <2>2 DEF Content, Page
    <3>3. \A p \in DOMAIN cache[c] : cache[c][p] = Content(db, p)
      BY ONLY <2>2, <3>2
    <3>4. Content(committed, 1)' = Content(db, 1) /\ Content(committed, 2)' = Content(db, 2)
      BY ONLY <3>1 DEF Content
    <3>5. \A p \in Page : cache'[c][p] = Content(committed', p)
      BY ONLY <2>2, <2>8, <3>1, <3>3 DEF Content
    <3> QED
      BY ONLY <2>2, <2>8, <3>5 DEF Matches
  <2>9. CacheView(c)'
    <3>1. heldShared'[c] /\ dbFileVers'[c] = dbFileVers[c] /\ txns' = txns
      BY <1>2, <1>4, <1>5, <2>1
    <3>2. Len(committed') > 0
      BY <2>1, <2>2
    <3>3. DOMAIN cache'[c] = Page /\ dbFileVers'[c] = cache'[c][1]
      BY <2>2, <2>8, <3>1
    <3>4. Counter(committed)' = dbFileVers'[c] /\ dbFileVers'[c] \in Nat /\ dbFileVers'[c] <= txns'
      BY <2>3, <2>4, <3>1
    <3> QED
      BY ONLY <2>7, <2>8, <3>1, <3>2, <3>3, <3>4 DEF CacheView, Page
  <2>10. WriteView(c)'
    BY <1>5, <2>8 DEF WriteView
  <2>11. ConnInv(c)'
    BY <1>9, <1>10, <2>6, <2>9, <2>10 DEF ConnInv
  <2>12. committed' \in Files /\ Len(committed') > 0 /\ Counter(committed)' > Counter(committed)
    BY <1>3, <2>1, <2>2, <2>3 DEF PagerTypes
  <2>13. Kept
    BY <1>4, <1>5, <1>6, <1>7, <1>11, <1>13, <2>5, <2>11, <2>12, SureKeeps
  <2> QED
    BY <2>12, <2>13
<1> QED
  BY <1>1, <1>12, <1>13

LEMMA WritePageKeeps ==
    ASSUME IInv, NEW c \in Conn, WritePage(c)
    PROVE  Kept
<1> DEFINE p == Min(todo[c])
<1>1. at[c] = "none" /\ pc[c] \in {"spillWrite", "commitWrite"}
  BY DEF WritePage, At
<1>2. eState[c] = "DBMOD"
  <2>1. eState[c] # "OPEN" /\ eState[c] \in {"OPEN", "READER"} \cup Writers
    BY <1>1, BetweenCalls DEF OpenPlaces, Playback, PagerTypes
  <2>2. eState[c] # "READER"
    BY <1>1, BetweenCalls DEF ReaderLocks
  <2>3. eState[c] \notin {"LOCKED", "CACHEMOD", "FINISHED"}
    BY <1>1, BetweenCalls DEF WriterLocks, Writers, Playback
  <2> QED
    BY <2>1, <2>2, <2>3 DEF Writers
<1>3. /\ ReservedInv(c) /\ FileView(c) /\ PagerTypes /\ FilesInv /\ WriterLocks(c)
      /\ CacheView(c) /\ WriteView(c) /\ heldShared[c]
  BY <1>1, <1>2, WriterFacts DEF Writers
<1>4. locktype[c] = EXCLUSIVE_LOCK /\ journal.valid /\ jfd[c] /\ Writing(c) /\ DOMAIN cache[c] = Page
  <2>1. locktype[c] = EXCLUSIVE_LOCK /\ journal.valid /\ jfd[c]
    BY <1>1, <1>2, <1>3 DEF WriterLocks, Sure, FileView, Live
  <2>2. Writing(c)
    BY <1>1, <1>2 DEF Writing, Restored, Live
  <2> QED
    BY <1>3, <2>1, <2>2 DEF WriteView
<1>5. /\ UNCHANGED <<lockVars, journal, committed, boundVars, cache, heldShared, jfd>>
      /\ db' = Written(db, p, cache[c][p])
      /\ dbFileVers' = [dbFileVers EXCEPT ![c] = IF p = 1 THEN cache[c][1] ELSE @]
      /\ todo' = [todo EXCEPT ![c] = @ \ {p}]
      /\ IF todo[c] # {p} THEN UNCHANGED <<pc, eState>>
         ELSE /\ To(c, "idle")
              /\ eState' = [eState EXCEPT ![c] = IF pc[c] = "commitWrite" THEN "FINISHED" ELSE @]
  BY DEF WritePage
<1>6. /\ todo[c] \in {Page, {2}} /\ (pc[c] = "spillWrite" => todo[c] = {2})
      /\ p \in todo[c] /\ (todo[c] = Page => p = 1) /\ (todo[c] = {2} => p = 2)
  <2>1. todo[c] \in {Page, {2}} /\ (pc[c] = "spillWrite" => todo[c] = {2})
    BY <1>1, <1>3 DEF WriteView
  <2> QED
    BY <2>1, MinOfPages DEF Page
<1> HIDE DEF p
<1>7. p \in {1, 2} /\ cache[c][p] \in 0 .. MaxTxn /\ cache[c][1] \in 0 .. MaxTxn
  <2>1. p \in {1, 2} /\ 1 \in Page
    BY <1>6 DEF Page
  <2>2. p \in Page
    BY <2>1 DEF Page
  <2> QED
    BY <1>3, <1>4, <2>1, <2>2, CacheFacts DEF PagerTypes
<1>8. /\ db' \in Files /\ Len(db') = (IF p >= Len(db) THEN p ELSE Len(db)) /\ db'[p] = cache[c][p]
      /\ \A q \in 1 .. Len(db) : q # p => db'[q] = db[q]
      /\ Len(db) \in {0, 1, 2} /\ Len(journal.orig) \in Nat
  <2>1. p \in Page /\ db \in Files /\ journal.orig \in Files
    BY <1>3, <1>7 DEF Page, PagerTypes
  <2>2. Len(db) \in {0, 1, 2} /\ Len(journal.orig) \in Nat
    BY <2>1, FileFacts
  <2>3. /\ Written(db, p, cache[c][p]) \in Files
        /\ Len(Written(db, p, cache[c][p])) = (IF p >= Len(db) THEN p ELSE Len(db))
        /\ Written(db, p, cache[c][p])[p] = cache[c][p]
        /\ \A q \in 1 .. Len(db) : q # p => Written(db, p, cache[c][p])[q] = db[q]
    BY <1>7, <2>1, WrittenFacts
  <2> QED
    BY <1>5, <2>2, <2>3
<1>9. /\ todo'[c] = todo[c] \ {p} /\ dbFileVers'[c] = (IF p = 1 THEN cache[c][1] ELSE dbFileVers[c])
      /\ Counter(committed)' = Counter(committed) /\ txns' = txns /\ committed' = committed
      /\ dbFileVers[c] \in Nat /\ Counter(committed) \in Nat /\ txns \in Nat
  BY <1>3, <1>5, ConnectionsAssumption, CounterType DEF PagerTypes, Counter, boundVars
<1>10. \/ todo[c] = Page /\ pc[c] = "commitWrite" /\ pc'[c] = "commitWrite" /\ eState'[c] = "DBMOD"
          /\ p = 1 /\ todo'[c] = {2}
       \/ todo[c] = {2} /\ pc[c] = "commitWrite" /\ pc'[c] = "idle" /\ eState'[c] = "FINISHED" /\ p = 2
       \/ todo[c] = {2} /\ pc[c] = "spillWrite" /\ pc'[c] = "idle" /\ eState'[c] = "DBMOD" /\ p = 2
  <2>1. CASE todo[c] = Page
    <3>1. todo[c] # {p} /\ p = 1 /\ todo'[c] = {2} /\ pc[c] = "commitWrite"
      BY <1>1, <1>6, <1>9, <2>1 DEF Page
    <3> QED
      BY <1>2, <1>5, <2>1, <3>1
  <2>2. CASE todo[c] = {2}
    <3>1. p = 2 /\ todo[c] = {p}
      BY <1>6, <2>2
    <3>2. pc'[c] = "idle" /\ eState'[c] = IF pc[c] = "commitWrite" THEN "FINISHED" ELSE "DBMOD"
      BY <1>2, <1>3, <1>5, <3>1 DEF PagerTypes, To
    <3> QED
      BY <1>1, <2>2, <3>1, <3>2
  <2> QED
    BY <1>6, <2>1, <2>2
<1>11. PagerTypes'
  <2>1. pc' \in [Conn -> Places] /\ eState' \in [Conn -> {"OPEN", "READER"} \cup Writers]
        /\ todo' \in [Conn -> SUBSET Page]
    BY <1>3, <1>5 DEF PagerTypes, To, Places, Writers
  <2>2. dbFileVers' \in [Conn -> 0 .. MaxTxn]
    BY <1>3, <1>5, <1>7 DEF PagerTypes
  <2> QED
    BY <1>3, <1>5, <1>8, <2>1, <2>2 DEF PagerTypes, boundVars
<1>12. FilesInv'
  <2>1. Len(journal.orig) <= Len(db')
    BY <1>3, <1>4, <1>7, <1>8 DEF FilesInv
  <2> QED
    BY <1>3, <1>4, <1>5, <1>9, <2>1 DEF FilesInv, FilesHoldCommitted
<1>13. \A d \in Conn : d # c => PagerSame(d)
  BY <1>3, <1>5 DEF PagerSame, PagerTypes, To
<1>14. ReservedInv(c)'
  BY <1>1, <1>3, <1>4, <1>5, <1>10 DEF ReservedInv, lockVars
<1>15. PlaceInv(c)'
  BY <1>1, <1>2, <1>3, <1>4, <1>5, <1>10 DEF PlaceInv, WriterLocks, Owns, Sure, lockVars, Writers
<1>16. FileView(c)'
  BY <1>4, <1>5, <1>10 DEF FileView, Trusts, Live
<1>17. Writing(c)' /\ ~Restored(c)'
  BY <1>10 DEF Writing, Restored, Live
<1>18. todo[c] = Page => cache[c][1] = dbFileVers[c] + 1 /\ Seen(c)
  <2>1. todo[c] = Page => pc[c] = "commitWrite"
    BY <1>10 DEF Page
  <2> QED
    BY <1>2, <1>3, <2>1 DEF WriteView
<1>19. dbFileVers'[c] <= txns
  <2>1. dbFileVers[c] <= txns
    BY <1>3 DEF CacheView
  <2> QED
    BY <1>9, <1>10, <1>18, <2>1 DEF Seen
<1>20. CacheView(c)'
  BY <1>3, <1>5, <1>9, <1>10, <1>17, <1>19 DEF CacheView
<1>21. WriteView(c)'
  <2>1. DOMAIN cache'[c] = Page /\ cache'[c] = cache[c] /\ Page # {2}
    BY <1>4, <1>5 DEF Page
  <2>2. CASE todo[c] = Page
    <3>1. pc'[c] = "commitWrite" /\ eState'[c] = "DBMOD" /\ p = 1 /\ todo'[c] = {2}
      BY <1>10, <2>1, <2>2
    <3>2. Len(db') >= 1 /\ db'[1] = cache[c][1] /\ dbFileVers'[c] = cache[c][1]
      BY <1>8, <1>9, <3>1
    <3>3. dbFileVers'[c] > Counter(committed)
      BY <1>9, <1>18, <2>2, <3>1 DEF Seen
    <3> QED
      BY <1>9, <1>17, <2>1, <3>1, <3>2, <3>3 DEF WriteView
  <2>3. CASE todo[c] = {2} /\ pc[c] = "commitWrite"
    <3>1. pc'[c] = "idle" /\ eState'[c] = "FINISHED" /\ p = 2
      BY <1>10, <2>1, <2>3
    <3>2. /\ Len(db) >= 1 /\ db[1] = cache[c][1] /\ dbFileVers[c] = cache[c][1]
          /\ dbFileVers[c] > Counter(committed)
      BY <1>3, <2>3 DEF WriteView
    <3>3. Len(db') = 2 /\ db'[2] = cache[c][2] /\ db'[1] = cache[c][1]
      BY <1>8, <3>1, <3>2
    <3>4. \A q \in Page : db'[q] = cache[c][q]
      BY <3>3 DEF Page
    <3> QED
      BY <1>9, <1>17, <2>1, <3>1, <3>2, <3>3, <3>4 DEF WriteView
  <2>4. CASE pc[c] = "spillWrite"
    <3>1. pc'[c] = "idle" /\ eState'[c] = "DBMOD" /\ p = 2
      BY <1>10, <2>4
    <3>2. Seen(c)
      BY <1>2, <1>3, <2>4 DEF WriteView
    <3>3. Seen(c)'
      BY <1>9, <3>1, <3>2 DEF Seen
    <3> QED
      BY <1>17, <2>1, <3>1, <3>3 DEF WriteView
  <2> QED
    BY <1>10, <2>2, <2>3, <2>4
<1>22. ConnInv(c)'
  BY <1>14, <1>15, <1>16, <1>20, <1>21 DEF ConnInv
<1>23. LockMove(c)
  BY <1>5 DEF LockMove
<1> QED
  BY <1>4, <1>9, <1>11, <1>12, <1>13, <1>22, <1>23, SureKeeps

-----------------------------------------------------------------------------
(* The invariant holds *)

LEMMA InitIInv == Init => IInv
<1> SUFFICES ASSUME Init PROVE IInv
  OBVIOUS
<1>1. PICK n \in InitSizes : db = [p \in 1 .. n |-> 0]
  BY DEF Init
<1>2. n \in {0, 2} /\ db \in Files /\ Len(db) = n /\ Counter(db) = 0
  <2>1. n \in {0, 1, 2} /\ n \in {0, 2}
    BY ConnectionsAssumption
  <2>2. db \in [1 .. n -> 0 .. MaxTxn]
    BY <1>1, ConnectionsAssumption
  <2>3. db \in Files /\ Len(db) = n
    BY <2>1, <2>2, FileIntro
  <2>4. Counter(db) = 0
    BY <1>1, <2>1, <2>3 DEF Counter
  <2> QED
    BY <2>1, <2>3, <2>4
<1>3. NoPages \in Caches /\ DOMAIN NoPages = {}
  <2>1. NoPages \in [{} -> 0 .. MaxTxn] /\ {} \in SUBSET Page
    BY DEF NoPages
  <2> QED
    BY <2>1, CacheIntro
<1>4. LockInv
  BY InitLockInv DEF Init
<1>5. PagerTypes
  <2>1. journal \in [file : BOOLEAN, valid : BOOLEAN, orig : Files]
    BY NoFile DEF Init, Absent
  <2>2. pc \in [Conn -> Places] /\ eState \in [Conn -> {"OPEN", "READER"} \cup Writers]
    BY DEF Init, Places
  <2>3. cache \in [Conn -> Caches] /\ dbFileVers \in [Conn -> 0 .. MaxTxn]
    BY <1>3, ConnectionsAssumption DEF Init
  <2>4. mode \in Modes /\ committed \in Files /\ txns \in 0 .. MaxTxn /\ crashes \in 0 .. MaxCrash
    BY <1>2, ConnectionsAssumption DEF Init
  <2>5. heldShared \in [Conn -> BOOLEAN] /\ jfd \in [Conn -> BOOLEAN] /\ todo \in [Conn -> SUBSET Page]
    BY DEF Init
  <2> QED
    BY <1>2, <2>1, <2>2, <2>3, <2>4, <2>5 DEF PagerTypes
<1>6. FilesInv
  <2>1. ~journal.valid /\ journal.orig = <<>> /\ committed = db /\ txns = 0
    BY DEF Init, Absent
  <2> QED
    BY <1>2, <2>1 DEF FilesInv, FilesHoldCommitted
<1>7. ASSUME NEW c \in Conn PROVE ConnInv(c)
  <2>1. /\ pc[c] = "idle" /\ eState[c] = "OPEN" /\ cache[c] = NoPages /\ dbFileVers[c] = 0
        /\ ~heldShared[c] /\ txns = 0 /\ db = committed
    BY <1>7 DEF Init
  <2>2. at[c] = "none" /\ locktype[c] = NO_LOCK /\ held["RESERVED"][c] = "free"
    BY <1>7 DEF Init, LockInit, Ranges
  <2>3. ReservedInv(c)
    BY <2>1, <2>2 DEF ReservedInv
  <2>4. PlaceInv(c)
    BY <2>1, <2>2 DEF PlaceInv, OpenLocks, Playback, Writers
  <2>5. FileView(c)
    BY <2>1 DEF FileView, Live
  <2>6. CacheView(c)
    BY <1>3, <2>1 DEF CacheView, Restored, Live
  <2>7. WriteView(c)
    BY <2>1 DEF WriteView, Writing, Live
  <2> QED
    BY <2>3, <2>4, <2>5, <2>6, <2>7 DEF ConnInv
<1> QED
  BY <1>4, <1>5, <1>6, <1>7 DEF IInv

LEMMA StutterKeeps ==
    ASSUME IInv, UNCHANGED vars
    PROVE  Kept
<1>1. PagerTypes'
  BY DEF IInv, PagerTypes, vars, fileVars, pagerVars, boundVars
<1>2. FilesInv'
  BY DEF IInv, FilesInv, FilesHoldCommitted, Counter, vars, fileVars, boundVars
<1>3. ASSUME NEW e \in Conn PROVE ConnInv(e)'
  <2>1. PrivateSame(e)
    BY DEF vars, lockVars, pagerVars, PrivateSame, PagerSame, LockSame
  <2>2. db' = db /\ committed' = committed /\ JournalLeft(e)
    BY DEF vars, fileVars, JournalLeft
  <2>3. txns' = txns /\ txns \in Nat
    BY ConnectionsAssumption DEF vars, boundVars, IInv, PagerTypes
  <2>4. txns' \in Nat /\ txns <= txns'
    BY <2>3
  <2> QED
    BY <2>1, <2>2, <2>4, OthersStay
<1> QED
  BY <1>1, <1>2, <1>3 DEF Kept

LEMMA NextKeeps ==
    ASSUME Recycled, IInv, [Next]_vars
    PROVE  IInv'
<1>1. LockInv'
  BY NextUsesLocks, LockNextKeeps DEF IInv
<1>2. Kept
  <2>1. CASE UNCHANGED vars
    BY <2>1, StutterKeeps
  <2>2. ASSUME NEW c \in Conn, PagerStep(c) PROVE Kept
    BY <2>2, SharedGrantedKeeps, HotAccessKeeps, HotCheckKeeps, HotCountKeeps, HotCleanKeeps,
       HotLockedKeeps, HotOpenKeeps, VersionCheckKeeps, PlaybackHeaderKeeps, PlaybackRecordKeeps,
       FinalizeKeeps, EndTransactionKeeps, BeginReservedKeeps, WriteKeeps, ExclusiveGrantedKeeps,
       WritePageKeeps DEF PagerStep
  <2>3. ASSUME NEW c \in Conn, PagerCall(c) PROVE Kept
    BY <2>3, SharedLockKeeps, GetKeeps, BeginKeeps, OpenJournalKeeps, StressKeeps,
       CommitPhaseOneKeeps, CommitPhaseTwoKeeps DEF PagerCall
  <2>4. ASSUME NEW c \in Conn, SystemCall(c) \/ pager_unlock(c) \/ Crash(c) PROVE Kept
    BY <2>4, SystemCallKeeps, UnlockKeeps, CrashKeeps
  <2> QED
    BY <2>1, <2>2, <2>3, <2>4 DEF Next
<1> QED
  BY <1>1, <1>2 DEF Kept, IInv

LEMMA InvariantHolds == Recycled /\ Spec => []IInv
<1>1. Recycled /\ IInv /\ [Next]_vars => IInv'
  BY NextKeeps
<1>2. Recycled => [](Recycled)
  <2>1. Recycled => Recycled'
    BY DEF Recycled
  <2> QED
    BY <2>1, PTL
<1> QED
  BY <1>1, <1>2, InitIInv, PTL DEF Spec

-----------------------------------------------------------------------------
(* What it means for the program *)

\* The locks, the places in a call, the files and the caches stay within their
\* types: no page number above 2 is written, no content or counter above the number
\* of write transactions (pager_write, pager_incr_changecounter).
THEOREM ConnectionsTypes == Recycled /\ Spec => []TypeOK
<1>1. IInv => TypeOK
  <2>1. ASSUME PagerTypes, NEW c \in Conn PROVE \E S \in SUBSET Page : cache[c] \in [S -> 0 .. MaxTxn]
    <3>1. cache[c] \in Caches
      BY <2>1 DEF PagerTypes
    <3> QED
      BY <3>1 DEF Caches
  <2> QED
    BY <2>1 DEF IInv, LockInv, PagerTypes, TypeOK, Files
<1> QED
  BY <1>1, InvariantHolds, PTL

\* A connection that has finished sqlite3PagerSharedLock and reads finds the last
\* commit in the database file and in its cache, however many connections read,
\* commit, fail to commit, crash and roll back hot journals meanwhile.
THEOREM ReadersAreConsistent == Recycled /\ Spec => []ReadersSeeCommitted
<1>1. IInv => ReadersSeeCommitted
  <2> SUFFICES ASSUME IInv, NEW c \in Conn, eState[c] \in {"READER", "LOCKED"}
               PROVE  /\ db = committed
                      /\ \A p \in DOMAIN cache[c] : cache[c][p] = Content(committed, p)
    BY DEF ReadersSeeCommitted
  <2>1. FileView(c) /\ CacheView(c)
    BY DEF IInv, ConnInv
  <2>2. db = committed
    BY <2>1 DEF FileView, Trusts
  <2>3. Matches(c)
    BY <2>1 DEF CacheView
  <2> QED
    BY <2>2, <2>3 DEF Matches
<1> QED
  BY <1>1, InvariantHolds, PTL

\* The files alone give back the last commit at any moment, so the next connection
\* finds it after any number of crashes (hasHotJournal, pager_playback).
THEOREM CommitsSurvive == Recycled /\ Spec => []FilesHoldCommitted
<1>1. IInv => FilesHoldCommitted
  BY DEF IInv, FilesInv
<1> QED
  BY <1>1, InvariantHolds, PTL

\* No other connection takes the journal of a transaction in progress for a hot
\* one or for a remnant (the race hasHotJournal comments on).
THEOREM JournalsAreKept == Recycled /\ Spec => []LiveJournalKept
<1>1. IInv => LiveJournalKept
  <2> SUFFICES ASSUME IInv, NEW c \in Conn, eState[c] \in Live, pc[c] # "ended"
               PROVE  journal.valid
    BY DEF LiveJournalKept, Live
  <2>1. FileView(c)
    BY DEF IInv, ConnInv
  <2> QED
    BY <2>1 DEF FileView
<1> QED
  BY <1>1, InvariantHolds, PTL

\* Nothing but the end of the journal commits, and what it commits has a larger
\* change counter than the commit before it (pager_incr_changecounter), by which
\* every other connection knows that its cache is stale.
THEOREM CountersGrow == Recycled /\ Spec => CounterGrows
<1>1. IInv /\ [Next]_vars => [Counter(committed') > Counter(committed)]_committed
  <2> SUFFICES ASSUME IInv, [Next]_vars, committed' # committed
               PROVE  Counter(committed') > Counter(committed)
    OBVIOUS
  <2>1. \E c \in Conn : FinalizeJournal(c)
    <3>1. ~UNCHANGED vars
      BY DEF vars, fileVars
    <3>2. ASSUME NEW c \in Conn, PagerStep(c) PROVE FinalizeJournal(c)
      BY <3>2 DEF PagerStep, SharedGranted, HotAccess, HotCheck, HotCount, HotClean, HotLocked,
         HotOpen, VersionCheck, PlaybackHeader, PlaybackRecord, EndTransaction, BeginReserved,
         pager_write, ExclusiveGranted, WritePage, QuietBut, fileVars
    <3>3. ASSUME NEW c \in Conn PROVE ~PagerCall(c)
      BY <3>3 DEF PagerCall, sqlite3PagerSharedLock, sqlite3PagerGet, sqlite3PagerBegin,
         pager_open_journal, pagerStress, sqlite3PagerCommitPhaseOne, sqlite3PagerCommitPhaseTwo,
         sqlite3PagerRollback, QuietBut, fileVars
    <3>4. ASSUME NEW c \in Conn PROVE ~(SystemCall(c) \/ pager_unlock(c) \/ Crash(c))
      BY <3>4 DEF SystemCall, pager_unlock, Crash, QuietBut, fileVars
    <3> QED
      BY <3>1, <3>2, <3>3, <3>4 DEF Next
  <2>2. PICK c \in Conn : FinalizeJournal(c)
    BY <2>1
  <2>3. Counter(committed)' > Counter(committed)
    BY <2>2, FinalizeKeeps
  <2> QED
    BY <2>3 DEF Counter
<1> QED
  BY <1>1, InvariantHolds, PTL DEF Spec, CounterGrows
=============================================================================
