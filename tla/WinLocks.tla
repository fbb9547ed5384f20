------------------------------ MODULE WinLocks ------------------------------
(***************************************************************************)
(* The five file locks of the Windows VFS (os_win.c): winLock,             *)
(* winCheckReservedLock and winUnlock build NO, SHARED, RESERVED, PENDING  *)
(* and EXCLUSIVE from three byte ranges of the database file.  Every call  *)
(* of LockFileEx and UnlockFile is a step of its own: between two of them  *)
(* any other connection may run.                                           *)
(***************************************************************************)
EXTENDS Naturals

CONSTANT Conn           \* the file handles open on the database file

NO_LOCK        == 0
SHARED_LOCK    == 1
RESERVED_LOCK  == 2
PENDING_LOCK   == 3
EXCLUSIVE_LOCK == 4

\* PENDING_BYTE, RESERVED_BYTE and the SHARED_SIZE bytes at SHARED_FIRST.
Ranges == {"PENDING", "RESERVED", "SHARED"}

Holds == {"free", "shared", "exclusive"}

VARIABLES
    held,       \* the lock each handle has on each range, as the system keeps it
    locktype,   \* winFile.locktype of each handle
    at,         \* the system call a handle is about to make, "none" between calls
    want,       \* the lock level asked for by the VFS call in progress
    res         \* what the last VFS call returned: of winLock, TRUE for SQLITE_OK;
                \* of winCheckReservedLock, *pResOut

lockVars == <<held, locktype, at, want, res>>

\* The calls of winLock, of winCheckReservedLock and of winUnlock, in this order.
Steps == {"none", "pending", "read", "unpend", "reserve", "unread", "range", "reread",
          "peek", "unpeek",
          "unrange", "regain", "unreserve", "release", "unpending"}

LockTypeOK ==
    /\ held \in [Ranges -> [Conn -> Holds]]
    /\ locktype \in [Conn -> NO_LOCK .. EXCLUSIVE_LOCK]
    /\ at \in [Conn -> Steps]
    /\ want \in [Conn -> NO_LOCK .. EXCLUSIVE_LOCK]
    /\ res \in [Conn -> BOOLEAN]

LockInit ==
    /\ held = [r \in Ranges |-> [c \in Conn |-> "free"]]
    /\ locktype = [c \in Conn |-> NO_LOCK]
    /\ at = [c \in Conn |-> "none"]
    /\ want = [c \in Conn |-> NO_LOCK]
    /\ res = [c \in Conn |-> FALSE]

-----------------------------------------------------------------------------
\* LockFileEx with LOCKFILE_FAIL_IMMEDIATELY: a shared lock is granted beside
\* shared locks, an exclusive one only on a range nobody has locked.
Free(r, hold) ==
    \A d \in Conn : IF hold = "shared" THEN held[r][d] # "exclusive" ELSE held[r][d] = "free"

\* The handle's lock on r becomes hold; UnlockFile of a range that is not
\* locked fails and changes nothing, and its result is ignored.
SetHeld(c, r, hold) == held' = [held EXCEPT ![r][c] = hold]

Go(c, step) == at' = [at EXCEPT ![c] = step]

\* A VFS call ends with the level `level` recorded and the result ok.
Return(c, level, ok) ==
    /\ at' = [at EXCEPT ![c] = "none"]
    /\ locktype' = [locktype EXCEPT ![c] = level]
    /\ res' = [res EXCEPT ![c] = ok]

-----------------------------------------------------------------------------
(* winLock *)

\* Without the PENDING byte a new reader could slip in beside a waiting writer.
MutantWinLock(c, level) ==
    /\ at[c] = "none"
    /\ level \in {SHARED_LOCK, RESERVED_LOCK, EXCLUSIVE_LOCK}
    /\ \/ locktype[c] >= level
       \/ /\ locktype[c] = NO_LOCK => level = SHARED_LOCK
          /\ level = RESERVED_LOCK => locktype[c] = SHARED_LOCK
    /\ want' = [want EXCEPT ![c] = level]
    /\ IF locktype[c] >= level
       THEN /\ res' = [res EXCEPT ![c] = TRUE]
            /\ UNCHANGED at
       ELSE /\ Go(c, CASE level = RESERVED_LOCK -> "reserve"
                       [] locktype[c] = PENDING_LOCK -> "unread"
                       [] level = SHARED_LOCK -> "read"
                       [] OTHER -> "pending")
            /\ UNCHANGED res
    /\ UNCHANGED <<held, locktype>>

\* A lock at least as strong is held already: SQLITE_OK at once.  The
\* assertions on the order of locks are the guard: SHARED first, RESERVED from
\* SHARED only, PENDING never asked for.
winLock(c, level) ==
    /\ at[c] = "none"
    /\ level \in {SHARED_LOCK, RESERVED_LOCK, EXCLUSIVE_LOCK}
    /\ \/ locktype[c] >= level
       \/ /\ locktype[c] = NO_LOCK => level = SHARED_LOCK
          /\ level = RESERVED_LOCK => locktype[c] = SHARED_LOCK
    /\ want' = [want EXCEPT ![c] = level]
    /\ IF locktype[c] >= level
       THEN /\ res' = [res EXCEPT ![c] = TRUE]
            /\ UNCHANGED at
       ELSE /\ Go(c, CASE level = RESERVED_LOCK -> "reserve"
                       [] locktype[c] = PENDING_LOCK -> "unread"
                       [] OTHER -> "pending")
            /\ UNCHANGED res
    /\ UNCHANGED <<held, locktype>>

\* The PENDING byte, exclusively: briefly for a SHARED lock, to keep for an
\* EXCLUSIVE one.  A try that fails and is repeated changes nothing, so the
\* three tries are one: the last.
LockPending(c) ==
    /\ at[c] = "pending"
    /\ IF Free("PENDING", "exclusive")
       THEN /\ SetHeld(c, "PENDING", "exclusive")
            /\ Go(c, IF want[c] = SHARED_LOCK THEN "read" ELSE "unread")
            /\ UNCHANGED <<locktype, res>>
       ELSE /\ Return(c, locktype[c], FALSE)
            /\ UNCHANGED held
    /\ UNCHANGED want

\* winGetReadLock for a SHARED lock.
LockRead(c) ==
    /\ at[c] = "read"
    /\ Go(c, "unpend")
    /\ res' = [res EXCEPT ![c] = Free("SHARED", "shared")]
    /\ IF Free("SHARED", "shared")
       THEN SetHeld(c, "SHARED", "shared")
       ELSE UNCHANGED held
    /\ UNCHANGED <<locktype, want>>

\* The PENDING byte that was only needed on the way to SHARED is given back.
UnlockPendingAgain(c) ==
    /\ at[c] = "unpend"
    /\ SetHeld(c, "PENDING", "free")
    /\ Return(c, IF res[c] THEN SHARED_LOCK ELSE locktype[c], res[c])
    /\ UNCHANGED want

LockReserved(c) ==
    /\ at[c] = "reserve"
    /\ IF Free("RESERVED", "exclusive")
       THEN /\ SetHeld(c, "RESERVED", "exclusive")
            /\ Return(c, RESERVED_LOCK, TRUE)
       ELSE /\ Return(c, locktype[c], FALSE)
            /\ UNCHANGED held
    /\ UNCHANGED want

\* On the way to EXCLUSIVE the handle's own read lock has to go first.
UnlockRead(c) ==
    /\ at[c] = "unread"
    /\ SetHeld(c, "SHARED", "free")
    /\ Go(c, "range")
    /\ UNCHANGED <<locktype, want, res>>

\* The range is locked with SQLITE_LOCKFILEEX_FLAGS, the flags of a read lock.
MutantLockRange(c) ==
    /\ at[c] = "range"
    /\ IF Free("SHARED", "shared")
       THEN /\ SetHeld(c, "SHARED", "shared")
            /\ Return(c, EXCLUSIVE_LOCK, TRUE)
       ELSE /\ Go(c, "reread")
            /\ UNCHANGED <<held, locktype, res>>
    /\ UNCHANGED want

LockRange(c) ==
    /\ at[c] = "range"
    /\ IF Free("SHARED", "exclusive")
       THEN /\ SetHeld(c, "SHARED", "exclusive")
            /\ Return(c, EXCLUSIVE_LOCK, TRUE)
       ELSE /\ Go(c, "reread")
            /\ UNCHANGED <<held, locktype, res>>
    /\ UNCHANGED want

\* The read lock that was given up for the EXCLUSIVE lock is not taken back.
MutantRelockRead(c) ==
    /\ at[c] = "reread"
    /\ Return(c, PENDING_LOCK, FALSE)
    /\ UNCHANGED <<held, want>>

\* A reader is still there: the read lock is taken back, without a look at the
\* result, and the call fails with the level PENDING.
RelockRead(c) ==
    /\ at[c] = "reread"
    /\ IF Free("SHARED", "shared")
       THEN SetHeld(c, "SHARED", "shared")
       ELSE UNCHANGED held
    /\ Return(c, PENDING_LOCK, FALSE)
    /\ UNCHANGED want

-----------------------------------------------------------------------------
(* winCheckReservedLock *)

winCheckReservedLock(c) ==
    /\ at[c] = "none"
    /\ IF locktype[c] >= RESERVED_LOCK
       THEN res' = [res EXCEPT ![c] = TRUE] /\ UNCHANGED at
       ELSE Go(c, "peek") /\ UNCHANGED res
    /\ UNCHANGED <<held, locktype, want>>

\* A shared lock on the RESERVED byte shows that nobody has it.
PeekReserved(c) ==
    /\ at[c] = "peek"
    /\ res' = [res EXCEPT ![c] = ~Free("RESERVED", "shared")]
    /\ IF Free("RESERVED", "shared")
       THEN SetHeld(c, "RESERVED", "shared") /\ Go(c, "unpeek")
       ELSE Go(c, "none") /\ UNCHANGED held
    /\ UNCHANGED <<locktype, want>>

UnpeekReserved(c) ==
    /\ at[c] = "unpeek"
    /\ SetHeld(c, "RESERVED", "free")
    /\ Go(c, "none")
    /\ UNCHANGED <<locktype, want, res>>

-----------------------------------------------------------------------------
(* winUnlock *)

\* Where winUnlock(level) goes on after the ranges above have been dealt with.
AfterReserve(c) == IF want[c] = NO_LOCK THEN "release"
                   ELSE IF locktype[c] >= PENDING_LOCK THEN "unpending" ELSE "none"
AfterRelease(c) == IF locktype[c] >= PENDING_LOCK THEN "unpending" ELSE "none"

\* locktype is lowered by the last system call that the level needs.
Lower(c, step) ==
    /\ Go(c, step)
    /\ locktype' = [locktype EXCEPT ![c] = IF step = "none" THEN want[c] ELSE @]

\* A level at or below the one asked for has nothing to give up: the value of
\* locktype is the only thing winUnlock writes, and the pager never asks to go up.
winUnlock(c, level) ==
    /\ at[c] = "none"
    /\ level \in {NO_LOCK, SHARED_LOCK}
    /\ level <= locktype[c]
    /\ want' = [want EXCEPT ![c] = level]
    /\ Go(c, CASE locktype[c] = EXCLUSIVE_LOCK -> "unrange"
               [] locktype[c] \in {RESERVED_LOCK, PENDING_LOCK} -> "unreserve"
               [] level = NO_LOCK /\ locktype[c] = SHARED_LOCK -> "release"
               [] OTHER -> "none")
    /\ UNCHANGED <<held, locktype, res>>

UnlockRange(c) ==
    /\ at[c] = "unrange"
    /\ SetHeld(c, "SHARED", "free")
    /\ Go(c, IF want[c] = SHARED_LOCK THEN "regain" ELSE "unreserve")
    /\ UNCHANGED <<locktype, want, res>>

\* winGetReadLock on the way down from EXCLUSIVE to SHARED.
RegainRead(c) ==
    /\ at[c] = "regain"
    /\ IF Free("SHARED", "shared")
       THEN SetHeld(c, "SHARED", "shared")
       ELSE UNCHANGED held
    /\ Go(c, "unreserve")
    /\ UNCHANGED <<locktype, want, res>>

UnlockReserved(c) ==
    /\ at[c] = "unreserve"
    /\ SetHeld(c, "RESERVED", "free")
    /\ Lower(c, AfterReserve(c))
    /\ UNCHANGED <<want, res>>

ReleaseRead(c) ==
    /\ at[c] = "release"
    /\ SetHeld(c, "SHARED", "free")
    /\ Lower(c, AfterRelease(c))
    /\ UNCHANGED <<want, res>>

UnlockPending(c) ==
    /\ at[c] = "unpending"
    /\ SetHeld(c, "PENDING", "free")
    /\ Lower(c, "none")
    /\ UNCHANGED <<want, res>>

\* The process ends: the system closes the handle and drops its locks.
DropLocks(c) ==
    /\ held' = [r \in Ranges |-> [held[r] EXCEPT ![c] = "free"]]
    /\ locktype' = [locktype EXCEPT ![c] = NO_LOCK]
    /\ Go(c, "none")
    /\ UNCHANGED <<want, res>>

-----------------------------------------------------------------------------
\* The next system call of a VFS call in progress.
LockStep(c) ==
    \/ LockPending(c) \/ LockRead(c) \/ UnlockPendingAgain(c) \/ LockReserved(c)
    \/ UnlockRead(c) \/ LockRange(c) \/ RelockRead(c)
    \/ PeekReserved(c) \/ UnpeekReserved(c)
    \/ UnlockRange(c) \/ RegainRead(c) \/ UnlockReserved(c) \/ ReleaseRead(c) \/ UnlockPending(c)

\* The beginning of a VFS call, by whatever program uses the file.
LockCall(c) ==
    \/ \E level \in {SHARED_LOCK, RESERVED_LOCK, EXCLUSIVE_LOCK} : winLock(c, level)
    \/ winCheckReservedLock(c)
    \/ \E level \in {NO_LOCK, SHARED_LOCK} : winUnlock(c, level)

LockNext == \E c \in Conn : LockStep(c) \/ LockCall(c) \/ DropLocks(c)

LockSpec == LockInit /\ [][LockNext]_lockVars
-----------------------------------------------------------------------------
\* Nobody has any lock beside the handle whose level is EXCLUSIVE.  winLock
\* drops its own read lock before it locks the range, and takes a new reader's
\* read lock before it gives the PENDING byte back.
Exclusion ==
    \A c, d \in Conn : c # d /\ locktype[c] = EXCLUSIVE_LOCK => locktype[d] = NO_LOCK

\* At most one handle between two calls has the level RESERVED, although others
\* may look at the byte.
OneReserved ==
    LET Owner(c) == at[c] = "none" /\ locktype[c] = RESERVED_LOCK
    IN  \A c, d \in Conn : Owner(c) /\ Owner(d) => c = d

\* A handle whose level is SHARED or more, and that is not between two system
\* calls, really has its lock on the shared range: the read lock that winLock
\* takes back without a look at the result, and the one of winUnlock ("This
\* should never happen. We should always be able to reacquire the read lock"),
\* can always be taken.
LevelIsHeld ==
    \A c \in Conn :
        /\ at[c] \in {"reread", "regain"} => Free("SHARED", "shared")
        /\ at[c] = "none" /\ locktype[c] \in SHARED_LOCK .. PENDING_LOCK
             => held["SHARED"][c] = "shared"
=============================================================================
