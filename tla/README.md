# A TLA+ model of sqlitefs

sqlitefs is to run SQLite on a block of storage without a file system.
`test/test_onefile.c` is the VFS that keeps a database and its rollback journal
in one blob of 10 MB; `tsrc/` is the SQLite library above it, built for Windows
(in the configuration Debug|Win32 with `SQLITE_DEBUG`, so that its assertions are
checked); `tsrc/win32io.c` is raw device access and `util/` a support library of
lists, logging and operating system wrappers. `sqlitefs.vcxproj` defines
`SQLITE_OMIT_WAL`, so that the rollback journal of `tsrc/pager.c` is what makes a
transaction atomic in this build; the write-ahead log is in `tsrc/wal.c` all the
same and is modelled as it stands there. There are no automated tests; the comments
and assertions of the code say what it is meant to do.

The VFS is in the middle of a rewrite. Its open and its read, `fs_open` and
`fs_read`, have been replaced by versions for a raw device, the other methods have
not, and the two halves do not fit together: `OneFile` models what is installed, and
with it no handle can be read, written or closed. The modules about the library
above are about any VFS that keeps the contract of SQLite, as the Windows VFS does.

The question of the project is the one that such a system stands or falls with:
does a transaction stay all or nothing, and does everyone see it whole, when the
power goes away, an I/O call fails, a process ends or another connection comes in
between, at any moment?

## Inventory

| Component | State | Operations | What is hard | Correct when | Modelled |
|---|---|---|---|---|---|
| One-file VFS, `test/test_onefile.c` | by handle a `mfs_sqlite_vfs_t` with a `sqvfs_rfile_t`, which the older methods take for a `fs_file` with a `fs_real_file`; the list `pFileList`, always empty; the device | fs_open, fs_read, fsClose, fsWrite, fsTruncate, fsSync, fsFileSize, fsDelete, fsAccess; locks are no-ops | two generations of methods on one handle, an open that fails half way | a handle is what every method takes it for, and counted | `OneFile` (partly) |
| Pager, `tsrc/pager.c` | `eState`, the page cache with its flags, three sizes of the database, offsets in the journal, savepoints | shared lock with recovery, get, begin, write, spill, two-phase commit, rollback, savepoints, change of mode, close | power loss and I/O errors at every call, the order of the syncs, remains of earlier transactions in the journal, savepoints over spilled pages | a reader finds the last committed image, whole; a commit that returned stays; a savepoint restores what was there | `Pager` (partly) |
| File locks, `tsrc/os_win.c` | byte ranges of the database file, `winFile.locktype` | winLock, winUnlock, winCheckReservedLock | each lock is several system calls, any other process runs in between | one writer, no reader beside an exclusive lock | `WinLocks` (partly) |
| Connections, `tsrc/pager.c` over the locks | change counter, cache, hot journal | shared lock, recovery, commit, rollback, close | two processes find one journal; a cache older than the file; a process that ends inside a commit | a reader sees a committed state, nobody touches the journal of a live transaction | `Connections` (partly) |
| Multi-file commit, `tsrc/vdbeaux.c`, `tsrc/pager.c` | super-journal, the journals that name it | vdbeCommit, writeMasterJournal, pager_delmaster | power loss between the commits of two files, or in the recovery of one | all files commit or none | `SuperJournal` (partly) |
| Online backup, `tsrc/backup.c` | `sqlite3_backup`, registered with the source pager | init, step, finish, update, restart | the source changes between two steps, under it or behind its back | the result is one committed state of the source | `Backup` (partly) |
| Shared cache, `tsrc/btree.c`, `tsrc/vdbe.c`, `tsrc/vdbeaux.c` | `BtShared` with table locks, `pWriter`, the PENDING and EXCLUSIVE flags; transaction state of each connection | begin, lock a table, halt a statement, commit, rollback | locks outlive statements but not transactions; the writer waits for readers | no dirty read, no starved writer | `SharedCache` (partly) |
| Write-ahead log, `tsrc/wal.c` | the log, the wal-index in shared memory, read marks, locks | read and write transactions, checkpoint, restart, recovery | nearly everything is shared and read without a lock | a reader keeps its snapshot, a commit is kept | `Wal` (partly) |
| Page cache, `tsrc/pcache.c`, `tsrc/pcache1.c` | pages, reference counts, dirty list, LRU list | fetch, release, make dirty or clean, truncate, recycle | recycling at the limit, a dirty page without its record synced | no page in use is recycled; the spill candidate is safe | as far as the pager sees it |
| B-tree pages, `tsrc/btree.c` | cells, free list, cursors | insert, delete, balance, vacuum | cursors over changes of others | the tree stays a tree | no |
| Sub-journal, `tsrc/memjournal.c`, `tsrc/pager.c` | the chunks or the temporary file, a read cursor, `nSubRec`, `iSubRec` of each savepoint | write a page, open, release and roll back a savepoint, spill, end | a write, an allocation or a spill that fails half way, a cursor into chunks that are gone | a rollback reads what was written since the savepoint | `SubJournal` (partly) |
| Bit vectors, allocators, `util/` | lists and tables | pure data structures | limits and off-by-ones | agree with a reference definition | no |
| SQL compiler and virtual machine | none that persists | | | | transaction control only |

The pager calls the VFS through `sqlite3_io_methods` and is called by the b-tree;
the page cache calls back into the pager (`pagerStress`) to spill a page; the pager
calls the backups registered with it (`sqlite3BackupUpdate`). The virtual machine
commits several files together by calling the two phases of each pager. The pager
keeps its sub-journal in a memjournal.c file, which opens a temporary file through the
VFS when it spills.

## Modules

| Module | What it is |
|---|---|
| `OneFile` | the one-file VFS as it is installed, one action per method |
| `Pager` | the rollback-journal pager of one connection, over two files |
| `SubJournal` | the sub-journal of the pager in memory and in a file |
| `RecordLog` | abstract specification of the sub-journal: a log with a mark for each savepoint |
| `WinLocks` | the file locks of Windows; `LockSpec` is the protocol as any sequence of legal calls |
| `Connections` | several pagers on one database, each step a system call; extends `WinLocks` and implements `LockSpec` |
| `SuperJournal` | a transaction over several database files |
| `Backup` | the online backup of a source that others change |
| `SharedCache` | connections that share a cache |
| `Wal` | the write-ahead log and its shared index |
| `SubJournalProofs`, `ConnectionsProofs`, `SuperJournalProofs`, `BackupProofs`, `SharedCacheProofs`, `WalProofs` | the TLAPS proofs about the module of that name; those about `WinLocks` are the first part of `ConnectionsProofs` |
| `PagerInvariant`, `PagerProofs` | the inductive invariant of `Pager` with the lemmas about files and types; its steps and the theorems |
| `MC...` | what TLC checks: one module per system, one `.cfg` per run |

`Pager` assumes two files and shows what the pager of one connection makes of them; it
takes the sub-journal for a sequence of records, and `SubJournal` shows that it is one. `Connections`, `SuperJournal`
and `Backup` take from `Pager` that one rollback journal works (a journal is either
valid with the original contents or it is not) and study what happens around it.

### OneFile

The methods are those of lines 184 and 203 to 213 of `test_onefile.c`. `fsOpen` and
`fsRead` in the same file are static, referenced by nothing and not modelled.

`fs_open` fills a `mfs_sqlite_vfs_t`, and `fs_read` uses it as such. The other methods
take the handle for an `fs_file`. Its `eType` lies where `fd` is, a Windows handle, which
is never `DATABASE_FILE` or `JOURNAL_FILE` (`isDatabase`). Its `pReal` lies, on x64,
where `real_file` is, and the fields of the two structures behind it coincide; on Win32
it lies where `etype` is, the address 1 or 2 (`pRealValid`). Nothing sets
the parent file (`sql_file`, `pFile`), raises the count (`sz_ref`, `nRef`) or adds to
`pFileList`. A call through the null pointer ends the program (`program = "fault"`), as
does the assertion of `fsClose` ("abort"). `size` and `last` are the first
block and the last word of the device; sizes are in blocks.

What follows for the program, all of it in the module:

- every read within the size, every write but one that finds the blob full, and every
  sync ends the program;
- a close ends it too: the count is 0 (`HandlesAreCounted`, run `onefile_close`);
- `fsFileSize` of a database returns the size of the journal region;
- `fsAccess` finds no file and no journal, so hasHotJournal would roll nothing back,
  and `fsDelete` writes nothing;
- an open that fails leaves `pMethods` set, against the assertion of sqlite3OsOpen
  (os.c 243), and frees nothing;
- a file without a name, as a sub-journal that is spilled or a temporary
  database has it, faults in `strlen` (line 331).

The device is left to `win32io.c`: `xread` and `xwrite` succeed or fail. A
volume that wants whole sectors refuses the read of 4 bytes at line 385, so
`fs_open` fails there always; and `xwrite_win32` (win32io.c 128) passes the offset where
WriteFile wants the length, so the write of a byte at line 376 reads 10 MB behind it.
Neither is modelled beyond the call that fails.

### Pager

The content of a page is the number of the transaction that wrote it. The journal
is a sequence of slots: headers (magic number, nRec, nonce of the checksum,
original size) and page records, which carry the nonce their checksum was computed
with; a record passes the checksum under a header with the same nonce. Offsets
count slots. The nonce is random in the code; here it is fresh for every header.

`db`/`jrnl` are the files as the program reads them, `dbDur`/`jrnlDur` what is on
the medium. A power loss keeps, for each page or slot in which the two differ,
the old content, the new one or garbage; it may undo the creation or the deletion
of the journal until the directory was synced. Garbage in a journal may look like
a page number that stops playback or one that is skipped.

A call of the pager is a sequence of steps (`call` says which call and where it
is): writes that no sync separates are one step, a sync starts another one, so
every order of a power loss and a sync is covered. Each step that writes,
truncates, deletes or syncs has a disjunct in which it fails (`Fails`), having
done nothing, part or all of its work. Reads do not fail.

Two history variables say what a reader may find: `outcomes` are the images that
the transactions so far allow, `lost` the older ones that a power loss may bring
back because the finalization of the journal has not been synced. A commit decides at the
finalization of its journal (`Decide`); a finalization that failed leaves both
images possible (`Undecided`) until the next reader settles it. An image is
compared with the start of the file: page 1 holds the size of the database, so
pages behind it are ignored.

Correspondence: `sqlite3PagerSharedLock` (with hasHotJournal), `sqlite3PagerGet`,
`sqlite3PagerBegin`, `sqlite3PagerWrite` (with pager_open_journal, pager_write and
the change the caller makes), `pagerStress`, `sqlite3PagerCommitPhaseOne` (with
sqlite3PagerTruncateImage and pager_incr_changecounter), `sqlite3PagerCommitPhaseTwo`,
`sqlite3PagerRollback`, `sqlite3PagerClose` and `pagerUnlockIfUnused` start a call;
syncJournal is `SyncJournalRecords`, `SyncJournalCount`, `SyncJournalHeader`;
pager_playback is `PlaybackHeader`, `PlaybackRecord`, `PlaybackSync`;
pager_end_transaction is `FinalizeJournal`, `SyncFinalized`, `TruncateAfterCommit`
with `EndTransaction`; pager_write_pagelist is `StressWrite` and `CommitWriteList`.
`dbFileSize` and `dbOrigSize` mean something in the WRITER states only.

A step that failed leaves the call "failed"; the caller then rolls back to a
savepoint, rolls back the transaction or closes. Savepoints keep the header offset,
where the records of the main and the sub-journal began
(`sqlite3PagerOpenSavepoint`); `sqlite3PagerWrite` copies a page to the sub-journal
when a savepoint still needs it; `RollbackSavepoint` is pagerPlaybackSavepoint, which
plays back the records of the main journal (`MainRecords`), then those of the
sub-journal, the first of each page. The field `image` of a savepoint is history: what
a rollback must restore.

pager_unlock leaves the journal of TRUNCATE and PERSIST open if the VFS cannot delete an
open file (SQLITE_IOCAP_UNDELETABLE_WHEN_OPEN, pager.c 1944). The VFS of this
program has no characteristics (`fsDeviceCharacteristics` returns 0,
`UndeletableWhenOpen`); the Windows VFS has it (os_win.c 3624), and the branches of
hasHotJournal for a journal that is already open (pager.c 5461 to 5515) are not modelled.

### SubJournal

The unit of offsets is the 4 bytes of a page number, so that a record is `1 + PageSize`
units. `sjfd` is the file: closed, in memory (a `MemJournal`) or a file of the VFS. The
chunks of a `MemJournal` are one sequence cut at the multiples of `nChunkSize`;
`readpoint` is the cursor that memjrnlRead keeps in the list. subjournalPage is two
actions, one for each write; a write may fail having written a part: to a file any part, to memory
what fits in the chunks before the one that cannot be allocated. A write that would grow
the file beyond `nSpill` moves it to a temporary file, or fails and leaves it in
memory. `pagerPlaybackSavepoint` reads the records from `iSubRec` on, one action each,
and may end early, when the main journal or the database fails. The pages are
chosen freely; which ones need a record is in `Pager`.

`RecordLog` is what `Pager` takes the sub-journal for: a log, a mark for each savepoint, and
rollbacks that are given what was appended since. `ImplementsLog` maps the records below `nSubRec`,
wherever they are, to the log.

`cutShort` is a history variable: a record was written to memory in part, and the
file is longer than `nSubRec` says. That happens when the second write of subjournalPage
fails. After a failed allocation (SQLITE_IOERR_NOMEM) the whole transaction is rolled back
(vdbeaux.c 2792), which closes the file. After a failed spill (SQLITE_FULL, SQLITE_CANTOPEN)
only the statement is (vdbeaux.c 2787, 2852). If the savepoint of the statement is the outermost
one, its release truncates the file. If a SAVEPOINT is open around it, the next record is
written at an offset that is not the end of the file: the assertion of memjournal.c 218 fails,
or, without assertions, the record goes to the end of the list and is read back from the
wrong place. `RetryFailed = FALSE` leaves this out, and the theorems say `~RetryFailed`;
with `TRUE` TLC finds `AssertionsHold` violated.

### WinLocks and Connections

A handle has a lock on each of three byte ranges; `at` is the `LockFileEx` or
`UnlockFile` call it is about to make. winLock for SHARED takes the PENDING byte,
the read lock and gives PENDING back; EXCLUSIVE
gives up the read lock before it asks for the range and takes it again when it
fails. A process that ends gives up everything (`DropLocks`).

`Connections` adds the pager of every handle: `pc` is the place in the call, and
each call of the VFS is one step or, for a lock, the steps of `WinLocks`. Page 1
holds the change counter, page 2 the data. The journal is absent, without a header
("zeroed", as PERSIST leaves it), or valid with the original pages. sqlite3PagerSharedLock
is followed through its hasHotJournal (test for the journal, for RESERVED, for the
size of the database, for the header), the EXCLUSIVE lock, the second look at the
journal, pager_playback, the finalization and the comparison of `dbFileVers`.

### SuperJournal

A database file is the set of transactions it holds, with a flag that it is half
written; its journal has the original set, and the transaction whose master journal
it names. `stage` follows sqlite3PagerCommitPhaseOne of each file (journal, master
name, sync, write, sync). vdbeCommit creates the master journal, lists the journals,
syncs it, runs phase one of every file, deletes the master journal with a directory
sync, and runs phase two. Recovery goes by file, each on its own, and
`pager_delmaster` deletes a master journal that no journal names any more. A power
loss keeps what was synced and any part of the rest.

### Backup

A page is the number of the transaction that last wrote it. Each of
sqlite3_backup_step and _finish is one step, since it holds the mutex of the source
connection; the pager of the source writes pages to its file one by one
(`PagerWritePage`, which calls `sqlite3BackupUpdate`), rolls back, and loses its cache
when another process has committed. The latter is `LockResults`, the shared lock of the
source: a counter that has changed, and a hot journal, whose playback calls pager_reset at its
first record (`PlaybackResets`, pager.c 3110), both end in `sqlite3BackupRestart`. A journal
without records restarts nothing. The step finds the source locked, in error, or shorter
or longer than the copy. A recovery that fails half way is not modelled; the step then
returns the error and the next one starts it again.

### SharedCache

Each sqlite3_step is one action: a reading statement starts, returns rows and ends in
steps of its own, a writing one starts and halts in one call, or waits after
SQLITE_BUSY or SQLITE_LOCKED. `cache` is the `BtShared` of all handles with the
transaction state of each; `dirty` the tables that the open write transaction has
changed.

### Wal

A page's content is the transaction that wrote it, and a frame's checksum is
abstracted to the frame before it and the salt, so that walking the log stops where
the checksum chain of the code breaks. `hdr`, `info` and the frames' pages are the
shared wal-index; `conn` is what each connection has read of it, and may be old.
Between the reading of the header, of a read mark and of the header again there are
steps of others (walTryBeginRead); the checkpoint reads each mark, copies each page
and sets `nBackfill` in steps of its own. A power loss keeps any of the frames that
were not synced and wipes the index; a process that ends leaves the index as it is.

## What is checked

Deadlock is checked in every run except that of `MCSuperJournal` (its transactions
come to an end).

| Run | Instance | Shows |
|---|---|---|
| `pager_delete` | DELETE and TRUNCATE with changes between them, FULL, an empty database that grows to 2 pages, 2 transactions, 1 error (also of the finalization), 1 power loss | `AtomicCommit`, `NoHotJournal`, `CacheCoherent`, `Recoverable`, and the liveness properties `CallEnds`, `Recovers` |
| `pager_modes` | DELETE and PERSIST with changes between them, EXTRA, 2 pages, the database may shrink, 2 transactions, 1 error, 1 power loss | `AtomicCommit`, `Recoverable`, `Durable` with remains of one mode under the code of another |
| `pager_savepoint` | DELETE, NORMAL and FULL, a database of 1 or 2 pages, of 2 at most, one transaction with 2 savepoints and 3 contents of a page, 1 error | `SavepointRestored`, `Recoverable` |
| `subjournal` | 2 pages, records of 3 units, chunks of 2 or 4, a sub-journal in memory, in a file, or spilled in its second record, 2 savepoints, 3 records, a failure at any write | `ImplementsLog`, `AssertionsHold`, `ReadpointInList` |
| `connections` | 2 connections, DELETE and PERSIST, an empty database, 2 transactions, 1 process that ends | `Exclusion`, `LevelIsHeld`, `ReadersSeeCommitted`, `FilesHoldCommitted`, `LiveJournalKept`, `CounterGrows`, and the liveness property `WriterGetsIn` |
| `super_journal` | 2 files, 2 transactions, 1 error, 2 power losses, symmetric in the files | `AllOrNone`, `NothingTorn`, `CommittedStays` |
| `backup` | a source of 0 or 3 pages, a destination of 2, 3 transactions, 1 error, 1 busy lock | `CopyTracksSource`, `DoneIsSnapshot`, and the liveness property `BackupEnds` |
| `shared_cache` | 3 connections, one reads uncommitted data, 2 tables, 2 statements in a transaction, 1 fault | `BtreeIntegrity`, `ReadersKeepLocks`, `NoDirtyRead`, and the liveness property `WriterNotStarved` |
| `wal` | 2 connections, 2 pages, 2 read marks, 3 frames, 2 transactions, 2 salts, 1 crash, synchronous=NORMAL, symmetric in the connections | `SnapshotHeld`, `CommitsKept`, `SyncedKept` |

The properties:

- `AtomicCommit`: a reader finds an image that the transactions so far allow, whole.
- `Recoverable`: in every state of every call there is such an image of which each
  page is in the file and on the medium, or in a synced segment of the journal.
  This is write-ahead logging as an invariant; it is stronger than `AtomicCommit`
  in that it speaks of all states and needs no power loss to be violated.
- `NoHotJournal`: a reader has no hot journal beside its database.
- `CacheCoherent`: a clean page of the cache is the page of the file.
- `Durable`: when a commit has returned, no older image can come back.
- `SavepointRestored`: a rollback to a savepoint restores every page to what it was
  when the savepoint was opened.
- `ImplementsLog`: every behaviour of `SubJournal` is one of `RecordLog`;
  `AssertionsHold`: memjournal.c is written at its end only and not read beyond it;
  `ReadpointInList`: its cursor is in the list, at the chunk of its offset.
- `CallEnds`, `Recovers`: every call returns; from OPEN and ERROR the pager becomes
  READER again.
- `Exclusion`: one holder of EXCLUSIVE and no reader beside it, one of RESERVED.
  `LevelIsHeld`: a handle with a level has its read lock, also where winLock and
  winUnlock take it back without being able to fail.
- `ReadersSeeCommitted`: what a connection reads is a committed state, whole, also
  when it comes from a cache that outlived its lock. `FilesHoldCommitted`: the
  files, with the journal played back if it is hot, are the last committed state.
- `LiveJournalKept`: nobody plays back, truncates or deletes the journal of a
  transaction that is still alive. `CounterGrows`: a commit never repeats a change
  counter, on which every other cache relies.
- `WriterGetsIn`: a writer that waits for EXCLUSIVE gets it, or gives up, since
  PENDING keeps new readers out.
- `AllOrNone`: the files that can be read hold the same side of a transaction;
  `NothingTorn`: a half-written file has a journal that rolls it back;
  `CommittedStays`: after the deletion of the master journal no file goes back.
- `CopyTracksSource`: what the backup has copied is what the source holds;
  `DoneIsSnapshot`: a backup that reports SQLITE_DONE leaves a committed state of the
  source; `BackupEnds`: repeated steps come to an end once the writers do.
- `BtreeIntegrity`: the counters and flags of `BtShared` match its connections
  (the code's own btreeIntegrity and more); `ReadersKeepLocks`: a running statement
  has its table lock; `NoDirtyRead`: no statement reads a table another connection has
  changed and not committed, unless it reads uncommitted; `WriterNotStarved`: a writer
  that has set the PENDING flag finds the other transactions ended.
- `SnapshotHeld`: what a reader finds, page by page in the log or the database, is
  the database as of its header; `CommitsKept`: the log and the database together
  hold the last commit; `SyncedKept`: a power loss leaves at least the last commit
  that was synced.

Bounds. Two pages are enough for a transaction to be half done; two transactions
for remains of the first to meet the second; one error and one power loss hit every step of every call, and a power
loss during the recovery from an error is included. `super_journal` has two power
losses, so that a recovery is itself interrupted. Two connections suffice for each
race of `Connections`, since a third has no lock that one of the two could not hold
for it; that is proved for the locks. The backup copies three pages so that a change
falls before, at and behind `iNext`. In `subjournal` records and chunks have sizes
without a common divisor, so that records begin and end at every place of a chunk. Three handles of a shared cache are a writer, a
reader and one that reads uncommitted. In `wal` two read marks and two salts let the
log be copied, started again and read by an older reader, the least with which a frame
can be overwritten under someone. Each property of a passing run has a
mutant, an operator `Mutant...` in the module of the definition it replaces, under
which TLC finds the property violated within these bounds.

Fairness, in the liveness properties only. `Pager`: a call that has begun runs on (it
is sequential code); the last page reference is dropped after an error (the ERROR
state ends that way, pager.c 299-306); somebody wants to read. `Connections`: each
system call and each step of a call that has begun is made, and a reader ends its
transaction; nothing makes a connection begin one. `Backup`: its owner goes on calling
sqlite3_backup_step, an open transaction of the source ends, and the ERROR state is
left. `SharedCache`: a statement that returns rows is stepped to its end or reset, and
a transaction that is not the writer's ends. Errors, power losses and crashes are
bounded by constants and need no fairness.

Runs that end in a violation document a disagreement of the code with its own
comments or assertions:

| Run | Disagreement |
|---|---|
| `onefile_close` | `fs_open` counts no reference and `fsClose`, which asserts that one was counted, takes one away; the trace is an open, successful or not, and a close |
| `pager_stale_header` | PERSIST, records that end at a sector boundary (`AlignedEnd`): a rollback after the first phase of a commit reads the header of an earlier transaction that syncJournal has made invalid, because readJournalHdr does not compare the magic number at `journalHdr` |
| `wal_reset` | a passive checkpoint works from a header it read before the log was started again (`ResetRace`), and records frames as copied that the log does not have yet |

Other differences met while modelling have no run:

- those of the one-file VFS listed under OneFile above;
- a record of the sub-journal that was cut short (`RetryFailed`), under SubJournal above;
- DELETE with FULL, a commit that shrinks the database (`AutoVacuum = "always"`): the
  file is truncated while a power loss can still bring the journal back, since the
  directory is not synced (pager.c 2250). EXTRA does not have this.
- PERSIST (`FinalizeFails = {"PERSIST"}`): a header that was zeroed but not durably,
  because the sync after it failed, and a journal that is used again can be mixed by
  a power loss (pager.c 2179).
- NORMAL with TRUNCATE or PERSIST: the header with its count and the records are
  synced together, over the remains of an earlier journal, and a power loss before that
  sync can mix the two into one that is rolled back in part. This is what the comment at
  pager.c 3843 admits of NORMAL. TLC finds it with 2 pages and 2 transactions; with
  DELETE, whose journal is a new file, it does not.
- pager_write marks a page dirty (pager.c 6494) before it journals it (6508). When that
  fails with SQLITE_FULL and only the statement is rolled back (vdbeaux.c 2786), the
  transaction goes on with a dirty page that no journal has. Its content is the original
  one, but it is written to the file all the same, and when that write fails or is torn
  nothing restores the page: against invariant (1) of pager.c 49. It takes a savepoint
  and two errors: with `MaxSavepoint = 1`, `MaxFault = 2`, DELETE and FULL, TLC finds
  `Recoverable` violated after 10 steps; the runs allow one error, and there it holds.
- An empty database whose zero page stays in the cache (`ZeroPageCached`): a first
  transaction that got through part of its commit and was rolled back leaves counter 1
  in `dbFileVers`; when another connection then creates the database, also with counter
  1, the cached page is taken for current.

Those of the library are behind constants, and the passing runs set `AlignedEnd = FALSE`,
`AutoVacuum` to "never", or with EXTRA "durable", `FinalizeFails` to DELETE at most,
`ZeroPageCached = FALSE`, `ResetRace = FALSE` and `RetryFailed = FALSE`, and NORMAL with
DELETE only.

## What is proved

All for every value of the constants that satisfies the assumption of the module.

`SubJournalProofs`, for any records, sizes of page and chunk, and values of `nSpill`, under
`~RetryFailed`:

- `Refinement`: `Spec => ImplementsLog`;
- `Assertions`, `Readpoint`: `Spec => []` of `AssertionsHold` and `ReadpointInList`.

The inductive invariant is `TypeOK`, with `RecordsHeld` (the file has a whole record
for each number below `nSubRec`; in memory, if nothing was cut short, it ends there, or after the page
number while a record is being written), `MarksHeld` (no savepoint began
behind `nSubRec`, nor does a rollback read behind it), `ReadpointInList` and
`AssertionsHold`. The first part of the module is about the file: what a write
leaves alone, what a read returns wherever chunks end and whatever the cursor is; then
each action is a step of the log or a stutter.

`PagerProofs`, for any number of pages, transactions, savepoints, errors and power losses, for
every set of journal modes and every change of mode and of level between transactions:

- `PagerTypeOK`: `Spec => []TypeOK`, for all values of the constants;
- `SavepointsAreRestored`: `Spec /\ []AtomicCommit => []SavepointRestored`, and
  `OpenSavepointsAreRestored`, the part of it that needs no hypothesis: while a
  savepoint is open, its rollback gives back the image it was opened on;
- `TransactionsAreAtomic`, `ReadersHaveNoHotJournal`, `CacheIsCoherent`,
  `WriteAheadLogging`: under `Protected`, `Spec /\ SavepointsAreLogged => []` of
  `AtomicCommit`, `NoHotJournal`, `CacheCoherent` and `Recoverable`;
- `CommitsAreDurable`: under `Synced`, `Spec => []Durable`.

`Protected` names the settings of which the last group is true. The run `pager_modes`
is an instance of it. `~AlignedEnd`, `FinalizeFails \subseteq {"DELETE"}` and
`AutoVacuum # "always"` exclude the differences listed above, under which the pager is
not atomic; so does `"NORMAL" \notin Levels`, which also leaves out NORMAL with DELETE.
The run `pager_savepoint` has NORMAL with DELETE. `0 \notin InitSizes` excludes a database
without pages: when its first transaction is rolled back and the sync of the truncation
fails, hasHotJournal deletes the journal beside the empty file (pager.c 5511) and a power loss
may bring page 1 back. `AtomicCommit` accepts this, since every file is an image of a
database without pages, but the invariant does not; the run `pager_delete` begins with
such a database.

`SavepointsAreLogged` is for the page that is dirty and in no journal (pager.c 6508, above):
either there are no savepoints, or no I/O call fails, or `[]DirtyLogged`, no rollback of
a statement leaves such a page. Power losses are not restricted by it, nor are the errors
of spills, commits, rollbacks and recoveries, nor that of a write which is answered with the rollback of
the transaction. What is left to TLC is a statement that failed to journal a page and
was rolled back alone: `pager_savepoint` has it, with one error, where it does no harm.

`Recoverable` is not inductive: it says of a moment what the files hold, not what the
call in progress will do to them next. The invariant `Types /\ Consistent` says that
there is one original image O, the database as the transaction found it, and that the
connection is in one of eleven phases (`PhaseOpen`, `PhaseReader`, `PhaseLocked`, `PhaseWrite`,
`PhaseFinished`, `PhaseBack`, `PhaseWriteClose`, `PhaseHot`, `PhaseFinalize`, `PhaseDecided`,
`PhaseError`), each of which says where the pages of O are.
While nothing is synced in the journal they are all in the file and on the medium;
then the segments up to `journalHdr` keep those that are not (`Guards`, `Keeps`);
in a segment that is not synced yet nothing may be relied upon, but nothing in it
is wrong either (`Own`, `LastSegment`). A record of an earlier transaction can follow
the segments, as PERSIST leaves them: it must not be taken for one of this
transaction, which is the nonce, nor a header for the next one, which is `Ends`.
During a playback the records that are still to be read cover the pages that are not
original yet (`PlaysBack`, `PlaysHot`). `lost` and `outcomes` say which O it may be,
and when the finalization of a journal failed there are two. That every part of
playback keeps `Consistent` rests on lemmas about arbitrary files (first part of
`PagerInvariant`): which image a journal restores does not depend on how much of the
database was overwritten (`Covered`), nor on what a power loss kept of either
file. TLC checked the invariant on 352 530 states of an instance with all three
journal modes before it was proved.

The savepoints have an invariant of their own, `Types /\ Preserving(c)` (third part of
`PagerInvariant`). It says how the two journals have the pages of an image: for B,
the database as the transaction found it, and for the image of each savepoint, the first record of
a page at or behind the place where the savepoint begins, in the journal first and in the
sub-journal then, has the content the page had; a page without one is unchanged since, in
the cache or in the file; and `inSavepoint` says which pages have one (`Preserved`,
`Keeping`). The image of an inner savepoint lies behind that of an outer one
(`Nested`). It needs nothing from recovery or from the medium, since all of this is
read while the journal is open, therefore the settings of `Protected` do not matter. When
the last savepoint is gone, `SavepointRestored` compares with what a reader may find
(`outcomes`); that B is among these is where `[]AtomicCommit` is used, once, at the
beginning of a transaction. `TransactionsAreAtomic` proves it under its hypotheses.

The two invariants meet in the rollback to a savepoint, which writes to the database file
in the middle of a transaction. `Consistent` survives it because of what `Preserving` says
of the records it plays back: one that goes to the file has its page in the synced part of the
journal (`WrittenIsRecorded`), one that does not go there belongs to a page that is
dirty (`UnwrittenIsDirty`), so a clean page is still the page of the file
(`RollbackLeavesPages`); a write that fails or is torn garbles a page that is in the journal.
The invariant was again checked by TLC, with a savepoint, on 322 279 states first.

`Durable` needs none of this and holds with savepoints, sectors and any sizes: under
`Synced` (EXTRA, or else FULL without DELETE, and no error in a finalization) a
commit does not return with an image in `lost`, because each way to finalize ends
with a sync. FULL with DELETE does not sync the directory, and there a power loss may
undo a commit that has returned.

`ConnectionsProofs`, first part, for any set of connections: `LocksExclude`, that is
`LockSpec => []` of `Exclusion`, `LevelIsHeld` and the uniqueness of RESERVED.
Exclusion alone is not inductive, because between two system calls a handle holds
what its level does not say. `LockInv` adds what is granted on each range (`Granted`:
an exclusive lock is alone on it), what a call in progress holds (`InCall`), what each
level stands on (`HasRanges`), and `Alone`.

Second part, for any set of connections: `ConnectionsUseLocks`, every step of
`Connections` is a step of `LockSpec` or leaves the locks alone, which is that the pager
calls winLock and winUnlock only as their assertions allow; so `ConnectionsExclude`,
`Spec => []Exclusion`, and `LevelsAreHeld`, `Spec => []LevelIsHeld`, follow from
`LocksExclude`. What the locks are for is proved under the condition `Recycled`, that
the zero page of an empty database does not stay in a cache (without it the property
is wrong, see the last of the differences above):

- `ConnectionsTypes`, `ReadersAreConsistent`, `CommitsSurvive`, `JournalsAreKept`:
  `Spec => []` of `TypeOK`, `ReadersSeeCommitted`, `FilesHoldCommitted` and
  `LiveJournalKept`;
- `CountersGrow`: `Spec => CounterGrows`.

That a reader sees what was committed is far from inductive: it rests on the locks of
every place in every call, on what a connection knows of the files from the moment its
lock lets it know, and on what its cache kept while it had no lock. `IInv` has one part
for each: `LockInv`; `PagerTypes`; `FilesInv`, that the database, or else the journal
over it, holds what was committed; and for each connection what its RESERVED lock
stands for (`ReservedInv`), which locks and levels go with each place (`PlaceInv`),
what the files hold while it may look at them or has begun to write them (`FileView`),
why a kept cache with the counter of the file is current (`CacheView`), and how far the
new counter has got through cache, file and `dbFileVers` (`WriteView`). Each action has
a lemma. TLC checked `IInv` first, on 3.4 million states with two connections and
databases that are empty or not, and on 6.1 million with more crashes.

`SuperJournalProofs`, for any set of files and any number of transactions, errors and
power losses: `MultiFileAtomic`, `TornFilesRecover`, `CommittedForGood` and
`TypeCorrect`. `AllOrNone` speaks of readable files; what it rests on is, for each file
and each stage of the commit, which transactions the original in its journal may and
must hold and which master journal it names (`JournalInv`, with `Clean` and `Full`),
the same of a file that has no journal to roll it back (`FileInv`), how far a file of
the transaction has come at each step of vdbeCommit (`PartInv`), what a recovery has
already done (`RecInv`), and the state of the master journals (`TxnInv`).

`BackupProofs`, for databases of any size: `CopyStaysCurrent`, `BackupIsSnapshot` and
`TypeCorrect`. `CopyTracksSource` needs that the file and the image of a transaction
agree on what was not written (`SourceInv`), and that a backup which has begun is
registered with the pager unless it is to start again (`AttachInv`).

`SharedCacheProofs`, for any finite set of handles and any tables: `ReadsAreCommitted`,
`LocksKeptWhileReading`, `CacheIntegrity` and `TypeCorrect`. Each function of `btree.c`
is an operator from a cache to a cache, so there is one lemma per function: it keeps
`CacheInv`, leaves the locks of the other handles alone (`OthersStay`) and either keeps
those of its own (`LocksKept`) or ends the transaction. `CacheInv` adds to
`BtreeIntegrity` what gives the locks their meaning: a write lock is the only lock on
its table, a changed table is locked for writing, and a transaction holds its lock on
the schema. `StmtInv` ties the locks to the statements that run. That a statement keeps
its locks when another one of its connection ends the transaction rests on counting:
nVdbeRead is then more than one (lemma `MoreThanOne`), and the end is a downgrade.

`WalProofs`, for any number of connections, pages, read marks, frames, transactions,
salts and crashes, for both settings of `SyncCommit` and checkpoints of every mode:

- `SnapshotsAreHeld`, `CommitsAreKept`, `SyncedCommitsAreKept`, `BackfillStaysInLog`: under
  `~ResetRace`, `Spec => []` of `SnapshotHeld`, `CommitsKept`, `SyncedKept` and
  `BackfillInLog`;
- `WalTypeOK`: `Spec => []TypeOK`, also with `ResetRace`.

`~ResetRace` is the one restriction: the log does not start again between the moment a
passive checkpoint reads the header and the one it reads `nBackfill`. The code does not
exclude that, and then the properties are wrong, as the run `wal_reset` shows for
`BackfillInLog`; the theorems say that nothing else breaks them.

None of the four is inductive, because what a recovery makes of the log after a power
loss depends on frames that no header mentions any more. `IInv` therefore says that there
are three values: g, the salt of the log in the file, b, the transaction whose database is
under that log, and K, the frame up to which the log is on the medium. Whatever a
recovery with salt g may read, up to any commit frame, is a transaction over b (`LogOver`, with
`Seals`), and none older than the floor (`MediumInv`); it says this of every log that is
made of frames a power loss may leave, so that a power loss has nothing to choose that
was not considered. `HdrInv` ties the shared header to that log, or says that the log has
started again over a whole database. For each connection there is where it is and with
which locks (`PlaceInv`), which frames a writer has appended and that nobody else has any
of its transaction (`WriterInv`), what its read mark keeps in place (`ReaderInv`): a mark is at
most the end of the snapshot, and the pages without a frame in the snapshot are in the
database; and how far a checkpoint has come (`CkptInv`): it copies no frame behind the
snapshot of a reader whose mark it has passed, none that is not the last of its page, and
none that is not on the medium. Each action has a lemma; the longest are those of
`AppendFrame`, which extends the chain over frames of an older log, of `CkptCopy`, and of
`walIndexRecover`. TLC checked `IInv` first, on 2.9 million states with two connections, two
pages, two read marks and three frames, and on 4.3 million with one connection, three
transactions, three salts and two crashes.

Only model-checked: of `Pager`, the atomicity of transactions with level NORMAL, from an
empty database, or with a statement that failed to journal a page and was rolled back alone; `WriterNotStarved`; all
liveness (fairness and ENABLED are outside of what the prover handles). No module uses
recursive operators that a theorem would need induction over data for.

## Not modelled

Most of the source is unchanged SQLite above the b-tree: the compiler, the virtual
machine, the functions and virtual tables, the amalgamated headers, together more than
100 000 lines without persistent state of their own. Of the rest:

- `Pager`: locking mode EXCLUSIVE, journal modes MEMORY and OFF, sectors larger than
  a page, sqlite3PagerMovepage, mmap, errors of reads and of memory allocation.
- `Connections`: I/O errors and power loss together with several connections, a change
  counter that wraps, pages that are freed.
- `SuperJournal`: a name of a master journal that is used again, files in a mode
  without a journal, a directory sync that fails after the deletion took place.
- `Backup`: a recovery that fails inside a step, different page sizes, an in-memory source, several backups of one source,
  sqlite3BtreeCopyFile, the schema cookie.
- `SharedCache`: a writing statement that another connection interrupts, more than one
  table in a statement, the schema lock of the parser, `notify.c`.
- `Wal`: files that grow or shrink, a page rewritten within a transaction, savepoints,
  padding to sectors, closing the log, snapshots, read-only and heap memory, the
  exclusive mode.
- `OneFile`: the device behind xopen, xread and xwrite; the dead `fsOpen` and `fsRead`.
- `SubJournal`: the branches of SQLITE_ENABLE_ATOMIC_WRITE, a main journal in memory.
- `os_win.c` beyond its locks, `os_unix.c` (a second implementation of the same lock
  protocol, not part of the build), raw device access, allocators, `util/`.

`PROJECT.json` lists every component with its reason, and every hazard with the
properties that watch it or the reason why none does.

## Plan

1. The one-file VFS as its header comment describes it, once open, read and the other methods agree on one
   structure: two files in one blob as an abstract specification, and the question
   whether fsAccess finds every hot journal after a power loss.
2. The page cache: reference counts, the dirty list and its synced pointer, recycling
   at the limit of `pcache1.c`.
3. Data structures against reference definitions: bitvec.c, nlist.c, mem5.c.
4. `AtomicStore`, an abstract specification of a transactional store (begin, commit,
   abort, power loss), and `Pager` shown to implement it.
5. Proofs: `Pager` with one error in a statement that is rolled back alone, whose page
   keeps its original content; `Pager` at level NORMAL, which needs
   the checksum of a record, not its sync, as what a recovery relies on.
