# A TLA+ model of SQLite's transaction machinery

The repository (`src/`) holds SQLite 3.54 (`src/sqlite-master`) with trace
statements added to the pager, the WAL, the B-tree and the VDBE, and experiments
on crash recovery, journal modes and batching.  Its subject is how one write
transaction travels: VDBE opcodes, B-tree, pager, file locks, rollback journal
or write-ahead log, commit, and what a crash at any point leaves behind.  This
directory specifies that path in TLA+, checks it with TLC on small instances
and proves its most important parts with TLAPS.

## 1. Inventory

| part | source | state | operations | hard behaviour |
|---|---|---|---|---|
| file locks | `os_unix.c`, `os.h` | `unixFile.eFileLock`, `unixInodeInfo`, fcntl locks per process | `unixLock`, `posixUnlock`, `unixCheckReservedLock`, open, close | fcntl locks belong to processes and vanish with any close(); several system calls per level |
| pager, rollback journal | `pager.c` | `eState`, `eLock`, page cache, journal file, database file | `sqlite3PagerSharedLock`, `Begin`, `Write`, `pagerStress`, `CommitPhaseOne/Two`, `Rollback`, hot-journal playback | a crash between any two writes or syncs; the race for a hot journal; stale caches |
| savepoints | `pager.c`, `wal.c`, `btree.c` | `aSavepoint[]`, sub-journal, `pHasContent` | `sqlite3PagerOpenSavepoint`, `sqlite3PagerSavepoint` | nested rollback with two journals and page reuse |
| super-journal | `pager.c`, `vdbeaux.c` | one file naming several journals | `vdbeCommit`, `pager_delsuper` | a crash among several commits |
| write-ahead log | `wal.c` | frames, `WalIndexHdr` twice, read marks, checkpoint info, WAL locks | begin/end read, begin/end write, frames, checkpoint, restart, recovery | readers, a writer and a checkpointer without a common lock |
| WAL shared memory locks | `os_unix.c` | `unixShmNode.aLock[]` | `unixShmLock` | threads and processes together |
| shared-cache table locks | `btree.c`, `notify.c` | `BtShared.pLock`, `BTS_PENDING`, unlock-notify list | `querySharedCacheTableLock`, `setSharedCacheTableLock`, `sqlite3_unlock_notify` | writer starvation, deadlock detection, lost wake-ups |
| B-tree transactions | `btree.c` | `inTrans`, `inTransaction`, `nTransaction` | begin, commit phases, rollback, savepoint | a writer and readers over one pager |
| statement and autocommit logic | `vdbe.c`, `vdbeaux.c` | `autoCommit`, `nVdbeActive`, `nVdbeWrite`, savepoint stack | `OP_AutoCommit`, `OP_Savepoint`, `sqlite3VdbeHalt` | what a failing statement takes with it |
| online backup | `backup.c` | `iNext`, `bDestLocked` | `sqlite3_backup_step`, `sqlite3BackupUpdate`, `Restart` | the source changes between two steps |
| page cache | `pcache.c`, `pcache1.c` | dirty list, LRU, reference counts | fetch, release, make dirty/clean, truncate | recycling under pressure, sync order |
| bit vector, memory journal | `bitvec.c`, `memjournal.c` | hash / sub-vectors, chunks | set, test, clear; read, write, truncate | collisions and boundaries |

Everything else (SQL parser and code generator, FTS, R-Tree, JSON, shell,
Windows VFS, tests, tools, the Python experiments) is listed in `PROJECT.json`
as not modelled, with the reason.

The properties that make each part correct: **file locks** - no two connections
hold incompatible levels, no lock is lost or leaked, a waiting writer is not
starved; **pager** - a transaction is atomic whatever dies, isolated from
readers, durable once its journal is gone, and a roll-back restores what was
there; **savepoints** - a rolled-back savepoint restores the pages of its
start; **super-journal** - all files commit or none; **WAL** - a reader sees one
snapshot while writers append and a checkpoint copies, and no committed frame is
lost; **shared cache** - readers and writers of a table exclude each other, no
deadlock goes unnoticed; **autocommit** - a statement's failure takes exactly
its own changes or the transaction; **backup** - the copy is a state of the
source; **page cache** - no dirty page is dropped, none is written before its
journal record is synced; **bit vector, memory journal** - a set, a file.

How the parts interact: the VDBE calls the B-tree layer, which calls the pager
(`sqlite3PagerSharedLock`, `Begin`, `Write`, `CommitPhaseOne/Two`, `Rollback`);
the pager calls the VFS for locks and files, or the log (`wal.c`), the page
cache calls the pager back (`pagerStress`) when it is full, the pager tells the
online backups of its database what it writes (`sqlite3BackupUpdate`,
`Restart`), and the end of a statement (`sqlite3VdbeHalt`) ends the
transactions of all attached databases and tells the connections of a shared
cache that wait (`sqlite3ConnectionUnlocked`).  Processes meet only in the
files, their locks and the wal-index; connections of one process also in
`unixInodeInfo` and in shared caches.

## 2. Plan

| step | modules | abstract specification | theorems | state |
|---|---|---|---|---|
| 1 | `UnixLock` (fcntl protocol) | `DbLock` (lock levels) | invariant, compatibility, backing, exact probe, no leak, PENDING bars, refinement | done |
| 2 | `Pager`, composing the locks of `DbLock`; `PagerRecovery` (what its files mean) | `AtomicDb` | locks fit states, files change in one hand, types, synced commits are final | done; the refinement is checked |
| 3 | `Wal`, `WalRecovery` | `SnapshotDb` (committed snapshots) | types, locks exclude each other, readers keep their pages, a recovery finds what is published | done; the refinement is checked |
| 4 | `Savepoint` | `SavepointStack` (a stack of images) | a playback ends, the journals hold the pages of a savepoint | done; the refinement is checked |
| 5 | `SuperJournal` | all or nothing, as an invariant | all or nothing, final commits, where journals are deleted | done |
| 6 | `UnlockNotify`, `SharedCache` (locks, B-tree transactions, statements) | isolation, as an invariant | integrity, isolation, no starved writer, no forgotten or circular waiter | done |
| 7 | `OnlineBackup` | the copy is one image, as an action property | copied pages are current, the copy is an image | done |
| 8 | page cache, bit vector, memory journal, `unixShmLock` | a set, a file, shared and exclusive locks | | left, see section 5 |

## 3. Modules

### 3.1 `DbLock`, `UnixLock`, `UnixLockProofs`: file locks

`DbLock` states what `os.h` promises of the five lock levels: which of them two
connections may hold at once, and how a level may change.  `UnixLock` is
`os_unix.c`: per connection `unixFile.eFileLock` and where its call stands, per
process the `unixInodeInfo` (level, `nShared`, `nLock`, parked descriptors) and
the fcntl() locks the kernel keeps for it on the pending byte, the reserved byte
and the shared range.  A step is one fcntl() or close() call with the
bookkeeping around it.  Processes interleave between any two steps; connections
of one process exclude each other by `pLockMutex`, except in `unixClose`, which
leaves the mutex before it closes (constant `Threaded` names the processes that
use their connections from several threads).

| operation | actions |
|---|---|
| `unixLock(SHARED)` | `LockSharedInProcess`, or `LockShared`, `SharedRange`, `SharedDrop` |
| `unixLock(RESERVED)` | `LockReserved` |
| `unixLock(EXCLUSIVE)` | `LockPending`, `ExclusiveRange`, `LockExclusive` |
| `posixUnlock` | `Downgrade`, `DowngradeBytes`, `ReleaseBytes`, `Release` |
| `unixOpen`, `unixClose` | `Open`, `Close`, `CloseFd` |
| death of a process | `Crash` (the kernel drops its locks) |

| run | instance | what it shows |
|---|---|---|
| `unixlock` | 3 processes, one of them with 2 connections, no threads | levels compatible, every believed lock backed by the kernel, `unixCheckReservedLock` exact, nothing leaks, refinement of `DbLock`; a PENDING writer admits no new process, and gets on if it retries |
| `unixlock_close_race` | 2 processes of 2 and 1 connections, the first threaded | violation: `unixClose` loses a lock another thread took (finding) |

The smallest instance where both the kernel's rules between processes and the
counting inside one matter has a process with two handles and one with one; a
third process lets two readers overlap while a writer waits.  These runs do not
check deadlock: once everybody has been closed there may be nothing left to do.
Fairness: weak fairness of the steps inside a call, of a refused writer's retry
(the busy handler) and of the end of a reader's transaction.
`PendingWriterProceeds` is claimed only of a writer all of whose competitors are
processes with one connection: a process already at SHARED admits further
readers without a look at the pending byte (`os_unix.c:1957`), so that readers
of one process may overlap for ever, although `os.h:88` says of the PENDING
lock that no new SHARED lock is taken under it.

*Proved* in `UnixLockProofs`, for any processes and connections, assuming
`SerialClose` (no process is threaded; without it the first finding breaks
them): `IInv` is invariant, and implies `TypeOK`, `LocksCompatible`, `KernelBacksHandles`
and `ReservedProbeExact`; every step implements a step of `DbLock`.
`LocksCompatible` is not inductive: `IInv` adds that the counters of an inode
count the handles that hold a lock (`CountInv`), that one call at a time is
inside a process (`OneCallInv`), what each call knows between its system calls
(`CallInv`), how handles of one process stand to their inode (`InodeInv`), that
fcntl() locks of two processes are compatible (`KernelInv`), which of them back
a handle (`BackInv`), and that a reserved byte has an owner (`OwnerInv`).
`NothingLeaks` needs one more, `LeakInv`: what the kernel has for a process
without holders is what its call in progress has just taken, and descriptors
are parked only while there are locks.  `PendingBarsNewProcesses` follows from
`IInv` with `DoorInv`: whoever takes SHARED with system calls has the pending
byte from the first to the last.  *Model-checked only*: `PendingWriterProceeds`.

### 3.2 `Pager`, `PagerRecovery`, `AtomicDb`, `PagerProofs`: the rollback journal

`Pager` has one connection per process.  The database file and the journal
exist twice, as the processes see them (`db`, `jrnl`) and as the disk has them
(`dbDisk`, `jDisk`, and `jSame`: the directory on the disk names the present
journal).  Per connection there are `eState`, `eLock` (the levels of `DbLock`,
changed by its actions), the page cache with its dirty and need-sync pages
(`mem`), the journalling state (`tx`) and where its call stands (`pc`).  A step
is one lock, sync or file operation with the bookkeeping that follows.

| operation | actions |
|---|---|
| `sqlite3PagerSharedLock`, `hasHotJournal` | `LockShared`, `Access`, `CheckReserved`, `FirstByte`, `HotLock`, `HotOpen`, `Version` |
| page reads, cache recycling, end of a read | `Fetch`, `Evict`, `EndRead` |
| `sqlite3PagerBegin`, `sqlite3PagerWrite` | `Begin`, `Write` |
| `pagerStress` | `Spill`, then as a commit |
| `sqlite3PagerCommitPhaseOne` | `CommitPhaseOne`, `AskExclusive`, `GetExclusive`, `Busy`, `ZeroNext`, `WriteCount`, `SyncJournal` or `SkipSync`, `PageOut`, `SyncDb` |
| `sqlite3PagerCommitPhaseTwo` | `CommitPhaseTwo`, `Unlock`; `CommitNothing` |
| `sqlite3PagerRollback`, `pager_playback` | `Rollback`, `ReadHeader`, `ReadRecord`, `SyncRestored`, `FinishPlayback`, `Unlock` |
| I/O errors, the ERROR state | `WorkFails`, `CommitPhaseTwoFails`, `PlaybackFails`, `FinishPlaybackFails`, `UnlockFailed`, `LeaveError` |
| deaths | `ProcessDeath`, `PowerFailure` |

*Files and failures.*  A page's content is the number of the transaction that
wrote it; page 1 is its change counter.  A journal is a sequence of sectors,
each a header or a record; the nonce of a transaction (`cksumInit`) is its
number, and a checksum is right exactly when the nonce is.  The death of a
process leaves the files as they are seen.  A power failure leaves of each file,
sector by sector, what was synced, what was written, or junk where a write had
not ended; the file has either length; an unlink or a creation whose directory
was not synced may be undone.  An I/O error may strike every sync, every write
to the database file and the end of the journal, and a database page may then
be torn.  A failing write that appends to the journal is not
modelled.

`PagerRecovery` says what the two files mean: `Recovered(file, journal)` is
`pager_playback` of a hot journal as one function, and `Image` what it makes of
the files at this moment.  `ImplementsAtomicDb` maps `AtomicDb` to that image,
to the images a power failure could go back to, and to what each connection
reads (its cache over the file).  `AtomicDb` lets the image change only by a
whole commit of the one writer while nobody else reads, lets a reader see the
image and nothing else, and lets a power failure go back at most one commit.
PERSIST mode is exempt from this refinement and checked by `ImageChangesByCommit`
instead: there the pager's own roll-back does not restore every cached page
(see the findings).  `SyncedCommitIsFinal`: where the end of the journal is
synced (EXTRA, or a truncation or zeroing under FULL), no failure takes a
reported commit back.  Below EXTRA the unlink is not synced, and a power failure
may undo the last commit, as a whole (`pager.c:2117`; "irrevocably committed" in
`pager.c:6741` is true of process deaths only).

The journal mode, `synchronous`, the faults, the connections that take part and
two bounds (`pages`, the largest file; `txns`, the write transactions begun)
are chosen once, at the start, from the constant `Settings` (variable
`setting`).

| run | connections | settings and faults | pages, write transactions | what it shows |
|---|---|---|---|---|
| `pager` | 1 | delete/full, deaths; the same with power failures | 2 growing to 3; 2 and 1 | file growth, spills |
| | 1 | delete/full and persist/full, I/O errors and power; delete/normal, delete/extra and truncate/full, power | 2, 2 | atomic at every level of syncing, stale headers and records stay dead, synced commits are final |
| | 2 | delete/full and delete/off, deaths; truncate/full, I/O errors | 2; 1, 2 and 1 | isolation, hot-journal race, stale caches, locks, the ERROR state, journals that run to the end of the file |
| `pager_stale_header` | 1 | persist/full, no fault | 3, 2 | violation (finding) |

*Bounds.*  Two pages are enough for one to be spilled while the other is not,
for a journal of two segments and for a torn transaction; the file that grows
adds a page that no journal holds.  The second transaction is what meets the
stale remains of the first.  Two connections are enough for a race of two
recoverers, and of a reader with a writer; a death loses nothing that was
written, synced or not, so that their second transaction is left to the setting
with the fewest steps, `delete/off`; one suffices where only the disk is
in question.  Deadlock is checked in both runs.  No fairness is assumed: no
liveness is claimed of the pager.

*Not combined*: I/O errors and power failures in TRUNCATE mode.  If the sync of
the truncated journal fails, the connection goes on after leaving the ERROR
state, writes the next journal over sectors the disk still has old contents
for, and a power failure can mix the two.  NORMAL with PERSIST or TRUNCATE over
power failures is not claimed to be safe by the documentation and is not run.

*Proved* in `PagerProofs`, for any connections, bounds and set of settings and
faults: `StatesFit`, the state diagram with its
locks; `LocksSuffice`, that is `LocksFitStates`; `FilesInOneHand`, that is
`FilesChangeInOneHand`.  `LocksFitStates` alone is not inductive: that a commit
past its EXCLUSIVE lock is in a writer state, or that a playback is either of
the own journal or of a hot one, is needed for the next step.  The inductive
invariant `IInv` says for one connection which steps, states and lock levels go
together (`Fits`), and for two that their levels are compatible.  A step moves
one connection (`Moves`), touches a file only with the lock for it (`InHand`),
and raises its level only to one compatible with all others; one lemma per
group of actions, one step per action; a power failure takes all locks.

Also proved: `StatesTyped`; `Typing`, that is `TypeOK`; and
`SyncedCommitsLast`, that is `SyncedCommitIsFinal`.  A page number that comes
out of a journal, and a count that goes down, have their types only because of
what the journal, the transaction and the cache are at each step, so that the
inductive invariant `TInv` adds the data to `IInv`: every sector that is not
zeroed names a page of the database (`FilesOK`); a page of the cache that is
not dirty is in the file (`Reading`); a transaction's own roll-back reads its
own header first (`Journalling`) and comes back to the original size
(`Writing`); and a finished transaction is in the file and synced, and after
`sqlite3PagerCommitPhaseTwo` so is the end of its journal (`Committed`).  The
last of these gives `SyncedCommitIsFinal`: where the files on the disk are those
the processes see, there is nothing for a power failure to choose
(`NothingToWreck`).  Each step is shown to keep what it moves (`Keeps`), and
what the other connections rely on survives it because of the locks
(`OthersKept`).  What a power failure leaves is a recursive function, about
which the proofs argue by the least length at which a claim would fail
(`LayersAre`).
*Model-checked only*: `ImplementsAtomicDb`, `ImageChangesByCommit`, and
`RollbackRestores`, which the code violates.

### 3.3 `Wal`, `WalRecovery`, `SnapshotDb`, `WalProofs`, `WalReaderProofs`: the write-ahead log

`Wal` has connections in processes of their own that share the log file, the
database file (`wal`, `db`, with `walDisk` and `dbDisk` for the disk) and the
wal-index (`shm`: both copies of `WalIndexHdr`, the page numbers of the hash
table, `nBackfill`, the read marks), guarded by the locks of the wal-index
(`lock`).  Per connection there are `struct Wal` (`wc`: its header, `readLock`
and what goes with them), the write transaction (`tx`), the pager's cache and
the call in progress (`pc`, `job`).  A step is one access to the shared header,
to `nBackfill` or to the read marks, one lock operation, or one write or sync
of a file.  A few steps join an access with the lock that guards it, where the
others cannot tell: `ChooseDb` looks at `nBackfill` and takes READ_LOCK(0)
(`Check0` compares the header afterwards); `Scan` looks at all marks
(`CheckMark` compares the chosen one); `SetMark` and `CkptLockMark` lock, store
and unlock one mark; `CkptLock0` looks at `nBackfill`, takes READ_LOCK(0) and
compares the salts (nobody restarts the log while it is held); `RecoverInfo` and
`RestartInfo` set `nBackfill` and the marks (under the locks of those marks; a
death in between would leave old marks, which only protect more).

| operation | actions |
|---|---|
| `sqlite3WalBeginReadTransaction`, `walTryBeginRead`, `walIndexTryHdr` | `BeginRead`, `TryHdr`, `TryHdr2`, `BadHdr`, `BadHdrBusy`, `ChooseDb`, `Check0`, `Scan`, `SetMark`, `LockMark`, `MinFrame`, `CheckMark`; `EndRead` |
| `walIndexRecover` | `RecoverLock`, `RecoverBusy`, `RecoverLog`, `RecoverHdr0`, `RecoverInfo` |
| write transaction, `walFrames`, `walRestartLog`, `walRestartHdr` | `BeginWrite`, `Modify`, `Shrink`, `Spill`, `Commit`, `Restart`, `RestartHdr0`, `RestartInfo`, `CannotRestart`, `WriteLogHeader`, `SyncHeader`, `WriteFrames`, `SyncFrames`, `Index`, `Publish`, `Rollback`, `Fails` |
| `sqlite3WalCheckpoint`, `walCheckpoint` | `Checkpoint`, `CkptWrite`, `CkptStart`, `CkptReadMark`, `CkptLockMark`, `CkptLock0`, `CkptSync`, `CkptCopy`, `CkptTruncate`, `CkptSyncDb`, `CkptBackfill`, `CkptDone`, `TruncateLog`, `CkptEnd`, `CkptFails` |
| `sqlite3WalOpen`, `sqlite3WalClose`, failures | `Open`, `Close`, `CloseWal`, `Death`, `PowerFailure` |

`ImplementsSnapshotDb` maps the files to `SnapshotDb`: `Image` is the committed
image (frames up to the live `mxFrame` over the database file, or what a
recovery would find), `Limbo` what a crash may leave instead, and `view` what a
reader reads, page by page, through its cache, the log and the file.  In
`SnapshotDb` the image changes only by a whole commit, a reader keeps the image
it began with, and where commits are lasting (FULL) no crash goes back behind
one.  A commit that was reported to have failed may still come back with a
crash, because its frames are valid in the log: the specification has that
image in limbo.  `ReadersKeepTheirPages` is one reason behind it: a reader holds
the lock of its mark, no frame beyond its snapshot is backfilled, and with mark
zero nobody copies.  `RecoveryFindsTheLog` is the other: the shared header counts
valid frames of the log that is there, the last of them no later than the last
commit, so whoever recovers finds at least what readers see; it needs the
checksums that `walRewriteChecksums` makes good before a commit counts.
`BackfillWithinLog` is what the comment at `wal.c:346` says of `nBackfill`; a
checkpointer keeps to it because it looks at the salts again once it holds
READ_LOCK(0).

| run | instance | what it shows |
|---|---|---|
| `wal` | two writers, one of them checkpoints, two commits; a writer and a reader beside a process that only runs checkpoints; writer and truncating checkpointer; a death at any step but one, of a writer or of one who reads, runs checkpoints or both; a power failure with I/O errors, NORMAL and FULL | snapshots, atomic commits, nothing lost; readers' pages kept; recoveries complete; `nBackfill` below `mxFrame` |
| `wal_restart` | a writer that dies at any step, a checkpointer | violation (finding) |

*Bounds.*  Two page writes, one or two pages, two read marks (`WAL_NREADER`, of
the code's five: mark 0 and one other, so that readers compete for it), two
drawn salts (one restart of the log), one death, power failure or closing.  A
setting says who begins transactions (`readers`), who of them writes and who
runs checkpoints, so that each instance has only the steps its question needs. A
restart needs a log that is copied to its end, a commit after it, and a reader
that began before: `Pair` has both commits.  `Trio` adds checkpoints that no
read transaction of their own process orders, beside a commit and a reader.
`Dying` takes the effects of a death one at a time: on a reader and on a
checkpointer, after one commit; on each of them alone, over two, so that a
writer goes on after the other's death; on spilled frames that the next writer
writes over (two pages, in a wal-index that another process keeps); and on a
process that is alone when it comes back.  It spares the one step at which
`wal_restart` shows what a death does.  Deadlock is checked; no fairness, as no
liveness is claimed.

*Proved*, from `WalAssumption` alone, for any connections, read marks, pages,
settings and failures: `Invariance`, `Typing` (`TypeOK`), `LockExclusion` and
`RecoveryIsComplete` (`RecoveryFindsTheLog`); and for the settings in which
nobody dies between the two parts of a restart (`Spared`), `ReadersAreSafe`
(`ReadersKeepTheirPages`) and `BackfillIsWithinLog` (`BackfillWithinLog`).
`Spared` is no convenience: `wal_restart` shows that a death there leaves an
`nBackfill` that no bound by a reader's snapshot survives.

`WalProofs` says of every action what it makes of its connection
(`<Action>Does`) and shows that which locks a connection holds follows from
where its call stands (`LocksOK`, over `ExclOf` and `SharedOf`); that an
exclusive lock is held alone follows because a lock is taken only when it is
free (`LInv`).  The types do not stand on their own.  A
checkpoint makes the database as large as its header says, so that headers must
count whole commits (`Sized`) but for those of a writer that has spilled;
`walFrames()` writes behind frames that must be in the file (`LengthsOK`), which
holds against others' truncations because whoever appends holds the WRITE lock
(`WriterAlone`) and a closing connection that deletes the log is alone
(`ClosingsOK`); and a recovery finds a last commit in any log.  What
`walFrames()` writes and what a power failure leaves are recursive functions:
that they exist, and what all of their values have in common, is shown by taking
the least argument that would be a counterexample (`WrittenExists`,
`WrittenGrows`, `LayersExist`, `LayersAre`).

`WalReaderProofs` adds what the log holds and what readers need of it (`RInv`).
For each connection (`Mine`): a writer's header is the shared one, goes on from
it, or starts a log whose salt nobody else knows (`WriterOf`, `FreshFor`), so
that no stale header passes for a live one; the frames it has added carry that
salt and have valid checksums up to the first that it wrote over, and all of
them once it has rewritten them for a commit (`LogOf`, `Chain`); a recovery
publishes what it found (`HeaderOf`).  With it the log up to the shared `mxFrame`
is valid and ends with a commit (`Published`).  Under `Spared` the readers
(`Readers`) rest on three facts that keep each other up: a reader's mark and
`nBackfill` are within its snapshot (`SnapOf`); a checkpointer's header is not
ahead of the shared one of the same log, and once it holds READ_LOCK(0) that is
its log (`CkptOf`); and no reader whose mark a checkpointer has dealt with has a
snapshot below what is safe to copy (`SafeFor`), for which a reader that locks a
mark late must still find the header live (`walTryBeginRead`).
*Model-checked only*: `ImplementsSnapshotDb`, which compares whole images.  What
becomes of readers after a death inside a restart, which `Spared` leaves out,
neither a run nor a theorem says: `wal_restart` shows how it begins.

### 3.4 `Savepoint`, `SavepointStack`, `SavepointProofs`: nested savepoints

One connection in a write transaction, alone with its database: `pager` is
`struct Pager` with its cache (per page: content, dirty, need-sync, writeable,
don't-write), `aSavepoint`, the journal and sub-journal, `pInJournal`, and the
size of the database; `wal` is the log with its shared header.  A call is one
step.  Page 1 stands for the header and the free-list trunk.

| operation | actions |
|---|---|
| `sqlite3PagerWrite`, `pager_write`, `subjournalPageIfRequired` | `WritePage` |
| `allocateBtreePage`, `freePage2` (with `btreeSetHasContent`, `sqlite3PagerDontWrite`, NOCONTENT reads) | `AllocateLeaf`, `AllocateAtEnd`, `Free` |
| `pagerStress`, recycling | `Spill`, `Evict` |
| `sqlite3PagerOpenSavepoint`, `sqlite3PagerSavepoint`, `pagerPlaybackSavepoint`, `sqlite3WalSavepointUndo` | `OpenSavepoint`, `RollbackTo`, `ReleaseSavepoint` |
| the transaction | `Begin`, `Commit`, `Rollback` |

`SavepointStack` is a stack of images; `ImplementsSavepointStack` maps to it
the committed image, which is what a crash at this moment would recover from
the files, the present image, and for each savepoint *the image that rolling
back to it now would produce*.  So every step, not only a roll-back, has to
keep what all open savepoints need.  What free pages hold is not compared.

The run `savepoint` has four pages, one of them free, two nested savepoints,
and one transaction of five changes with a rollback journal, synced or not, or
two of four changes with a log, so that the second may restart the log.  Two
savepoints are the least for a release that must keep what the outer one needs;
the free page is the least for a page that is taken, changed, freed and taken
again.  A statement journal is the innermost savepoint.  Once the bounds are
reached there is nothing left to do, so deadlock is not checked.

*Proved*, for any number of pages, savepoints and changes, in both modes:
`StatesGood`; `PlaybacksDoEnd`, that is `PlaybacksEnd`: the playback of any open
savepoint, if it were rolled back to now, comes to its end
(`assert( rc!=SQLITE_DONE )` in `pagerPlaybackSavepoint()`); and `Typing`, that
is `TypeOK`, with the assertion of `subjournalPage()` that the main journal has
every page of the sub-journal, unless the page is new.  Neither is inductive:
the next write decides by the flags of a page in the cache, the next spill puts
a header into the journal.  The inductive invariant says where the headers are: none between where a savepoint
was opened and the end of that segment, `iHdrOffset` once it is known
(`OffsetsFit`); an outer savepoint starts no later in the sub-journal than an
inner one, so that a release or a roll-back cuts the sub-journal where all
others still fit (`Savepoints`); a page that is writeable is dirty and in the
journal, or new (`AllInJournal`); and before the journal is open nothing has
been changed (`Untouched`).  A playback is a recursive function over the
records (`Replay`); that it exists, and what all of its values keep, is shown by
taking the least record that would be a counterexample (`ReplayExists`,
`AnyReplay`).
*Model-checked only*: `ImplementsSavepointStack`.

### 3.5 `SuperJournal`: commits over several files

Where `Pager` has pages, this module has one value per database file: the
transaction that wrote it, or `Torn`.  A journal is its header, its length and
the name at its end; a file is what the processes see (`now`) and all that a
power failure may leave of it (`may`).

| operation | actions |
|---|---|
| writes and spills before the commit | `Write`, `Spill` |
| `vdbeCommit`, `sqlite3PagerCommitPhaseOne/Two` | `BeginCommit`, `CreateSuper`, `SyncSuper`, `JournalSuper`, `SyncJournal`, `WritePages`, `SyncDb`, `DeleteSuper`, `SyncDir`, `EndJournal` |
| `sqlite3PagerRollback`, hot-journal recovery, `pager_delsuper` | `Rollback`, `Recover`, `Play`, `SyncRestored`, `EndRollback`, `CheckChild`, `DelSuper`, `NextRollback` |
| failures | `IoError`, `Die`, `PowerFailure` |

`AllOrNothing` looks, at every moment, at what a recovery would make of the
files: a transaction is in all its databases or in none, and no file is torn.
`MultiFileCommitIsFinal`: once `vdbeCommit` has returned, no failure takes the
transaction back, in NORMAL as in FULL.

| run | instance | what it shows |
|---|---|---|
| `superjournal` | two databases, two connections; DELETE with two transactions and a fault of any kind, or two deaths; every mix of journal modes with one transaction and one fault; two transactions over kept journals without faults | both properties |
| `superjournal_cold` | TRUNCATE or PERSIST, two transactions, one death | violation (finding) |

TRUNCATE and PERSIST journals have only one transaction after a fault because
of that finding.  RESERVED and EXCLUSIVE are one write lock here and there are
no readers; `Pager` has the lock levels.  Left out: the loop that looks for an
unused name; databases in WAL or MEMORY mode or with syncs off, which
`vdbeCommit` does not cover with a super-journal.  Two things the model shows
and the properties allow: a failing directory sync after the unlink of the
super-journal is reported as an error although the transaction is committed;
and a process that dies between that unlink and the sync, followed by a power
failure, may leave part of the journals ended with the super-journal back on
the disk (two faults; the instances with power failures have one).  What a call
returns is left out where no state depends on it: `pager_delsuper` reports an
error when another recovery has deleted the super-journal meanwhile
(`pager.c:2563`), after its own database is restored, and a roll-back goes on
with the next database.  Deadlock is not checked: the bounds end every
behaviour.

*Proved* in `SuperJournalProofs`, for any connections, databases and bounds:
`TypeOK`, for every setting; `AllOrNothing` and `MultiFileCommitIsFinal` under
`Deletes`, that all journals are deleted and that the faults are either deaths
and failing calls or power failures.  The faults may be any number; the runs
have one or two.  `Deletes` excludes what is not true: TRUNCATE and PERSIST
because of the finding, and deaths together with power failures because of the
two faults just described.
The induction has two layers.  `CInv` is control: which locks go with which
step of a connection, and that no two commit the same transaction.  `FInv` is
about the files, and has two sides.  `Local(d)` speaks of one database and
*everything a failure may leave* of its file and journal: a journal that counts
names a super-journal that has `d` in it (`Names`), a stale name comes only with
a journal that may be gone (`Stale`), and whatever combination is found, it has
the same multi-file transactions (`Sound`), except while the super-journal is
unlinked and the directory not yet synced (`Deciding`).  `Known` speaks of what
a connection in the middle of a commit or a recovery has established:
which journals are on the disk with their names (`Journalled`), which files are
written (`Written`), what the transaction adds (`Adds`), what the super-journal
may be (`SuperOf`), and that a child that was looked at stays as it was seen
(`Restored`).  `Together` joins the databases of one transaction, and `Final`
says that a transaction once reported stays in all of them.  The heart of the
argument is one step: the sync of the directory after the unlink decides all
databases at once, because each of their journals names that super-journal and
nothing else is in doubt.

### 3.6 `UnlockNotify`, `SharedCache`: connections of one process

`UnlockNotify` holds the operators of `notify.c` over `pBlockingConnection`,
`pUnlockConnection` and the list of blocked connections; `SharedCache` uses
them in its actions.  There `cache[k]` is a `BtShared` with its B-trees
(`pWriter`, `BTS_EXCLUSIVE`, `BTS_PENDING`, `inTransaction`, `nTransaction`,
every `inTrans` and table lock), and a connection has `autoCommit`, its
statements in progress, and where its call stands.

| operation | actions |
|---|---|
| `OP_Transaction`, `OP_TableLock`, `btreeBeginTrans`, `querySharedCacheTableLock` | `Start`, `StartRefused`, `LockRefused`, `PrepareRefused`; `Begin`, `BeginWrite` |
| `sqlite3VdbeHalt`, `OP_AutoCommit`, `sqlite3BtreeCommit`, `downgradeAllSharedCacheTableLocks` | `FinishStatement`, `FailStatement`, `Commit`, `EndCache`, `Unlock` |
| `sqlite3RollbackAll`, `sqlite3_close` | `Rollback`, `Close`, `Closed`; `Open` |
| `sqlite3_unlock_notify` | `Register` (refused when it would close a circle), `Cancel` |
| `sqlite3_backup_step`, `finish` | `BackupStep`, `BackupEnd`: the locks of the destination |

`BtreeIntegrity` is what the code's assertions rely on.  `Isolation` uses two
history variables: nobody changes what an open transaction has read, and
nobody reads what an open one has changed.  `NoLostWakeUp`, `NoWaitCycle` and
`WaiterIsNotified` are the promises of unlock notification,
`PendingKeepsReadersOut` the reason why a writer is not starved.

| run | instance | what it shows |
|---|---|---|
| `sharedcache` | two connections that do all there is to do to one cache; a writer that waits for two readers; three connections on two caches that can block each other in a circle; a backup | all of these |
| `sharedcache_backup` | the backup | violation (finding) |

*Fairness.*  The library finishes a commit, its notifications and a close (weak
fairness); an application that does not wait for a call-back finishes its
statements and its transaction at some time (strong fairness, since it may have
to wait again and again in between).  `WaiterIsNotified` is claimed of
`patient` settings, in which a refused connection registers and waits, as
`sqlite3_blocking_step` in `test_thread.c` does: without that, a connection
may leave its own transaction open for ever.  A circle of three needs two
caches, since a connection that is refused in one holds a lock in the other.

*Proved* in `SharedCacheProofs`, for any connections, caches, tables and
settings: `TypeOK`, `BtreeIntegrity`, `Isolation`, `PendingKeepsReadersOut`,
`NoLostWakeUp` and `NoWaitCycle`.  `IInv` says of each cache that
`nTransaction` and `inTransaction` count its transactions (`Counts`), that
table locks belong to transactions, write locks to the writer's and to one
connection (`Locks`), what `BTS_PENDING` and `BTS_EXCLUSIVE` imply (`Flags`),
and that what a transaction has read or changed it has locked (`HistoryOK`);
`StagesOK` adds where the connections stand.  One lemma for each operator on a
`BtShared` shows that it keeps this, whatever the caller; then the actions are
short.  `NoWaitCycle` stays true because a registration is refused if it would
close a circle and every other step only removes edges from the graph of
waiters: the proof shows that a circle after the step would be one before it or
one that `Register` looked for.  *Model-checked only*: `WaiterIsNotified`.

Bounds: each instance lists its statements (`statements`), how many of one
connection are in progress (`maxActive`), and which kinds of BEGIN there are.
A statement uses one table of one cache; its start is one step up to the last
lock it needs, because it holds the mutexes of its B-trees; a roll-back holds
all mutexes.  Left out: cursors that a roll-back trips, the file locks of other
processes, foreign keys and virtual tables in `sqlite3VdbeHalt`, hooks, how
call-backs are bundled.  A call-back may come although the lock is gone again:
that is normal, and applications retry.

### 3.7 `OnlineBackup`: copies of a changing source

The source is its committed `image`, the snapshot its pager's cache belongs to
(`basis`), and its write transaction (`trans`, `work`, `dirty`, `out`); a
backup is `iNext`, `isAttached`, `bDestLocked` and `rc` (`bk`), with what it
has put into its destination's pager (`inDest`) and what that has committed
(`dest`).  A call holds the mutexes of the source and is one step.

| operation | actions |
|---|---|
| `sqlite3_backup_init`, `step`, `finish` | `BackupInit`, `Step`, `StepBusy`, `StepRefused`, `StepFails`, `BackupFinish` |
| the source's pager: reads, writes, spills, commit, roll-back, truncation, other processes | `BeginRead`, `EndRead`, `BeginWrite`, `Write`, `WriteOut`, `Truncate`, `Commit`, `Rollback`, `RollbackWal`, `PagerFails`, `ExternalCommit`, each with the call of `sqlite3BackupUpdate` or `sqlite3BackupRestart` that it makes |

`CopiedPagesAreCurrent` is the invariant behind the design: what is copied is
what the source's pager would read now, but for pages that are changed and not
yet written out.  `BackupIsASnapshot`: a destination changes as a whole, into
an image the source had between two transactions.  `BackupEnds` under weak
fairness of the source's commit and strong fairness of a step of one page: the
application keeps calling, and meets the source again and again when it is not
being written.

The run `backup` has one backup of one or three pages and three writes (two
where calls may fail), or two backups of two pages and two writes, with a
rollback journal or a log; three pages let a page before, at and after `iNext`
change.  Left out: different page sizes, `sqlite3BtreeCopyFile` (VACUUM), an
empty source, savepoints of the source, the header fields of page 1 that the
last step rewrites.

*Proved* in `OnlineBackupProofs`, for any backups, pages, writes and settings:
`TypeOK`, `CopiedPagesAreCurrent` and `BackupIsASnapshot`.  The first is not
inductive: a roll-back tells the backups only of the pages that were written
out, so that `IInv` adds `CopiesOfUnwrittenAreOld` (a page of the transaction
that is not written out is in the copies as it was before it).  The action
property follows at the last step of a backup, when all pages are copied and
the source has no write transaction, so that the copy equals `basis` page by
page.  *Model-checked only*: `BackupEnds`.

## 4. Findings

1. `unixlock_close_race` (`os_unix.c:2366`): `unixClose` decides under
   `pLockMutex` that no lock is held and closes the descriptor after leaving it;
   a lock that another thread took through another handle in between is lost.
2. `pager_stale_header` (`pager.c:1615`): in PERSIST mode a roll-back after
   commit phase one may take the header of an older transaction for its own and
   restore old pages into the cache: that connection reads old contents until
   its cache is emptied, while the file is right.  The stale header must stand
   exactly where the new journal ends: both transactions fill the same number of
   whole sectors with records, and the older one was spilled there.  Phase one
   succeeds and a roll-back follows when the commit of another attached database
   fails in between.
3. `wal_restart` (`wal.c:2155`): a writer that dies between the header of a
   restarted log and the reset of `nBackfill` leaves `nBackfill` above
   `mxFrame`; the header is valid, so nobody recovers.  Commits that later bring
   `mxFrame` up to it count as copied although they are not.
4. `superjournal_cold` (`pager.c:2084`): recovery skips a journal whose
   super-journal is gone, and with TRUNCATE or PERSIST leaves it whole, since
   `journalOff` is 0.  The next transaction writes over its start; the old name
   at its end then makes a hot journal count as cold.  The same steps with the
   library built from this source leave a database half changed with TRUNCATE
   and PERSIST and not with DELETE.
5. `sharedcache_backup` (`backup.c:600`): the end of a backup releases the locks
   on its destination without telling who waits for them.  A library built with
   `SQLITE_ENABLE_UNLOCK_NOTIFY` behaves so.

## 5. Beyond the prover, and not modelled

Liveness under fairness (`PendingWriterProceeds`, `WaiterIsNotified`,
`BackupEnds`) and ENABLED are out of the prover's reach and stay with TLC.  No
theorem states what recursively defined data is for every input (`Recovered`,
`Replay`, the last frame of a page), which takes induction over data: where a
proof needs something of all values of a recursive function (`LayersAre`,
`WrittenGrows`, `LeastOf`) it argues about the least argument at which it
would fail.  `ImplementsAtomicDb`, `ImageChangesByCommit`,
`ImplementsSnapshotDb` and `ImplementsSavepointStack` compare whole images that
such functions make, at every step; they are checked and not proved.  The
invariants under them are proved: what the files hold, and for whom it is kept,
does not take the images themselves.

*Pager*: the empty database (the branch of `hasHotJournal` for a file without
pages), exclusive locking mode, MEMORY and OFF journals, temporary and in-memory
databases, `sqlite3PagerTruncateImage` with a rollback journal, failing writes
that append to the journal, batch-atomic writes and the device characteristics
that skip syncs (SAFE_APPEND, SEQUENTIAL), connections with different
`synchronous` settings.  *Locks*: I/O errors of fcntl(), `unix-excl`, dot-files.
*WAL*: snapshots, SETLK_TIMEOUT, heap-memory and read-only wal-indexes,
`unixShmLock`, whose result `Wal` takes as a set of shared and exclusive locks.
*Savepoints*: autovacuum moves, sectors larger than a page, I/O errors in a
playback, `secure_delete`.

Three hazards have no property: a failing unlock call (`os_unix.c:2235`) and a
failing write to the journal (`pager.c:6028`), because the models have no such
failures, and two recoverers that refuse each other for ever (`pager.c:5325`),
because the code has no fairness to rule it out.

*Page cache, bit vector, memory journal*: data structures with a simple
contract, which their callers here rely on: a clean page may go at any time and
a dirty one is spilled (`Pager`, `Savepoint`), a set of page numbers, a file.
The rest of the repository is listed in `PROJECT.json` with the reason for each
part.
