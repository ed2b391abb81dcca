-------------------------------- MODULE Wal --------------------------------
(***************************************************************************)
(* The write-ahead log of wal.c: readers, a writer and a checkpointer that *)
(* share a log file, a database file and the wal-index, and meet only in   *)
(* the wal-index and its eight locks.                                      *)
(*                                                                         *)
(* A step is one access to the shared header, to nBackfill or to the read  *)
(* marks, one lock operation, or one write or sync of a file, with the     *)
(* private bookkeeping around it.  Where a store or a look and a lock that *)
(* guards it are joined in one step (ChooseDb, Scan, SetMark,              *)
(* CkptLockMark, CkptLock0, RecoverInfo, RestartInfo), the lock or a later *)
(* comparison keeps the others from telling the difference.  Frames past   *)
(* the shared mxFrame are seen by nobody but the connection that writes    *)
(* them and by a recovery, so that all frames of one sqlite3WalFrames()    *)
(* are written in one step; the death of the writer may leave any prefix   *)
(* of its writes, a power failure any mixture of them.                     *)
(*                                                                         *)
(* A page's content is the number of the write that made it.  A salt is    *)
(* the number of its drawing, so that no two are equal.  A checksum is     *)
(* what it sums up: all frames of the log up to its own.  Not modelled:    *)
(* SQLITE_ENABLE_SNAPSHOT and SETLK_TIMEOUT, heap-memory and read-only     *)
(* wal-indexes, locking_mode=EXCLUSIVE, sectors that are not powersafe.    *)
(***************************************************************************)
EXTENDS Integers, Sequences, FiniteSets

CONSTANTS
    Conns,          \* connections, each in a process of its own
    WAL_NREADER,    \* read marks
    InitSize,       \* pages of the database file at the start
    MaxPage,        \* bound: the database grows no larger
    MaxSalts,       \* bound: salts drawn
    Settings        \* the settings, roles, faults and bounds to choose from

ASSUME WalAssumption ==
    /\ IsFiniteSet(Conns)
    /\ WAL_NREADER \in Nat /\ WAL_NREADER >= 2
    /\ MaxPage \in Nat /\ InitSize \in 1 .. MaxPage
    /\ MaxSalts \in Nat
    /\ Settings \subseteq
          [sync : {"normal", "full"},
           users : SUBSET Conns,            \* who takes part
           readers : SUBSET Conns,          \* who begins transactions
           writers : SUBSET Conns,          \* who of them writes
           checkpointers : SUBSET Conns,    \* who runs checkpoints, and which
           modes : SUBSET {"passive", "full", "truncate"},
           writes : Nat,                    \* bound: pages written
           pages : 1 .. MaxPage,            \* bound: the largest page written
           io : BOOLEAN, power : BOOLEAN, die : {"never", "spared", "always"},
           exits : Nat]                     \* bound: closings, deaths, power failures

Pages == 1 .. MaxPage

(* The locks. *)
WAL_WRITE_LOCK == 0
WAL_CKPT_LOCK == 1
WAL_RECOVER_LOCK == 2
WAL_READ_LOCK(i) == 3 + i
Slots == 0 .. WAL_READ_LOCK(WAL_NREADER - 1)
ReadersSlots == WAL_READ_LOCK(1) .. WAL_READ_LOCK(WAL_NREADER - 1)

READMARK_NOT_USED == 1000000    \* above every frame number

VARIABLES
    db, dbDisk,     \* the database file: as seen, and on the disk
    wal, walDisk,   \* the log file: as seen, and on the disk
    shm,            \* the wal-index
    lock,           \* its locks
    wc,             \* struct Wal of each connection
    tx,             \* the write transaction of each connection
    cache,          \* what each pager still has cached, <<>>: nothing
    pc, job,        \* where a connection's call stands, and what it is to do
    writes, salts,  \* pages written, salts drawn so far
    exits,          \* closings, deaths and power failures so far
    setting         \* what was chosen of Settings

files == <<db, dbDisk, wal, walDisk>>
private == <<tx, cache, writes>>
vars == <<files, shm, lock, wc, private, pc, job, salts, exits, setting>>

fullSync == setting.sync = "full"

-----------------------------------------------------------------------------
(* Locks.                                                                  *)

Free == [shared |-> {}, excl |-> {}]

Lockable(S) == \A s \in S : lock[s] = Free
Sharable(s) == lock[s].excl = {}

Locked(l, c, S) == [s \in Slots |-> IF s \in S THEN [shared |-> {}, excl |-> {c}] ELSE l[s]]
Shared(l, c, s) == [l EXCEPT ![s].shared = @ \cup {c}]
Unlocked(l, c, S) ==
    [s \in Slots |-> IF s \in S THEN [shared |-> l[s].shared \ {c}, excl |-> l[s].excl \ {c}]
                                ELSE l[s]]

Holds(c, s) == c \in lock[s].excl
writeLock(c) == Holds(c, WAL_WRITE_LOCK)
ckptLock(c) == Holds(c, WAL_CKPT_LOCK)

-----------------------------------------------------------------------------
(* The log file, its frames and the images it stands for.                  *)

Largest(S) == CHOOSE n \in S : \A m \in S : m <= n

Put(f, x, v) == [y \in DOMAIN f \cup {x} |-> IF y = x THEN v ELSE f[y]]

NoSalt == -1    \* of a log without a header; a recovery of one leaves salt 0

EmptyLog == [salt |-> NoSalt, nCkpt |-> 0, frames |-> <<>>]

(* A frame; size is the database size in a commit frame, else zero. *)
Ident(f) == <<f.pg, f.val, f.size>>

Chained(before, pg, val, size, salt) ==
    [pg |-> pg, val |-> val, size |-> size, salt |-> salt, sum |-> Append(before, <<pg, val, size>>)]

Unsummed(pg, val, size) == [pg |-> pg, val |-> val, size |-> size, salt |-> NoSalt, sum |-> <<>>]

Junk == Unsummed(0, 0, 0)

(* The checksum up to frame n, that of the header for n = 0. *)
SumUpTo(w, n) == IF n = 0 THEN <<w.nCkpt>> ELSE w.frames[n].sum

(* The checksum of a frame goes on from that of the frame before it. *)
ValidFrame(w, n) ==
    /\ w.frames[n].salt = w.salt
    /\ w.frames[n].sum = Append(SumUpTo(w, n - 1), Ident(w.frames[n]))

ValidFrames(w) ==
    IF w.salt = NoSalt THEN 0
    ELSE CHOOSE n \in 0 .. Len(w.frames) :
            /\ n < Len(w.frames) => ~ValidFrame(w, n + 1)
            /\ \A m \in 1 .. n : ValidFrame(w, m)

LastCommit(w) == Largest({n \in 0 .. ValidFrames(w) : n > 0 => w.frames[n].size > 0})

ZeroHdr == [isInit |-> FALSE, iChange |-> 0, mxFrame |-> 0, nPage |-> 0, salt |-> 0, sum |-> <<>>]

ZeroShm ==
    [hdr |-> <<ZeroHdr, ZeroHdr>>,      \* the copies [0] and [1]
     nBackfill |-> 0,
     aReadMark |-> [i \in 0 .. WAL_NREADER - 1 |-> 0],
     aPgno |-> <<>>]                    \* the page of each frame

LiveHdr == shm.hdr[1]

(* A file that is no longer than a header counts as empty. *)
HasFrames(w) == w.salt # NoSalt /\ w.frames # <<>>

HdrUpTo(w, n) ==
    [isInit |-> TRUE, iChange |-> 0, mxFrame |-> n,
     nPage |-> IF n = 0 THEN 0 ELSE w.frames[n].size,
     salt |-> IF HasFrames(w) THEN w.salt ELSE 0, sum |-> IF n = 0 THEN <<>> ELSE SumUpTo(w, n)]

RecoveredHdr(w) ==     \* worked out once
    CHOOSE h \in {HdrUpTo(w, n) : n \in {LastCommit(w)}} : TRUE

(* The size of the database under header h, and page p of a file. *)
SizeBy(h, file) == IF h.nPage > 0 THEN h.nPage ELSE Len(file)
PageOf(file, p) == IF p <= Len(file) THEN file[p] ELSE 0

(* The last of the frames from..to that holds page p, or zero. *)
LastOf(pages, p, from, to) == Largest({0} \cup {n \in from .. to : pages[n] = p})

walFindFrame(c, p) ==
    IF wc[c].hdr.mxFrame = 0 \/ wc[c].readLock <= 0 THEN 0
    ELSE LastOf(shm.aPgno, p, wc[c].minFrame, wc[c].hdr.mxFrame)

(* What connection c reads: its own changes, what it has cached (all it    *)
(* can have cached), what the log and the file hold.                       *)
PageRead(c, p) ==
    LET f == walFindFrame(c, p) IN IF f > 0 THEN wal.frames[f].val ELSE PageOf(db, p)

View(c) ==
    [p \in 1 .. IF tx[c].on THEN tx[c].size ELSE SizeBy(wc[c].hdr, db) |->
        IF p \in DOMAIN tx[c].dirty THEN tx[c].dirty[p]
        ELSE IF p \in DOMAIN cache[c] THEN cache[c][p]
        ELSE PageRead(c, p)]

(* What is left of a file that is new to the processes and old on the disk *)
(* when the power fails: of either length, each page or frame as it is or  *)
(* was, or junk where a write had not ended.                               *)
Leftovers(new, old, junk, i) ==
    {s[i] : s \in {t \in {new, old} : i <= Len(t)}} \cup
        (IF i > Len(new) \/ (i <= Len(old) /\ new[i] = old[i]) THEN {} ELSE {junk})

Longer(S, xs) == {Append(s, x) : s \in S, x \in xs}

Wrecks(new, old, junk) ==
    LET upTo[n \in 0 .. Largest({Len(new), Len(old)})] ==
            IF n = 0 THEN {<<>>}
            ELSE Longer(upTo[n - 1], Leftovers(new, old, junk, n))
    IN  upTo[Len(new)] \cup upTo[Len(old)]

Torn == -1

DbWrecks == IF db = dbDisk THEN {db} ELSE Wrecks(db, dbDisk, Torn)

WalWrecks ==
    IF wal = walDisk THEN {wal}
    ELSE {[salt |-> h[1], nCkpt |-> h[2], frames |-> f] :
              h \in {<<wal.salt, wal.nCkpt>>, <<walDisk.salt, walDisk.nCkpt>>},
              f \in Wrecks(wal.frames, walDisk.frames, Junk)}

-----------------------------------------------------------------------------
(* Connections.                                                            *)

NoTx == [on |-> FALSE, dirty |-> <<>>, size |-> 0, failed |-> FALSE]

(* What a call of kind "read", "write" or "ckpt" keeps in its variables.    *)
NoJob ==
    [kind |-> "none",
     mode |-> "none",       \* of the checkpoint
     h1 |-> ZeroHdr, changed |-> FALSE,
     mxI |-> 0, mark |-> 0, useWal |-> FALSE,
     commit |-> FALSE, list |-> <<>>, iFirst |-> 0, new |-> <<>>,
     i |-> 0, safe |-> 0, ok |-> TRUE]

NewWal == [hdr |-> ZeroHdr, readLock |-> -1, minFrame |-> 0, nCkpt |-> 0, iReCksum |-> 0]

Init ==
    /\ db = [p \in 1 .. InitSize |-> 0] /\ dbDisk = db
    /\ wal = EmptyLog /\ walDisk = EmptyLog
    /\ shm = ZeroShm
    /\ lock = [s \in Slots |-> Free]
    /\ wc = [c \in Conns |-> NewWal]
    /\ tx = [c \in Conns |-> NoTx]
    /\ cache = [c \in Conns |-> <<>>]
    /\ job = [c \in Conns |-> NoJob]
    /\ writes = 0 /\ salts = 0 /\ exits = 0
    /\ setting \in Settings
    /\ pc = [c \in Conns |-> IF c \in setting.users THEN "idle" ELSE "closed"]

At(c, label) == pc[c] = label
Goto(c, label) == pc' = [pc EXCEPT ![c] = label]
Step(c, from, to) == At(c, from) /\ Goto(c, to)
Set(c, field, v) == wc' = [wc EXCEPT ![c][field] = v]
Note(c, field, v) == job' = [job EXCEPT ![c][field] = v]
Acquire(c, S) == Lockable(S) /\ lock' = Locked(lock, c, S)
Release(c, S) == lock' = Unlocked(lock, c, S)

Opened(c) == ~At(c, "closed")
Idle(c) == At(c, "idle")
Others(c) == Conns \ {c}
Reading(c) == wc[c].readLock >= 0
Closing(c) == job[c].mode = "close"

rest == <<salts, exits, setting>>      \* what most steps leave alone, with files

-----------------------------------------------------------------------------
(* sqlite3WalBeginReadTransaction: read the header, choose a read mark.    *)

BeginRead(c) ==
    /\ c \in setting.readers
    /\ Step(c, "idle", "tryhdr") /\ ~Reading(c)
    /\ job' = [job EXCEPT ![c] = [NoJob EXCEPT !.kind = "read"]]
    /\ UNCHANGED <<files, shm, lock, wc, private, rest>>

(* walIndexTryHdr reads copy [0], then copy [1]. *)
TryHdr(c) ==
    /\ Step(c, "tryhdr", "tryhdr2")
    /\ Note(c, "h1", LiveHdr)
    /\ UNCHANGED <<files, shm, lock, wc, private, rest>>

AfterHdr(c) == IF job[c].kind = "read" THEN "choose" ELSE "ckpt"

(* A header was accepted: it becomes that of the connection. *)
Accept(c, h) ==
    /\ Set(c, "hdr", h)
    /\ job' = [job EXCEPT ![c].h1 = ZeroHdr, ![c].changed = @ \/ h # wc[c].hdr]

TryHdr2(c) ==
    /\ At(c, "tryhdr2")
    /\ IF job[c].h1 = shm.hdr[2] /\ job[c].h1.isInit
       THEN Accept(c, job[c].h1) /\ Goto(c, AfterHdr(c))
       ELSE Note(c, "h1", ZeroHdr) /\ Goto(c, "badhdr") /\ UNCHANGED wc
    /\ UNCHANGED <<files, shm, lock, private, rest>>

(* The bad header may be one that is being written: look again under the   *)
(* WRITE lock, that a checkpointer may hold already.                       *)
OwnWrite(c) == job[c].mode \in {"full", "truncate"}

BadHdr(c) ==
    /\ At(c, "badhdr")
    /\ writeLock(c) \/ Lockable({WAL_WRITE_LOCK})
    /\ IF shm.hdr[1] = shm.hdr[2] /\ LiveHdr.isInit
       THEN Accept(c, LiveHdr) /\ Goto(c, AfterHdr(c)) /\ UNCHANGED lock
       ELSE /\ lock' = Locked(lock, c, {WAL_WRITE_LOCK})
            /\ Goto(c, "recover")
            /\ UNCHANGED <<wc, job>>
    /\ UNCHANGED <<files, shm, private, rest>>

(* Busy: a reader tries again unless a recovery is running, a checkpoint    *)
(* gives up.  After an error the pager empties its cache.                  *)
ReadBusy(c, j) ==
    /\ IF j.kind = "ckpt"
       THEN Goto(c, "ckptend") /\ job' = [job EXCEPT ![c] = [j EXCEPT !.ok = FALSE]]
       ELSE IF Sharable(WAL_RECOVER_LOCK) THEN Goto(c, "tryhdr") /\ job' = [job EXCEPT ![c] = j]
       ELSE Goto(c, "idle") /\ job' = [job EXCEPT ![c] = NoJob]
    /\ cache' = IF j.kind = "ckpt" \/ Sharable(WAL_RECOVER_LOCK) THEN cache
                ELSE [cache EXCEPT ![c] = <<>>]
    /\ UNCHANGED <<tx, writes>>

BadHdrBusy(c) ==
    /\ At(c, "badhdr") /\ ~writeLock(c) /\ ~Lockable({WAL_WRITE_LOCK})
    /\ ReadBusy(c, job[c])
    /\ UNCHANGED <<files, shm, lock, wc, rest>>

-----------------------------------------------------------------------------
(* walIndexRecover: under WRITE, CKPT and RECOVER, rebuild the wal-index   *)
(* from the log file.                                                      *)

RecoverLocks(c) == {WAL_CKPT_LOCK, WAL_RECOVER_LOCK} \ {s \in Slots : Holds(c, s)}

(* What the recovery unlocks, with the WRITE lock unless the caller's. *)
RecoverHeld(c) ==
    (IF job[c].kind = "ckpt" THEN {WAL_RECOVER_LOCK} ELSE {WAL_CKPT_LOCK, WAL_RECOVER_LOCK})
    \cup (IF OwnWrite(c) THEN {} ELSE {WAL_WRITE_LOCK})

RecoverLock(c) ==
    /\ Step(c, "recover", "recover1")
    /\ Acquire(c, RecoverLocks(c))
    /\ UNCHANGED <<files, shm, wc, private, job, rest>>

(* *pChanged is set although nothing was recovered. *)
RecoverBusy(c) ==
    /\ At(c, "recover") /\ ~Lockable(RecoverLocks(c))
    /\ lock' = IF OwnWrite(c) THEN lock ELSE Unlocked(lock, c, {WAL_WRITE_LOCK})
    /\ ReadBusy(c, [job[c] EXCEPT !.changed = TRUE])
    /\ UNCHANGED <<files, shm, wc, rest>>

(* The frames are read and indexed; then the header is written, [1] first. *)
RecoverLog(c) ==
    /\ Step(c, "recover1", "recover2")
    /\ LET h == RecoveredHdr(wal)
       IN  /\ wc' = [wc EXCEPT ![c].hdr = h,
                               ![c].nCkpt = IF HasFrames(wal) THEN wal.nCkpt ELSE @]
           /\ shm' = [shm EXCEPT !.hdr[2] = h,
                                 !.aPgno = [n \in 1 .. ValidFrames(wal) |-> wal.frames[n].pg]]
    /\ UNCHANGED <<files, lock, private, job, rest>>

RecoverHdr0(c) ==
    /\ Step(c, "recover2", "recover3")
    /\ shm' = [shm EXCEPT !.hdr[1] = wc[c].hdr]
    /\ UNCHANGED <<files, lock, wc, private, job, rest>>

(* nBackfill and the marks nobody has locked are set, the locks given back. *)
(* This is one step: a mark is set under its own exclusive lock, so that no *)
(* reader holds it meanwhile, and one left as it was only protects more.    *)
RecoverInfo(c) ==
    /\ At(c, "recover3")
    /\ Goto(c, AfterHdr(c))
    /\ LET n == wc[c].hdr.mxFrame
       IN  shm' = [shm EXCEPT !.nBackfill = 0,
              !.aReadMark = [i \in 0 .. WAL_NREADER - 1 |->
                  IF i = 0 THEN 0
                  ELSE IF ~Lockable({WAL_READ_LOCK(i)}) THEN @[i]
                  ELSE IF i = 1 /\ n > 0 THEN n ELSE READMARK_NOT_USED]]
    /\ Release(c, RecoverHeld(c))
    /\ Note(c, "changed", TRUE)
    /\ UNCHANGED <<files, wc, private, rest>>

-----------------------------------------------------------------------------
(* walTryBeginRead, once the header is read (useWal: a writer that has     *)
(* tried to restart the log looks for a mark).                             *)

(* All is in the database file: the log can be ignored.  The look at       *)
(* nBackfill and the lock are one step: a log that grew or was restarted   *)
(* between them has another header, and Check0 compares it.                *)
ChooseDb(c) ==
    /\ Step(c, "choose", "check0")
    /\ shm.nBackfill = wc[c].hdr.mxFrame
    /\ Sharable(WAL_READ_LOCK(0))
    /\ lock' = Shared(lock, c, WAL_READ_LOCK(0))
    /\ UNCHANGED <<files, shm, wc, private, job, rest>>

(* The read transaction begins: with a new header the cache is out of date. *)
ReadBegun(c) ==
    /\ IF job[c].useWal
       THEN /\ Goto(c, "log") /\ Note(c, "useWal", FALSE)
            /\ UNCHANGED cache
       ELSE /\ Goto(c, "idle") /\ job' = [job EXCEPT ![c] = NoJob]
            /\ cache' = IF job[c].changed THEN [cache EXCEPT ![c] = <<>>] ELSE cache

(* WAL_RETRY: *pChanged stays as it is. *)
Retry(c) ==
    /\ Goto(c, IF job[c].useWal THEN "scan" ELSE "tryhdr")
    /\ job' = [job EXCEPT ![c].mxI = 0, ![c].mark = 0]
    /\ UNCHANGED cache

Check0(c) ==
    /\ At(c, "check0")
    /\ IF wc[c].hdr = LiveHdr
       THEN Set(c, "readLock", 0) /\ ReadBegun(c) /\ UNCHANGED lock
       ELSE Release(c, {WAL_READ_LOCK(0)}) /\ Retry(c) /\ UNCHANGED wc
    /\ UNCHANGED <<files, shm, tx, writes, rest>>

(* The last of the marks that are the largest up to hdr.mxFrame: one look   *)
(* at them all, as CheckMark compares the chosen one once it is locked.     *)
Usable(c) == {i \in 1 .. WAL_NREADER - 1 : shm.aReadMark[i] <= wc[c].hdr.mxFrame}
BestMark(c) ==
    LET top == Largest({shm.aReadMark[i] : i \in Usable(c)})
    IN  Largest({i \in Usable(c) : shm.aReadMark[i] = top})

Scan(c) ==
    /\ \/ At(c, "choose") /\ ~(shm.nBackfill = wc[c].hdr.mxFrame /\ Sharable(WAL_READ_LOCK(0)))
       \/ At(c, "scan")
    /\ IF Usable(c) = {} THEN Goto(c, "setmark") /\ UNCHANGED job
       ELSE LET i == BestMark(c)
            IN  /\ job' = [job EXCEPT ![c].mxI = i, ![c].mark = shm.aReadMark[i]]
                /\ Goto(c, IF shm.aReadMark[i] < wc[c].hdr.mxFrame THEN "setmark" ELSE "lockmark")
    /\ UNCHANGED <<files, shm, lock, wc, private, rest>>

(* Move the first mark that nobody has locked to hdr.mxFrame; without one  *)
(* make do with a smaller mark, or try again.                              *)
SetMark(c) ==
    /\ At(c, "setmark")
    /\ LET free == {i \in 1 .. WAL_NREADER - 1 : Lockable({WAL_READ_LOCK(i)})}
           i == CHOOSE k \in free : \A m \in free : k <= m
       IN  IF free # {}
           THEN /\ shm' = [shm EXCEPT !.aReadMark[i] = wc[c].hdr.mxFrame]
                /\ job' = [job EXCEPT ![c].mxI = i, ![c].mark = wc[c].hdr.mxFrame]
                /\ Goto(c, "lockmark")
                /\ UNCHANGED cache
           ELSE /\ IF job[c].mxI = 0 THEN Retry(c)
                   ELSE Goto(c, "lockmark") /\ UNCHANGED <<job, cache>>
                /\ UNCHANGED shm
    /\ UNCHANGED <<files, lock, wc, tx, writes, rest>>

LockMark(c) ==
    /\ At(c, "lockmark")
    /\ LET s == WAL_READ_LOCK(job[c].mxI)
       IN  IF Sharable(s)
           THEN /\ lock' = Shared(lock, c, s) /\ Goto(c, "minframe")
                /\ UNCHANGED <<job, cache>>
           ELSE Retry(c) /\ UNCHANGED lock
    /\ UNCHANGED <<files, shm, wc, tx, writes, rest>>

MinFrame(c) ==
    /\ Step(c, "minframe", "checkmark")
    /\ Set(c, "minFrame", shm.nBackfill + 1)
    /\ UNCHANGED <<files, shm, lock, private, job, rest>>

(* Nothing was committed or restarted since the header was read. *)
Current(c) == wc[c].hdr = LiveHdr

CheckMark(c) ==
    /\ At(c, "checkmark")
    /\ LET i == job[c].mxI
       IN  IF shm.aReadMark[i] = job[c].mark /\ Current(c)
           THEN Set(c, "readLock", i) /\ ReadBegun(c) /\ UNCHANGED lock
           ELSE Release(c, {WAL_READ_LOCK(i)}) /\ Retry(c) /\ UNCHANGED wc
    /\ UNCHANGED <<files, shm, tx, writes, rest>>

EndRead(c) ==
    /\ Idle(c) /\ Reading(c) /\ ~tx[c].on
    /\ cache' = [cache EXCEPT ![c] = View(c)]
    /\ Release(c, {WAL_READ_LOCK(wc[c].readLock)})
    /\ Set(c, "readLock", -1)
    /\ UNCHANGED <<files, shm, tx, writes, pc, job, rest>>

-----------------------------------------------------------------------------
(* A write transaction of the pager.                                       *)

(* BUSY, or BUSY_SNAPSHOT when the snapshot is not the newest: no step. *)
BeginWrite(c) ==
    /\ c \in setting.writers /\ Idle(c) /\ Reading(c) /\ ~tx[c].on
    /\ wc[c].hdr = LiveHdr
    /\ Acquire(c, {WAL_WRITE_LOCK})
    /\ tx' = [tx EXCEPT ![c] = [NoTx EXCEPT !.on = TRUE, !.size = Len(View(c))]]
    /\ UNCHANGED <<files, shm, wc, cache, writes, pc, job, rest>>

InWrite(c) == Idle(c) /\ tx[c].on /\ ~tx[c].failed

Without(f, S) == [x \in DOMAIN f \ S |-> f[x]]

Modify(c, p) ==
    /\ InWrite(c) /\ writes < setting.writes
    /\ p <= tx[c].size + 1 /\ p <= setting.pages
    /\ writes' = writes + 1
    /\ tx' = [tx EXCEPT ![c].dirty = Put(tx[c].dirty, p, writes + 1),
                        ![c].size = Largest({@, p})]
    /\ cache' = [cache EXCEPT ![c] = Without(cache[c], {p})]
    /\ UNCHANGED <<files, shm, lock, wc, pc, job, rest>>

CanShrink_ToNothing(c) == tx[c].size > 0                                \* mutant

CanShrink(c) == tx[c].size > 1

(* sqlite3PagerTruncateImage, after page 1 was changed to say so. *)
Shrink(c) ==
    /\ InWrite(c)
    /\ CanShrink(c) /\ 1 \in DOMAIN tx[c].dirty
    /\ tx' = [tx EXCEPT ![c].size = @ - 1]
    /\ UNCHANGED <<files, shm, lock, wc, cache, writes, pc, job, rest>>

Sortings(S) ==
    {s \in [1 .. Cardinality(S) -> S] : \A i, j \in DOMAIN s : i < j => s[i] < s[j]}

(* walFrames() begins: frames of this transaction may be overwritten. *)
FramesStart(c, list, commit) ==
    /\ Goto(c, IF wc[c].readLock = 0 THEN "restart" ELSE "log")
    /\ job' = [job EXCEPT ![c] =
          [NoJob EXCEPT !.kind = "write", !.commit = commit, !.list = list,
                        !.iFirst = IF wc[c].hdr = LiveHdr THEN 0 ELSE LiveHdr.mxFrame + 1]]

(* pagerStress, and page 1 is in use until the commit.  The page may be     *)
(* read again into the cache.                                              *)
Spill(c, p) ==
    /\ InWrite(c) /\ p \in DOMAIN tx[c].dirty \ {1}
    /\ FramesStart(c, <<p>>, FALSE)
    /\ UNCHANGED <<files, shm, lock, wc, private, rest>>

(* The dirty pages of the new database; page 1 if none is dirty. *)
Commit(c) ==
    /\ InWrite(c)
    /\ tx[c].dirty # <<>> \/ wc[c].hdr # LiveHdr
    /\ \E list \in IF tx[c].dirty = <<>> THEN {<<1>>}
                   ELSE Sortings({p \in DOMAIN tx[c].dirty : p <= tx[c].size}) :
          list # <<>> /\ FramesStart(c, list, TRUE)
    /\ UNCHANGED <<files, shm, lock, wc, private, rest>>

(* Nothing was changed, or the changes are taken back: sqlite3WalUndo,     *)
(* walCleanupHash, pagerUndoCallback for each page that was changed.       *)
CutTo(pages, n) == IF n = 0 THEN pages ELSE SubSeq(pages, 1, n)
Undone(c) == {shm.aPgno[n] : n \in LiveHdr.mxFrame + 1 .. wc[c].hdr.mxFrame} \cup DOMAIN tx[c].dirty

Rollback(c) ==
    /\ Idle(c) /\ tx[c].on
    /\ cache' = [cache EXCEPT ![c] = Without(cache[c], Undone(c))]
    /\ shm' = IF wc[c].hdr.mxFrame = LiveHdr.mxFrame THEN shm
              ELSE [shm EXCEPT !.aPgno = CutTo(@, LiveHdr.mxFrame)]
    /\ wc' = [wc EXCEPT ![c].hdr = LiveHdr, ![c].iReCksum = 0]
    /\ tx' = [tx EXCEPT ![c] = NoTx]
    /\ Release(c, {WAL_WRITE_LOCK})
    /\ UNCHANGED <<files, writes, pc, job, rest>>

-----------------------------------------------------------------------------
(* walRestartHdr, for a writer that finds all frames copied to the         *)
(* database file, or at the end of a truncating checkpoint: the header is  *)
(* written, [1] first, then nBackfill and the marks.                       *)

RestartHdr(c, salt) ==
    LET h == [wc[c].hdr EXCEPT !.mxFrame = 0, !.salt = salt, !.isInit = TRUE]
    IN  /\ wc' = [wc EXCEPT ![c].hdr = h, ![c].nCkpt = @ + 1]
        /\ shm' = [shm EXCEPT !.hdr[2] = h]

Restart(c) ==
    /\ Step(c, "restart", "restart1")
    /\ job[c].kind = "write" => shm.nBackfill > 0
    /\ salts < MaxSalts /\ salts' = salts + 1
    /\ Acquire(c, ReadersSlots)
    /\ RestartHdr(c, salts + 1)
    /\ UNCHANGED <<files, private, job, exits, setting>>

RestartHdr0(c) ==
    /\ Step(c, "restart1", "restart2")
    /\ shm' = [shm EXCEPT !.hdr[1] = wc[c].hdr]
    /\ UNCHANGED <<files, lock, wc, private, job, rest>>

(* nBackfill and the marks are set in one step: the restart holds the locks *)
(* of all of them, and one left as it was only protects more.               *)
RestartedMarks == [i \in 0 .. WAL_NREADER - 1 |-> IF i <= 1 THEN 0 ELSE READMARK_NOT_USED]

(* A writer gives the marks free, and READ_LOCK(0) for a mark. *)
LeaveRead0(c, held) ==
    /\ Goto(c, "scan") /\ Note(c, "useWal", TRUE)
    /\ Release(c, held \cup {WAL_READ_LOCK(0)})

RestartInfo(c) ==
    /\ At(c, "restart2")
    /\ shm' = [shm EXCEPT !.nBackfill = 0, !.aReadMark = RestartedMarks]
    /\ IF job[c].kind = "write"
       THEN LeaveRead0(c, ReadersSlots) /\ Set(c, "readLock", -1)
       ELSE Goto(c, "trunclog") /\ UNCHANGED <<lock, wc, job>>
    /\ UNCHANGED <<files, private, rest>>

(* The log is empty or somebody reads it. *)
CannotRestart(c) ==
    /\ At(c, "restart")
    /\ shm.nBackfill = 0 \/ ~Lockable(ReadersSlots)
    /\ IF job[c].kind = "write"
       THEN LeaveRead0(c, {}) /\ Set(c, "readLock", -1)
       ELSE Goto(c, "ckptend") /\ Note(c, "ok", FALSE) /\ UNCHANGED <<lock, wc>>
    /\ UNCHANGED <<files, shm, private, rest>>

-----------------------------------------------------------------------------
(* walFrames.                                                              *)

(* A connection that has not numbered a log yet draws the salt. *)
WriteLogHeader(c) ==
    /\ Step(c, "log", "synchdr")
    /\ wc[c].hdr.mxFrame = 0
    /\ LET fresh == wc[c].nCkpt = 0
           salt == IF fresh THEN salts + 1 ELSE wc[c].hdr.salt
       IN  /\ fresh => salts < MaxSalts
           /\ salts' = IF fresh THEN salts + 1 ELSE salts
           /\ wal' = [wal EXCEPT !.salt = salt, !.nCkpt = wc[c].nCkpt]
           /\ wc' = [wc EXCEPT ![c].hdr.salt = salt, ![c].hdr.sum = <<wc[c].nCkpt>>]
    /\ UNCHANGED <<db, dbDisk, walDisk, shm, lock, private, job, exits, setting>>

SyncHeader(c) ==
    /\ Step(c, "synchdr", "frames")
    /\ walDisk' = wal
    /\ UNCHANGED <<db, dbDisk, wal, shm, lock, wc, private, job, rest>>

(* The frames after the first k pages of the list are written.  A frame of *)
(* this transaction is overwritten in place, its checksum and those after  *)
(* it are made good at the commit; the commit frame is always a new one.   *)
Overwrites(c, k) ==
    /\ job[c].iFirst > 0
    /\ k < Len(job[c].list) \/ ~job[c].commit
    /\ walFindFrame(c, job[c].list[k]) >= job[c].iFirst

Unwritten(c) ==
    [frames |-> wal.frames, sum |-> wc[c].hdr.sum, re |-> wc[c].iReCksum, new |-> <<>>]

PageWritten(c, k, s) ==
    LET p == job[c].list[k]
        v == IF p \in DOMAIN tx[c].dirty THEN tx[c].dirty[p] ELSE View(c)[p]
        f == walFindFrame(c, p)
        size == IF job[c].commit /\ k = Len(job[c].list) THEN tx[c].size ELSE 0
        x == Chained(s.sum, p, v, size, wc[c].hdr.salt)
    IN  IF Overwrites(c, k)
        THEN [s EXCEPT !.frames[f].val = v, !.re = IF @ = 0 \/ f < @ THEN f ELSE @]
        ELSE [s EXCEPT !.frames = Put(s.frames, wc[c].hdr.mxFrame + Len(s.new) + 1, x),
                       !.sum = x.sum, !.new = Append(@, p)]

Written(c) ==
    LET after[k \in 0 .. Len(job[c].list)] ==
            IF k = 0 THEN Unwritten(c) ELSE PageWritten(c, k, after[k - 1])
    IN  after

(* walRewriteChecksums. *)
LastWritten(c, s) == wc[c].hdr.mxFrame + Len(s.new)

NewSums(c, s) ==
    LET sum[n \in 0 .. LastWritten(c, s)] ==
            IF n < s.re THEN SumUpTo([wal EXCEPT !.frames = s.frames], n)
            ELSE Append(sum[n - 1], Ident(s.frames[n]))
    IN  sum

Rechecked_Not(c, s) == s                                                \* mutant

Rechecked(c, s) ==
    IF ~job[c].commit \/ s.re = 0 THEN s
    ELSE LET sum == NewSums(c, s)
         IN  [s EXCEPT !.re = 0, !.sum = sum[LastWritten(c, s)],
                       !.frames = [n \in DOMAIN @ |->
                           IF n \in s.re .. LastWritten(c, s)
                           THEN [@[n] EXCEPT !.sum = sum[n]] ELSE @[n]]]

InFrames(c) == At(c, "frames") \/ (At(c, "log") /\ wc[c].hdr.mxFrame > 0)

WriteFrames(c) ==
    /\ InFrames(c)
    /\ LET s == Rechecked(c, Written(c)[Len(job[c].list)])
       IN  /\ wal' = [wal EXCEPT !.frames = s.frames]
           /\ wc' = [wc EXCEPT ![c].hdr.sum = s.sum, ![c].iReCksum = s.re]
           /\ Note(c, "new", s.new)
    /\ Goto(c, IF job[c].commit /\ fullSync THEN "sync" ELSE "index")
    /\ UNCHANGED <<db, dbDisk, walDisk, shm, lock, private, rest>>

SyncFrames(c) ==
    /\ Step(c, "sync", "index")
    /\ walDisk' = wal
    /\ UNCHANGED <<db, dbDisk, wal, shm, lock, wc, private, job, rest>>

(* An error of a write or of the sync: the transaction is rolled back. *)
Fails(c) ==
    /\ setting.io /\ job[c].commit
    /\ \/ At(c, "sync") /\ UNCHANGED wal
       \/ InFrames(c) /\ \E k \in 0 .. Len(job[c].list) - 1 :
             wal' = [wal EXCEPT !.frames = Written(c)[k].frames]
    /\ tx' = [tx EXCEPT ![c].failed = TRUE]
    /\ Goto(c, "idle")
    /\ job' = [job EXCEPT ![c] = NoJob]
    /\ UNCHANGED <<db, dbDisk, walDisk, shm, lock, wc, cache, writes, rest>>

(* walIndexAppend clears what another writer has left behind; a commit     *)
(* writes the header, [1] first.                                           *)
Index(c) ==
    /\ At(c, "index")
    /\ LET j == job[c]
           n == wc[c].hdr.mxFrame
           h == [wc[c].hdr EXCEPT !.mxFrame = n + Len(j.new),
                                  !.isInit = @ \/ j.commit,
                                  !.iChange = IF j.commit THEN @ + 1 ELSE @,
                                  !.nPage = IF j.commit THEN tx[c].size ELSE @]
       IN  /\ shm' = [shm EXCEPT !.aPgno = IF j.new = <<>> THEN @ ELSE SubSeq(@, 1, n) \o j.new,
                                 !.hdr[2] = IF j.commit THEN h ELSE @]
           /\ Set(c, "hdr", h)
           /\ IF j.commit THEN Goto(c, "publish") /\ UNCHANGED <<private, job>>
              ELSE LET p == j.list[1]
                   IN  /\ Goto(c, "idle") /\ job' = [job EXCEPT ![c] = NoJob]
                       /\ cache' \in {cache, [cache EXCEPT ![c] = Put(cache[c], p, tx[c].dirty[p])]}
                       /\ tx' = [tx EXCEPT ![c].dirty = Without(tx[c].dirty, {p})]
                       /\ UNCHANGED writes
    /\ UNCHANGED <<files, lock, rest>>

(* The commit is there for everybody; sqlite3WalEndWriteTransaction. *)
Publish(c) ==
    /\ Step(c, "publish", "idle")
    /\ shm' = [shm EXCEPT !.hdr[1] = wc[c].hdr]
    /\ cache' = [cache EXCEPT ![c] =
          [p \in (DOMAIN cache[c] \cup DOMAIN tx[c].dirty) \cap 1 .. tx[c].size |->
              IF p \in DOMAIN tx[c].dirty THEN tx[c].dirty[p] ELSE cache[c][p]]]
    /\ tx' = [tx EXCEPT ![c] = NoTx]
    /\ job' = [job EXCEPT ![c] = NoJob]
    /\ Release(c, {WAL_WRITE_LOCK})
    /\ UNCHANGED <<files, wc, writes, rest>>

-----------------------------------------------------------------------------
(* sqlite3WalCheckpoint.                                                   *)

StartCkpt(c, mode) ==
    /\ Idle(c) /\ ~Reading(c)
    /\ Goto(c, IF mode \in {"full", "truncate"} THEN "ckptwrite" ELSE "tryhdr")
    /\ Acquire(c, {WAL_CKPT_LOCK})
    /\ job' = [job EXCEPT ![c] = [NoJob EXCEPT !.kind = "ckpt", !.mode = mode]]
    /\ UNCHANGED <<files, shm, wc, private, rest>>

Checkpoint(c) == c \in setting.checkpointers /\ \E mode \in setting.modes : StartCkpt(c, mode)

(* Without the WRITE lock the checkpoint is passive. *)
CkptWrite(c) ==
    /\ Step(c, "ckptwrite", "tryhdr")
    /\ IF Lockable({WAL_WRITE_LOCK})
       THEN Acquire(c, {WAL_WRITE_LOCK}) /\ UNCHANGED job
       ELSE Note(c, "mode", "passive") /\ UNCHANGED lock
    /\ UNCHANGED <<files, shm, wc, private, rest>>

(* Only a truncating checkpoint goes on when all is copied. *)
AfterCopy(c) == IF job[c].mode = "truncate" THEN "ckptdone" ELSE "ckptend"

(* walCheckpoint: how many frames are safe to copy, as far as the readers' *)
(* marks tell.  The mark of a reader that is gone is moved out of the way. *)
CkptStart(c) ==
    /\ At(c, "ckpt")
    /\ IF shm.nBackfill < wc[c].hdr.mxFrame
       THEN /\ Goto(c, "mark")
            /\ job' = [job EXCEPT ![c].i = 1, ![c].safe = wc[c].hdr.mxFrame]
       ELSE Goto(c, AfterCopy(c)) /\ UNCHANGED job
    /\ UNCHANGED <<files, shm, lock, wc, private, rest>>

SafeBelow_Ignored(c) == job[c].safe                                     \* mutant

(* A reader that cannot be moved keeps what lies beyond its mark. *)
SafeBelow(c) == job[c].mark

NextMark(c, safe) ==
    /\ job' = [job EXCEPT ![c].i = @ + 1, ![c].safe = safe, ![c].mark = 0]
    /\ Goto(c, IF job[c].i = WAL_NREADER - 1 THEN "lock0" ELSE "mark")

CkptReadMark(c) ==
    /\ At(c, "mark")
    /\ LET y == shm.aReadMark[job[c].i]
       IN  IF job[c].safe > y THEN Note(c, "mark", y) /\ Goto(c, "lockmk")
           ELSE NextMark(c, job[c].safe)
    /\ UNCHANGED <<files, shm, lock, wc, private, rest>>

CkptLockMark(c) ==
    /\ At(c, "lockmk")
    /\ LET i == job[c].i
       IN  IF Lockable({WAL_READ_LOCK(i)})
           THEN /\ shm' = [shm EXCEPT !.aReadMark[i] =
                              IF i = 1 THEN job[c].safe ELSE READMARK_NOT_USED]
                /\ NextMark(c, job[c].safe)
           ELSE NextMark(c, SafeBelow(c)) /\ UNCHANGED shm
    /\ UNCHANGED <<files, lock, wc, private, rest>>

(* The pages of frames nBackfill+1..safe that have no later frame. *)
ToCopy(c) ==
    LET h == wc[c].hdr
        last(p) == LastOf(shm.aPgno, p, 1, h.mxFrame)
    IN  Sortings({p \in 1 .. h.nPage : last(p) > shm.nBackfill /\ last(p) <= job[c].safe})

Unwrapped_Unchecked(c) == TRUE                                          \* mutant

(* The log has not been restarted since the header was read. *)
Unwrapped(c) == LiveHdr.salt = wc[c].hdr.salt

(* The look at nBackfill, the lock and the comparison of the salts are one  *)
(* step: with READ_LOCK(0) held nobody restarts the log, and a restart      *)
(* before it is what the salts tell.                                        *)
CkptLock0(c) ==
    /\ At(c, "lock0")
    /\ IF shm.nBackfill < job[c].safe /\ Lockable({WAL_READ_LOCK(0)}) /\ Unwrapped(c)
       THEN /\ Acquire(c, {WAL_READ_LOCK(0)}) /\ Goto(c, "synclog")
            /\ \E list \in ToCopy(c) : Note(c, "list", list)
       ELSE Goto(c, AfterCopy(c)) /\ UNCHANGED <<lock, job>>
    /\ UNCHANGED <<files, shm, wc, private, rest>>

SyncedLog_Not == walDisk                                                \* mutant

SyncedLog == wal

CkptSync(c) ==
    /\ Step(c, "synclog", "copy")
    /\ walDisk' = SyncedLog
    /\ UNCHANGED <<db, dbDisk, wal, shm, lock, wc, private, job, rest>>

WithPage(file, p, v) ==
    [q \in 1 .. Largest({p, Len(file)}) |-> IF q = p THEN v ELSE PageOf(file, q)]

CkptCopy(c) ==
    /\ At(c, "copy") /\ job[c].list # <<>>
    /\ LET p == Head(job[c].list)
       IN  db' = WithPage(db, p, wal.frames[LastOf(shm.aPgno, p, 1, wc[c].hdr.mxFrame)].val)
    /\ Note(c, "list", Tail(job[c].list))
    /\ UNCHANGED <<dbDisk, wal, walDisk, shm, lock, wc, private, pc, rest>>

(* With the whole log copied the database file gets its size and is synced. *)
Resized(file, n) == [q \in 1 .. n |-> PageOf(file, q)]

CkptTruncate(c) ==
    /\ At(c, "copy") /\ job[c].list = <<>>
    /\ IF job[c].safe = LiveHdr.mxFrame
       THEN db' = Resized(db, wc[c].hdr.nPage) /\ Goto(c, "syncdb")
       ELSE Goto(c, "backfill") /\ UNCHANGED db
    /\ UNCHANGED <<dbDisk, wal, walDisk, shm, lock, wc, private, job, rest>>

CkptSyncDb(c) ==
    /\ Step(c, "syncdb", "backfill")
    /\ dbDisk' = db
    /\ UNCHANGED <<db, wal, walDisk, shm, lock, wc, private, job, rest>>

CkptBackfill(c) ==
    /\ At(c, "backfill") /\ Goto(c, AfterCopy(c))
    /\ shm' = [shm EXCEPT !.nBackfill = job[c].safe]
    /\ Release(c, {WAL_READ_LOCK(0)})
    /\ UNCHANGED <<files, wc, private, job, rest>>

(* An error, or an interrupt before a page is copied. *)
CkptFails(c) ==
    /\ setting.io
    /\ pc[c] \in {"synclog", "copy", "syncdb"}
    /\ Goto(c, "ckptend") /\ Note(c, "ok", FALSE)
    /\ Release(c, {WAL_READ_LOCK(0)})
    /\ UNCHANGED <<files, shm, wc, private, rest>>

CkptDone(c) ==
    /\ At(c, "ckptdone")
    /\ Goto(c, IF shm.nBackfill >= wc[c].hdr.mxFrame THEN "restart" ELSE "ckptend")
    /\ UNCHANGED <<files, shm, lock, wc, private, job, rest>>

TruncateLog(c) ==
    /\ Step(c, "trunclog", "ckptend")
    /\ wal' = EmptyLog
    /\ Release(c, ReadersSlots)
    /\ UNCHANGED <<db, dbDisk, walDisk, shm, wc, private, job, rest>>

(* With a new header the pager's cache is out of date: forget the header.  *)
CkptEnd(c) ==
    /\ At(c, "ckptend")
    /\ wc' = IF job[c].changed THEN [wc EXCEPT ![c].hdr = ZeroHdr] ELSE wc
    /\ Release(c, {WAL_CKPT_LOCK} \cup (IF OwnWrite(c) THEN {WAL_WRITE_LOCK} ELSE {}))
    /\ IF Closing(c) THEN Goto(c, "closewal") /\ UNCHANGED job
       ELSE Goto(c, "idle") /\ job' = [job EXCEPT ![c] = NoJob]
    /\ UNCHANGED <<files, shm, private, rest>>

-----------------------------------------------------------------------------
(* Opening, closing, dying.                                                *)

Open(c) ==
    /\ c \in setting.users
    /\ Step(c, "closed", "idle")
    /\ \A d \in Others(c) : ~Closing(d)
    /\ UNCHANGED <<files, shm, lock, wc, private, job, rest>>

(* What a connection has in its memory is gone, its locks too; the         *)
(* wal-index with the last of the processes.                               *)
Gone(S) ==
    /\ pc' = [c \in Conns |-> IF c \in S THEN "closed" ELSE pc[c]]
    /\ job' = [c \in Conns |-> IF c \in S THEN NoJob ELSE job[c]]
    /\ wc' = [c \in Conns |-> IF c \in S THEN NewWal ELSE wc[c]]
    /\ tx' = [c \in Conns |-> IF c \in S THEN NoTx ELSE tx[c]]
    /\ cache' = [c \in Conns |-> IF c \in S THEN <<>> ELSE cache[c]]
    /\ lock' = [s \in Slots |-> [shared |-> lock[s].shared \ S, excl |-> lock[s].excl \ S]]
    /\ shm' = IF \A c \in Conns \ S : At(c, "closed") THEN ZeroShm ELSE shm
    /\ UNCHANGED <<writes, salts, setting>>

Exit == exits < setting.exits /\ exits' = exits + 1

(* sqlite3WalClose: the last connection checkpoints and deletes the log. *)
Close(c) ==
    /\ Idle(c) /\ ~Reading(c) /\ exits < setting.exits
    /\ IF \A d \in Others(c) : At(d, "closed")
       THEN StartCkpt(c, "close")
       ELSE Gone({c}) /\ Exit /\ UNCHANGED files

CloseWal(c) ==
    /\ At(c, "closewal")
    /\ Gone({c}) /\ Exit
    /\ wal' = IF job[c].ok THEN EmptyLog ELSE wal
    /\ UNCHANGED <<db, dbDisk, walDisk>>

Mortal(c) ==
    /\ Opened(c)
    /\ \/ setting.die = "always"
       \/ setting.die = "spared" /\ ~At(c, "restart2")

Death(c) ==
    /\ Mortal(c)
    /\ \/ UNCHANGED wal
       \/ InFrames(c) /\ \E k \in 1 .. Len(job[c].list) - 1 :
             wal' = [wal EXCEPT !.frames = Written(c)[k].frames]
    /\ Gone({c}) /\ Exit
    /\ UNCHANGED <<db, dbDisk, walDisk>>

PowerFailure ==
    /\ setting.power
    /\ db' \in DbWrecks /\ dbDisk' = db'
    /\ wal' \in WalWrecks /\ walDisk' = wal'
    /\ Gone(Conns) /\ Exit

-----------------------------------------------------------------------------
ReadStep(c) ==
    \/ TryHdr(c) \/ TryHdr2(c) \/ BadHdr(c) \/ BadHdrBusy(c)
    \/ RecoverLock(c) \/ RecoverBusy(c) \/ RecoverLog(c) \/ RecoverHdr0(c) \/ RecoverInfo(c)
    \/ ChooseDb(c) \/ Check0(c) \/ Scan(c) \/ SetMark(c) \/ LockMark(c) \/ MinFrame(c)
    \/ CheckMark(c)

WriteStep(c) ==
    \/ Restart(c) \/ RestartHdr0(c) \/ RestartInfo(c) \/ CannotRestart(c)
    \/ WriteLogHeader(c) \/ SyncHeader(c) \/ WriteFrames(c) \/ SyncFrames(c)
    \/ Index(c) \/ Publish(c)

CkptStep(c) ==
    \/ CkptWrite(c) \/ CkptStart(c) \/ CkptReadMark(c) \/ CkptLockMark(c) \/ CkptLock0(c)
    \/ CkptSync(c) \/ CkptCopy(c) \/ CkptTruncate(c) \/ CkptSyncDb(c) \/ CkptBackfill(c)
    \/ CkptDone(c) \/ TruncateLog(c) \/ CkptEnd(c) \/ CloseWal(c)

Next ==
    \/ \E c \in Conns :
          \/ BeginRead(c) \/ EndRead(c) \/ ReadStep(c)
          \/ BeginWrite(c) \/ Shrink(c) \/ Commit(c) \/ Rollback(c) \/ WriteStep(c) \/ Fails(c)
          \/ \E p \in Pages : Modify(c, p) \/ Spill(c, p)
          \/ Checkpoint(c) \/ CkptStep(c) \/ CkptFails(c)
          \/ Open(c) \/ Close(c) \/ Death(c)
    \/ PowerFailure

Spec == Init /\ [][Next]_vars
=============================================================================
