------------------------------ MODULE WalProofs -----------------------------
(***************************************************************************)
(* The locks and the types of the write-ahead log.  First, what each step  *)
(* does to the connection that takes it; which locks of the wal-index a    *)
(* connection holds follows from where its call stands, and an exclusive   *)
(* lock is held alone.  Then the files, the wal-index and what the         *)
(* connections keep of them are well formed, whatever a crash leaves, and  *)
(* the log holds every frame that somebody counts.                         *)
(***************************************************************************)
EXTENDS WalRecovery, WellFoundedInduction, FiniteSetTheorems, SequenceTheorems, TLAPS

(* The fields of the records, which an EXCEPT needs.                       *)
ShapeOf(w, t, j) ==
    /\ DOMAIN w = {"hdr", "readLock", "minFrame", "nCkpt", "iReCksum"}
    /\ DOMAIN t = {"on", "dirty", "size", "failed"}
    /\ DOMAIN j = {"kind", "mode", "h1", "changed", "mxI", "mark", "useWal", "commit", "list",
                   "iFirst", "new", "i", "safe", "ok"}

Shapes ==
    /\ DOMAIN wc = Conns /\ DOMAIN tx = Conns /\ DOMAIN job = Conns /\ DOMAIN pc = Conns
    /\ setting \in Settings

Shaped == Shapes /\ \A c \in Conns : ShapeOf(wc[c], tx[c], job[c])

(* The step of connection c takes it to p, with j, w and t; the others     *)
(* stay where they are.                                                    *)
Becomes(c, p, j, w, t) ==
    /\ Shapes'
    /\ pc'[c] = p /\ job'[c] = j /\ wc'[c] = w /\ tx'[c] = t
    /\ \A d \in Others(c) :
          pc'[d] = pc[d] /\ job'[d] = job[d] /\ wc'[d] = wc[d] /\ tx'[d] = tx[d]

(* Names for what some of the steps work out.                              *)
FreeMarks == {i \in 1 .. WAL_NREADER - 1 : Lockable({WAL_READ_LOCK(i)})}

FirstFree == CHOOSE k \in FreeMarks : \A m \in FreeMarks : k <= m

FramesJob(c, list, commit) ==
    [NoJob EXCEPT !.kind = "write", !.commit = commit, !.list = list,
                  !.iFirst = IF wc[c].hdr = LiveHdr THEN 0 ELSE LiveHdr.mxFrame + 1]

CommitLists(c) ==
    IF tx[c].dirty = <<>> THEN {<<1>>} ELSE Sortings({p \in DOMAIN tx[c].dirty : p <= tx[c].size})

RestartedHdr(c) == [wc[c].hdr EXCEPT !.mxFrame = 0, !.salt = salts + 1, !.isInit = TRUE]

NewSalt(c) == IF wc[c].nCkpt = 0 THEN salts + 1 ELSE wc[c].hdr.salt

AllWritten(c) == Rechecked(c, Written(c)[Len(job[c].list)])

IndexedHdr(c) ==
    [wc[c].hdr EXCEPT !.mxFrame = wc[c].hdr.mxFrame + Len(job[c].new),
                      !.isInit = @ \/ job[c].commit,
                      !.iChange = IF job[c].commit THEN @ + 1 ELSE @,
                      !.nPage = IF job[c].commit THEN tx[c].size ELSE @]

LEMMA BeginReadDoes ==
  ASSUME Shaped, NEW c \in Conns, BeginRead(c)
  PROVE  Becomes(c, "tryhdr", [NoJob EXCEPT !.kind = "read"],
            wc[c], tx[c])
BY DEF BeginRead, Becomes, Shaped, Shapes, ShapeOf, Step, At, Goto, Set, Note,
   files, private, rest, Others

LEMMA TryHdrDoes ==
  ASSUME Shaped, NEW c \in Conns, TryHdr(c)
  PROVE  Becomes(c, "tryhdr2", [job[c] EXCEPT !.h1 = LiveHdr],
            wc[c], tx[c])
BY DEF TryHdr, Becomes, Shaped, Shapes, ShapeOf, Step, At, Goto, Set, Note,
   files, private, rest, Others

LEMMA TryHdr2Does ==
  ASSUME Shaped, NEW c \in Conns, TryHdr2(c)
  PROVE  /\ job[c].h1 = shm.hdr[2] /\ job[c].h1.isInit =>
            Becomes(c, AfterHdr(c), [job[c] EXCEPT !.h1 = ZeroHdr, !.changed = @ \/ job[c].h1 # wc[c].hdr],
               [wc[c] EXCEPT !.hdr = job[c].h1], tx[c])
         /\ ~(job[c].h1 = shm.hdr[2] /\ job[c].h1.isInit) =>
            Becomes(c, "badhdr", [job[c] EXCEPT !.h1 = ZeroHdr],
               wc[c], tx[c])
BY DEF TryHdr2, Accept, Becomes, Shaped, Shapes, ShapeOf, Step, At, Goto, Set,
   Note, files, private, rest, Others

LEMMA BadHdrDoes ==
  ASSUME Shaped, NEW c \in Conns, BadHdr(c)
  PROVE  /\ shm.hdr[1] = shm.hdr[2] /\ LiveHdr.isInit =>
            Becomes(c, AfterHdr(c), [job[c] EXCEPT !.h1 = ZeroHdr, !.changed = @ \/ LiveHdr # wc[c].hdr],
               [wc[c] EXCEPT !.hdr = LiveHdr], tx[c])
         /\ ~(shm.hdr[1] = shm.hdr[2] /\ LiveHdr.isInit) =>
            Becomes(c, "recover", job[c],
               wc[c], tx[c])
BY DEF BadHdr, Accept, Becomes, Shaped, Shapes, ShapeOf, Step, At, Goto, Set,
   Note, files, private, rest, Others

LEMMA BadHdrBusyDoes ==
  ASSUME Shaped, NEW c \in Conns, BadHdrBusy(c)
  PROVE  /\ job[c].kind = "ckpt" =>
            Becomes(c, "ckptend", [job[c] EXCEPT !.ok = FALSE],
               wc[c], tx[c])
         /\ job[c].kind # "ckpt" /\ Sharable(WAL_RECOVER_LOCK) =>
            Becomes(c, "tryhdr", job[c],
               wc[c], tx[c])
         /\ job[c].kind # "ckpt" /\ ~Sharable(WAL_RECOVER_LOCK) =>
            Becomes(c, "idle", NoJob,
               wc[c], tx[c])
BY DEF BadHdrBusy, ReadBusy, Becomes, Shaped, Shapes, ShapeOf, Step, At, Goto,
   Set, Note, files, private, rest, Others

LEMMA RecoverLockDoes ==
  ASSUME Shaped, NEW c \in Conns, RecoverLock(c)
  PROVE  Becomes(c, "recover1", job[c],
            wc[c], tx[c])
BY DEF RecoverLock, Becomes, Shaped, Shapes, ShapeOf, Step, At, Goto, Set,
   Note, files, private, rest, Others

LEMMA RecoverBusyDoes ==
  ASSUME Shaped, NEW c \in Conns, RecoverBusy(c)
  PROVE  /\ OwnWrite(c) /\ job[c].kind = "ckpt" =>
            Becomes(c, "ckptend", [job[c] EXCEPT !.changed = TRUE, !.ok = FALSE],
               wc[c], tx[c])
         /\ OwnWrite(c) /\ job[c].kind # "ckpt" /\ Sharable(WAL_RECOVER_LOCK) =>
            Becomes(c, "tryhdr", [job[c] EXCEPT !.changed = TRUE],
               wc[c], tx[c])
         /\ OwnWrite(c) /\ job[c].kind # "ckpt" /\ ~Sharable(WAL_RECOVER_LOCK) =>
            Becomes(c, "idle", NoJob,
               wc[c], tx[c])
         /\ ~OwnWrite(c) /\ job[c].kind = "ckpt" =>
            Becomes(c, "ckptend", [job[c] EXCEPT !.changed = TRUE, !.ok = FALSE],
               wc[c], tx[c])
         /\ ~OwnWrite(c) /\ job[c].kind # "ckpt" /\ Sharable(WAL_RECOVER_LOCK) =>
            Becomes(c, "tryhdr", [job[c] EXCEPT !.changed = TRUE],
               wc[c], tx[c])
         /\ ~OwnWrite(c) /\ job[c].kind # "ckpt" /\ ~Sharable(WAL_RECOVER_LOCK) =>
            Becomes(c, "idle", NoJob,
               wc[c], tx[c])
BY DEF RecoverBusy, ReadBusy, Becomes, Shaped, Shapes, ShapeOf, Step, At,
   Goto, Set, Note, files, private, rest, Others

LEMMA RecoverLogDoes ==
  ASSUME Shaped, NEW c \in Conns, RecoverLog(c)
  PROVE  Becomes(c, "recover2", job[c],
            [wc[c] EXCEPT !.hdr = RecoveredHdr(wal), !.nCkpt = IF HasFrames(wal) THEN wal.nCkpt ELSE @], tx[c])
BY DEF RecoverLog, Becomes, Shaped, Shapes, ShapeOf, Step, At, Goto, Set,
   Note, files, private, rest, Others

LEMMA RecoverHdr0Does ==
  ASSUME Shaped, NEW c \in Conns, RecoverHdr0(c)
  PROVE  Becomes(c, "recover3", job[c],
            wc[c], tx[c])
BY DEF RecoverHdr0, Becomes, Shaped, Shapes, ShapeOf, Step, At, Goto, Set,
   Note, files, private, rest, Others

LEMMA RecoverInfoDoes ==
  ASSUME Shaped, NEW c \in Conns, RecoverInfo(c)
  PROVE  Becomes(c, AfterHdr(c), [job[c] EXCEPT !.changed = TRUE],
            wc[c], tx[c])
BY DEF RecoverInfo, Becomes, Shaped, Shapes, ShapeOf, Step, At, Goto, Set,
   Note, files, private, rest, Others

LEMMA ChooseDbDoes ==
  ASSUME Shaped, NEW c \in Conns, ChooseDb(c)
  PROVE  Becomes(c, "check0", job[c],
            wc[c], tx[c])
BY DEF ChooseDb, Becomes, Shaped, Shapes, ShapeOf, Step, At, Goto, Set, Note,
   files, private, rest, Others

LEMMA Check0Does ==
  ASSUME Shaped, NEW c \in Conns, Check0(c)
  PROVE  /\ wc[c].hdr = LiveHdr /\ job[c].useWal =>
            Becomes(c, "log", [job[c] EXCEPT !.useWal = FALSE],
               [wc[c] EXCEPT !.readLock = 0], tx[c])
         /\ wc[c].hdr = LiveHdr /\ ~job[c].useWal =>
            Becomes(c, "idle", NoJob,
               [wc[c] EXCEPT !.readLock = 0], tx[c])
         /\ wc[c].hdr # LiveHdr =>
            Becomes(c, IF job[c].useWal THEN "scan" ELSE "tryhdr", [job[c] EXCEPT !.mxI = 0, !.mark = 0],
               wc[c], tx[c])
BY DEF Check0, ReadBegun, Retry, Becomes, Shaped, Shapes, ShapeOf, Step, At,
   Goto, Set, Note, files, private, rest, Others

LEMMA ScanDoes ==
  ASSUME Shaped, NEW c \in Conns, Scan(c)
  PROVE  /\ Usable(c) = {} =>
            Becomes(c, "setmark", job[c],
               wc[c], tx[c])
         /\ Usable(c) # {} =>
            Becomes(c, IF shm.aReadMark[BestMark(c)] < wc[c].hdr.mxFrame THEN "setmark" ELSE "lockmark", [job[c] EXCEPT !.mxI = BestMark(c), !.mark = shm.aReadMark[BestMark(c)]],
               wc[c], tx[c])
BY DEF Scan, Becomes, Shaped, Shapes, ShapeOf, Step, At, Goto, Set, Note,
   files, private, rest, Others

LEMMA SetMarkDoes ==
  ASSUME Shaped, NEW c \in Conns, SetMark(c)
  PROVE  /\ FreeMarks # {} =>
            Becomes(c, "lockmark", [job[c] EXCEPT !.mxI = FirstFree, !.mark = wc[c].hdr.mxFrame],
               wc[c], tx[c])
         /\ FreeMarks = {} /\ job[c].mxI = 0 =>
            Becomes(c, IF job[c].useWal THEN "scan" ELSE "tryhdr", [job[c] EXCEPT !.mxI = 0, !.mark = 0],
               wc[c], tx[c])
         /\ FreeMarks = {} /\ job[c].mxI # 0 =>
            Becomes(c, "lockmark", job[c],
               wc[c], tx[c])
BY DEF SetMark, Retry, FreeMarks, FirstFree, Becomes, Shaped, Shapes, ShapeOf,
   Step, At, Goto, Set, Note, files, private, rest, Others

LEMMA LockMarkDoes ==
  ASSUME Shaped, NEW c \in Conns, LockMark(c)
  PROVE  /\ Sharable(WAL_READ_LOCK(job[c].mxI)) =>
            Becomes(c, "minframe", job[c],
               wc[c], tx[c])
         /\ ~Sharable(WAL_READ_LOCK(job[c].mxI)) =>
            Becomes(c, IF job[c].useWal THEN "scan" ELSE "tryhdr", [job[c] EXCEPT !.mxI = 0, !.mark = 0],
               wc[c], tx[c])
BY DEF LockMark, Retry, Becomes, Shaped, Shapes, ShapeOf, Step, At, Goto, Set,
   Note, files, private, rest, Others

LEMMA MinFrameDoes ==
  ASSUME Shaped, NEW c \in Conns, MinFrame(c)
  PROVE  Becomes(c, "checkmark", job[c],
            [wc[c] EXCEPT !.minFrame = shm.nBackfill + 1], tx[c])
BY DEF MinFrame, Becomes, Shaped, Shapes, ShapeOf, Step, At, Goto, Set, Note,
   files, private, rest, Others

LEMMA CheckMarkDoes ==
  ASSUME Shaped, NEW c \in Conns, CheckMark(c)
  PROVE  /\ shm.aReadMark[job[c].mxI] = job[c].mark /\ Current(c) /\ job[c].useWal =>
            Becomes(c, "log", [job[c] EXCEPT !.useWal = FALSE],
               [wc[c] EXCEPT !.readLock = job[c].mxI], tx[c])
         /\ shm.aReadMark[job[c].mxI] = job[c].mark /\ Current(c) /\ ~job[c].useWal =>
            Becomes(c, "idle", NoJob,
               [wc[c] EXCEPT !.readLock = job[c].mxI], tx[c])
         /\ ~(shm.aReadMark[job[c].mxI] = job[c].mark /\ Current(c)) =>
            Becomes(c, IF job[c].useWal THEN "scan" ELSE "tryhdr", [job[c] EXCEPT !.mxI = 0, !.mark = 0],
               wc[c], tx[c])
BY DEF CheckMark, ReadBegun, Retry, Becomes, Shaped, Shapes, ShapeOf, Step,
   At, Goto, Set, Note, files, private, rest, Others

LEMMA EndReadDoes ==
  ASSUME Shaped, NEW c \in Conns, EndRead(c)
  PROVE  Becomes(c, pc[c], job[c],
            [wc[c] EXCEPT !.readLock = -1], tx[c])
BY DEF EndRead, Idle, Reading, Becomes, Shaped, Shapes, ShapeOf, Step, At,
   Goto, Set, Note, files, private, rest, Others

LEMMA BeginWriteDoes ==
  ASSUME Shaped, NEW c \in Conns, BeginWrite(c)
  PROVE  Becomes(c, pc[c], job[c],
            wc[c], [NoTx EXCEPT !.on = TRUE, !.size = Len(View(c))])
BY DEF BeginWrite, Idle, Reading, Becomes, Shaped, Shapes, ShapeOf, Step, At,
   Goto, Set, Note, files, private, rest, Others

LEMMA ModifyDoes ==
  ASSUME Shaped, NEW c \in Conns, NEW p \in Pages, Modify(c, p)
  PROVE  Becomes(c, pc[c], job[c],
            wc[c], [tx[c] EXCEPT !.dirty = Put(tx[c].dirty, p, writes + 1), !.size = Largest({@, p})])
BY DEF Modify, InWrite, Idle, Becomes, Shaped, Shapes, ShapeOf, Step, At,
   Goto, Set, Note, files, private, rest, Others

LEMMA ShrinkDoes ==
  ASSUME Shaped, NEW c \in Conns, Shrink(c)
  PROVE  Becomes(c, pc[c], job[c],
            wc[c], [tx[c] EXCEPT !.size = @ - 1])
BY DEF Shrink, InWrite, Idle, Becomes, Shaped, Shapes, ShapeOf, Step, At,
   Goto, Set, Note, files, private, rest, Others

LEMMA SpillDoes ==
  ASSUME Shaped, NEW c \in Conns, NEW p \in Pages, Spill(c, p)
  PROVE  Becomes(c, IF wc[c].readLock = 0 THEN "restart" ELSE "log", FramesJob(c, <<p>>, FALSE),
            wc[c], tx[c])
BY DEF Spill, InWrite, Idle, FramesStart, FramesJob, Becomes, Shaped, Shapes,
   ShapeOf, Step, At, Goto, Set, Note, files, private, rest, Others

LEMMA CommitDoes ==
  ASSUME Shaped, NEW c \in Conns, Commit(c)
  PROVE  \E list \in CommitLists(c) : list # <<>> /\ Becomes(c, IF wc[c].readLock = 0 THEN "restart" ELSE "log", FramesJob(c, list, TRUE),
            wc[c], tx[c])
BY DEF Commit, InWrite, Idle, FramesStart, FramesJob, CommitLists, Becomes,
   Shaped, Shapes, ShapeOf, Step, At, Goto, Set, Note, files, private, rest,
   Others

LEMMA RollbackDoes ==
  ASSUME Shaped, NEW c \in Conns, Rollback(c)
  PROVE  Becomes(c, pc[c], job[c],
            [wc[c] EXCEPT !.hdr = LiveHdr, !.iReCksum = 0], NoTx)
BY DEF Rollback, Idle, Becomes, Shaped, Shapes, ShapeOf, Step, At, Goto, Set,
   Note, files, private, rest, Others

LEMMA RestartDoes ==
  ASSUME Shaped, NEW c \in Conns, Restart(c)
  PROVE  Becomes(c, "restart1", job[c],
            [wc[c] EXCEPT !.hdr = RestartedHdr(c), !.nCkpt = @ + 1], tx[c])
BY DEF Restart, RestartHdr, RestartedHdr, Becomes, Shaped, Shapes, ShapeOf,
   Step, At, Goto, Set, Note, files, private, rest, Others

LEMMA RestartHdr0Does ==
  ASSUME Shaped, NEW c \in Conns, RestartHdr0(c)
  PROVE  Becomes(c, "restart2", job[c],
            wc[c], tx[c])
BY DEF RestartHdr0, Becomes, Shaped, Shapes, ShapeOf, Step, At, Goto, Set,
   Note, files, private, rest, Others

LEMMA RestartInfoDoes ==
  ASSUME Shaped, NEW c \in Conns, RestartInfo(c)
  PROVE  /\ job[c].kind = "write" =>
            Becomes(c, "scan", [job[c] EXCEPT !.useWal = TRUE],
               [wc[c] EXCEPT !.readLock = -1], tx[c])
         /\ job[c].kind # "write" =>
            Becomes(c, "trunclog", job[c],
               wc[c], tx[c])
BY DEF RestartInfo, LeaveRead0, Becomes, Shaped, Shapes, ShapeOf, Step, At,
   Goto, Set, Note, files, private, rest, Others

LEMMA CannotRestartDoes ==
  ASSUME Shaped, NEW c \in Conns, CannotRestart(c)
  PROVE  /\ job[c].kind = "write" =>
            Becomes(c, "scan", [job[c] EXCEPT !.useWal = TRUE],
               [wc[c] EXCEPT !.readLock = -1], tx[c])
         /\ job[c].kind # "write" =>
            Becomes(c, "ckptend", [job[c] EXCEPT !.ok = FALSE],
               wc[c], tx[c])
BY DEF CannotRestart, LeaveRead0, Becomes, Shaped, Shapes, ShapeOf, Step, At,
   Goto, Set, Note, files, private, rest, Others

LEMMA WriteLogHeaderDoes ==
  ASSUME Shaped, NEW c \in Conns, WriteLogHeader(c)
  PROVE  Becomes(c, "synchdr", job[c],
            [wc[c] EXCEPT !.hdr.salt = NewSalt(c), !.hdr.sum = <<wc[c].nCkpt>>], tx[c])
BY DEF WriteLogHeader, NewSalt, Becomes, Shaped, Shapes, ShapeOf, Step, At,
   Goto, Set, Note, files, private, rest, Others

LEMMA SyncHeaderDoes ==
  ASSUME Shaped, NEW c \in Conns, SyncHeader(c)
  PROVE  Becomes(c, "frames", job[c],
            wc[c], tx[c])
BY DEF SyncHeader, Becomes, Shaped, Shapes, ShapeOf, Step, At, Goto, Set,
   Note, files, private, rest, Others

LEMMA WriteFramesDoes ==
  ASSUME Shaped, NEW c \in Conns, WriteFrames(c)
  PROVE  Becomes(c, IF job[c].commit /\ fullSync THEN "sync" ELSE "index", [job[c] EXCEPT !.new = AllWritten(c).new],
            [wc[c] EXCEPT !.hdr.sum = AllWritten(c).sum, !.iReCksum = AllWritten(c).re], tx[c])
BY DEF WriteFrames, InFrames, AllWritten, Becomes, Shaped, Shapes, ShapeOf,
   Step, At, Goto, Set, Note, files, private, rest, Others

LEMMA SyncFramesDoes ==
  ASSUME Shaped, NEW c \in Conns, SyncFrames(c)
  PROVE  Becomes(c, "index", job[c],
            wc[c], tx[c])
BY DEF SyncFrames, Becomes, Shaped, Shapes, ShapeOf, Step, At, Goto, Set,
   Note, files, private, rest, Others

LEMMA FailsDoes ==
  ASSUME Shaped, NEW c \in Conns, Fails(c)
  PROVE  Becomes(c, "idle", NoJob,
            wc[c], [tx[c] EXCEPT !.failed = TRUE])
BY DEF Fails, InFrames, Becomes, Shaped, Shapes, ShapeOf, Step, At, Goto, Set,
   Note, files, private, rest, Others

LEMMA IndexDoes ==
  ASSUME Shaped, NEW c \in Conns, Index(c)
  PROVE  /\ job[c].commit =>
            Becomes(c, "publish", job[c],
               [wc[c] EXCEPT !.hdr = IndexedHdr(c)], tx[c])
         /\ ~job[c].commit =>
            Becomes(c, "idle", NoJob,
               [wc[c] EXCEPT !.hdr = IndexedHdr(c)], [tx[c] EXCEPT !.dirty = Without(tx[c].dirty, {job[c].list[1]})])
BY DEF Index, IndexedHdr, Becomes, Shaped, Shapes, ShapeOf, Step, At, Goto,
   Set, Note, files, private, rest, Others

LEMMA PublishDoes ==
  ASSUME Shaped, NEW c \in Conns, Publish(c)
  PROVE  Becomes(c, "idle", NoJob,
            wc[c], NoTx)
BY DEF Publish, Becomes, Shaped, Shapes, ShapeOf, Step, At, Goto, Set, Note,
   files, private, rest, Others

LEMMA StartCkptDoes ==
  ASSUME Shaped, NEW c \in Conns, NEW mode, StartCkpt(c, mode)
  PROVE  Becomes(c, IF mode \in {"full", "truncate"} THEN "ckptwrite" ELSE "tryhdr", [NoJob EXCEPT !.kind = "ckpt", !.mode = mode],
            wc[c], tx[c])
BY DEF StartCkpt, Idle, Reading, Becomes, Shaped, Shapes, ShapeOf, Step, At,
   Goto, Set, Note, files, private, rest, Others

LEMMA CkptWriteDoes ==
  ASSUME Shaped, NEW c \in Conns, CkptWrite(c)
  PROVE  /\ Lockable({WAL_WRITE_LOCK}) =>
            Becomes(c, "tryhdr", job[c],
               wc[c], tx[c])
         /\ ~Lockable({WAL_WRITE_LOCK}) =>
            Becomes(c, "tryhdr", [job[c] EXCEPT !.mode = "passive"],
               wc[c], tx[c])
BY DEF CkptWrite, Becomes, Shaped, Shapes, ShapeOf, Step, At, Goto, Set, Note,
   files, private, rest, Others

LEMMA CkptStartDoes ==
  ASSUME Shaped, NEW c \in Conns, CkptStart(c)
  PROVE  /\ shm.nBackfill < wc[c].hdr.mxFrame =>
            Becomes(c, "mark", [job[c] EXCEPT !.i = 1, !.safe = wc[c].hdr.mxFrame],
               wc[c], tx[c])
         /\ ~(shm.nBackfill < wc[c].hdr.mxFrame) =>
            Becomes(c, AfterCopy(c), job[c],
               wc[c], tx[c])
BY DEF CkptStart, Becomes, Shaped, Shapes, ShapeOf, Step, At, Goto, Set, Note,
   files, private, rest, Others

LEMMA CkptReadMarkDoes ==
  ASSUME Shaped, NEW c \in Conns, CkptReadMark(c)
  PROVE  /\ job[c].safe > shm.aReadMark[job[c].i] =>
            Becomes(c, "lockmk", [job[c] EXCEPT !.mark = shm.aReadMark[job[c].i]],
               wc[c], tx[c])
         /\ ~(job[c].safe > shm.aReadMark[job[c].i]) =>
            Becomes(c, IF job[c].i = WAL_NREADER - 1 THEN "lock0" ELSE "mark", [job[c] EXCEPT !.i = @ + 1, !.safe = job[c].safe, !.mark = 0],
               wc[c], tx[c])
BY DEF CkptReadMark, NextMark, Becomes, Shaped, Shapes, ShapeOf, Step, At,
   Goto, Set, Note, files, private, rest, Others

LEMMA CkptLockMarkDoes ==
  ASSUME Shaped, NEW c \in Conns, CkptLockMark(c)
  PROVE  /\ Lockable({WAL_READ_LOCK(job[c].i)}) =>
            Becomes(c, IF job[c].i = WAL_NREADER - 1 THEN "lock0" ELSE "mark", [job[c] EXCEPT !.i = @ + 1, !.safe = job[c].safe, !.mark = 0],
               wc[c], tx[c])
         /\ ~Lockable({WAL_READ_LOCK(job[c].i)}) =>
            Becomes(c, IF job[c].i = WAL_NREADER - 1 THEN "lock0" ELSE "mark", [job[c] EXCEPT !.i = @ + 1, !.safe = job[c].mark, !.mark = 0],
               wc[c], tx[c])
BY DEF CkptLockMark, NextMark, SafeBelow, Becomes, Shaped, Shapes, ShapeOf,
   Step, At, Goto, Set, Note, files, private, rest, Others

LEMMA CkptLock0Does ==
  ASSUME Shaped, NEW c \in Conns, CkptLock0(c)
  PROVE  /\ shm.nBackfill < job[c].safe /\ Lockable({WAL_READ_LOCK(0)}) /\ LiveHdr.salt = wc[c].hdr.salt =>
            \E list \in ToCopy(c) : Becomes(c, "synclog", [job[c] EXCEPT !.list = list],
               wc[c], tx[c])
         /\ ~(shm.nBackfill < job[c].safe /\ Lockable({WAL_READ_LOCK(0)}) /\ LiveHdr.salt = wc[c].hdr.salt) =>
            Becomes(c, AfterCopy(c), job[c],
               wc[c], tx[c])
BY DEF CkptLock0, Unwrapped, Becomes, Shaped, Shapes, ShapeOf, Step, At, Goto, Set, Note,
   files, private, rest, Others

LEMMA CkptSyncDoes ==
  ASSUME Shaped, NEW c \in Conns, CkptSync(c)
  PROVE  Becomes(c, "copy", job[c],
            wc[c], tx[c])
BY DEF CkptSync, Becomes, Shaped, Shapes, ShapeOf, Step, At, Goto, Set, Note,
   files, private, rest, Others

LEMMA CkptCopyDoes ==
  ASSUME Shaped, NEW c \in Conns, CkptCopy(c)
  PROVE  Becomes(c, pc[c], [job[c] EXCEPT !.list = Tail(@)],
            wc[c], tx[c])
BY DEF CkptCopy, Becomes, Shaped, Shapes, ShapeOf, Step, At, Goto, Set, Note,
   files, private, rest, Others

LEMMA CkptTruncateDoes ==
  ASSUME Shaped, NEW c \in Conns, CkptTruncate(c)
  PROVE  Becomes(c, IF job[c].safe = LiveHdr.mxFrame THEN "syncdb" ELSE "backfill", job[c],
            wc[c], tx[c])
BY DEF CkptTruncate, Becomes, Shaped, Shapes, ShapeOf, Step, At, Goto, Set,
   Note, files, private, rest, Others

LEMMA CkptSyncDbDoes ==
  ASSUME Shaped, NEW c \in Conns, CkptSyncDb(c)
  PROVE  Becomes(c, "backfill", job[c],
            wc[c], tx[c])
BY DEF CkptSyncDb, Becomes, Shaped, Shapes, ShapeOf, Step, At, Goto, Set,
   Note, files, private, rest, Others

LEMMA CkptBackfillDoes ==
  ASSUME Shaped, NEW c \in Conns, CkptBackfill(c)
  PROVE  Becomes(c, AfterCopy(c), job[c],
            wc[c], tx[c])
BY DEF CkptBackfill, Becomes, Shaped, Shapes, ShapeOf, Step, At, Goto, Set,
   Note, files, private, rest, Others

LEMMA CkptFailsDoes ==
  ASSUME Shaped, NEW c \in Conns, CkptFails(c)
  PROVE  Becomes(c, "ckptend", [job[c] EXCEPT !.ok = FALSE],
            wc[c], tx[c])
BY DEF CkptFails, Becomes, Shaped, Shapes, ShapeOf, Step, At, Goto, Set, Note,
   files, private, rest, Others

LEMMA CkptDoneDoes ==
  ASSUME Shaped, NEW c \in Conns, CkptDone(c)
  PROVE  Becomes(c, IF shm.nBackfill >= wc[c].hdr.mxFrame THEN "restart" ELSE "ckptend", job[c],
            wc[c], tx[c])
BY DEF CkptDone, Becomes, Shaped, Shapes, ShapeOf, Step, At, Goto, Set, Note,
   files, private, rest, Others

LEMMA TruncateLogDoes ==
  ASSUME Shaped, NEW c \in Conns, TruncateLog(c)
  PROVE  Becomes(c, "ckptend", job[c],
            wc[c], tx[c])
BY DEF TruncateLog, Becomes, Shaped, Shapes, ShapeOf, Step, At, Goto, Set,
   Note, files, private, rest, Others

LEMMA CkptEndDoes ==
  ASSUME Shaped, NEW c \in Conns, CkptEnd(c)
  PROVE  /\ Closing(c) =>
            Becomes(c, "closewal", job[c],
               IF job[c].changed THEN [wc[c] EXCEPT !.hdr = ZeroHdr] ELSE wc[c], tx[c])
         /\ ~Closing(c) =>
            Becomes(c, "idle", NoJob,
               IF job[c].changed THEN [wc[c] EXCEPT !.hdr = ZeroHdr] ELSE wc[c], tx[c])
BY DEF CkptEnd, Becomes, Shaped, Shapes, ShapeOf, Step, At, Goto, Set, Note,
   files, private, rest, Others

LEMMA OpenDoes ==
  ASSUME Shaped, NEW c \in Conns, Open(c)
  PROVE  Becomes(c, "idle", job[c],
            wc[c], tx[c])
BY DEF Open, Becomes, Shaped, Shapes, ShapeOf, Step, At, Goto, Set, Note,
   files, private, rest, Others

-----------------------------------------------------------------------------
Recovery == {"recover1", "recover2", "recover3"}
HdrPcs == {"tryhdr", "tryhdr2", "badhdr", "recover"} \cup Recovery
MarkPcs == {"scan", "setmark", "lockmark", "minframe", "checkmark"}
RestartPcs == {"restart", "restart1", "restart2"}
FramePcs == {"log", "synchdr", "frames", "sync", "index", "publish"}
CopyPcs == {"synclog", "copy", "syncdb", "backfill"}
ScanPcs == {"mark", "lockmk", "lock0"}
CkptPcs ==
    {"ckptwrite", "ckpt", "ckptdone", "trunclog", "ckptend", "closewal"} \cup ScanPcs \cup CopyPcs

Marks == 1 .. WAL_NREADER - 1

(* Which call a connection is in, with what in its hands: p is its pc, j   *)
(* its job, on says whether it is in a write transaction, r is readLock.   *)
ControlOf(p, j, on, r) ==
    /\ j.kind \in {"none", "read", "write", "ckpt"}
    /\ j.kind = "none" <=> p \in {"idle", "closed"}
    /\ j.kind = "read" => p \in HdrPcs \cup {"choose", "check0"} \cup (MarkPcs \ {"scan"})
    /\ j.kind = "write" => p \in MarkPcs \cup RestartPcs \cup FramePcs
    /\ j.kind = "ckpt" => p \in HdrPcs \cup RestartPcs \cup CkptPcs
    /\ j.useWal \in BOOLEAN /\ (j.useWal <=> j.kind = "write" /\ p \in MarkPcs)
    /\ j.mode \in {"none", "passive", "full", "truncate", "close"}
    /\ j.kind # "ckpt" => j.mode = "none"
    /\ p \in RestartPcs \cup {"ckptdone", "trunclog"} => j.kind = "write" \/ j.mode = "truncate"
    /\ p = "ckptwrite" => j.mode \in {"full", "truncate"}
    /\ p = "closewal" => j.mode = "close"
    /\ on \in BOOLEAN /\ (on => p = "idle" \/ j.kind = "write")
    /\ j.kind = "write" => on
    /\ r \in -1 .. WAL_NREADER - 1
    /\ p = "idle" \/ j.kind = "write" \/ r = -1
    /\ j.kind = "write" /\ p \in RestartPcs => r = 0
    /\ j.kind = "write" /\ p \in MarkPcs => r = -1
    /\ j.kind = "write" /\ p \in FramePcs => r > 0
    /\ on /\ p = "idle" => r >= 0
    /\ j.mxI \in 0 .. WAL_NREADER - 1
    /\ p \in {"lockmark", "minframe", "checkmark"} => j.mxI > 0
    /\ p \in {"mark", "lockmk"} => j.i \in Marks

ExclOf(p, j, on, s) ==
    \/ /\ s = WAL_WRITE_LOCK
       /\ on \/ p \in {"recover"} \cup Recovery \/ (j.mode \in {"full", "truncate"} /\ p # "ckptwrite")
    \/ s = WAL_CKPT_LOCK /\ (p \in Recovery \/ (j.kind = "ckpt" /\ p # "closewal"))
    \/ s = WAL_RECOVER_LOCK /\ p \in Recovery
    \/ s = WAL_READ_LOCK(0) /\ p \in CopyPcs
    \/ s \in ReadersSlots /\ p \in {"restart1", "restart2", "trunclog"}

SharedOf(p, j, r, s) ==
    \/ s = WAL_READ_LOCK(0) /\ p = "check0"
    \/ r >= 0 /\ s = WAL_READ_LOCK(r)
    \/ p \in {"minframe", "checkmark"} /\ s = WAL_READ_LOCK(j.mxI)

Excl(c, s) == ExclOf(pc[c], job[c], tx[c].on, s)
Shares(c, s) == SharedOf(pc[c], job[c], wc[c].readLock, s)

Local(c) ==
    /\ ShapeOf(wc[c], tx[c], job[c])
    /\ ControlOf(pc[c], job[c], tx[c].on, wc[c].readLock)

LocksOK ==
    lock = [s \in Slots |-> [shared |-> {c \in Conns : Shares(c, s)},
                             excl |-> {c \in Conns : Excl(c, s)}]]

Exclusion ==
    \A s \in Slots : \A c, d \in Conns :
        Excl(c, s) => ~Shares(d, s) /\ (Excl(d, s) => d = c)

LInv == Shapes /\ (\A c \in Conns : Local(c)) /\ LocksOK /\ Exclusion

-----------------------------------------------------------------------------
(* A step of connection c leaves the others where they are.                *)
Alone(c) ==
    /\ Shapes' /\ Local(c)'
    /\ \A d \in Others(c) :
          pc'[d] = pc[d] /\ job'[d] = job[d] /\ tx'[d] = tx[d] /\ wc'[d] = wc[d]

(* What a step does to the locks must be what it does to where c stands.   *)
LEMMA LockMoves ==
    ASSUME LInv, NEW c \in Conns, Alone(c),
           lock' = [s \in Slots |->
               [shared |-> {d \in Conns : (d # c /\ Shares(d, s)) \/ (d = c /\ Shares(c, s)')},
                excl |-> {d \in Conns : (d # c /\ Excl(d, s)) \/ (d = c /\ Excl(c, s)')}]],
           \A s \in Slots :
               /\ Excl(c, s)' => ~Shares(c, s)'
               /\ Excl(c, s)' => Excl(c, s) \/ \A d \in Others(c) : ~Excl(d, s) /\ ~Shares(d, s)
               /\ Shares(c, s)' => Shares(c, s) \/ \A d \in Others(c) : ~Excl(d, s)
    PROVE  LInv'
PROOF
<1>1. \A d \in Others(c) : Local(d)'
  BY DEF LInv, Alone, Local, Others
<1>2. \A d \in Others(c) : \A s : (Shares(d, s)' <=> Shares(d, s)) /\ (Excl(d, s)' <=> Excl(d, s))
  BY DEF Alone, Shares, Excl
<1>3. LocksOK'
  <2>1. \A s \in Slots : {d \in Conns : (d # c /\ Shares(d, s)) \/ (d = c /\ Shares(c, s)')}
                            = {d \in Conns : Shares(d, s)'}
    BY <1>2 DEF Others
  <2>2. \A s \in Slots : {d \in Conns : (d # c /\ Excl(d, s)) \/ (d = c /\ Excl(c, s)')}
                            = {d \in Conns : Excl(d, s)'}
    BY <1>2 DEF Others
  <2> QED BY <2>1, <2>2, Zenon DEF LocksOK
<1>4. Exclusion'
  <2> SUFFICES ASSUME NEW s \in Slots, NEW d \in Conns, NEW e \in Conns, Excl(d, s)'
               PROVE  ~Shares(e, s)' /\ (Excl(e, s)' => e = d)
    BY DEF Exclusion
  <2>1. CASE d = c /\ e = c
    BY <2>1
  <2>2. CASE d # c /\ e # c
    BY <2>2, <1>2 DEF LInv, Exclusion, Others
  <2>3. CASE d # c /\ e = c
    BY <2>3, <1>2 DEF LInv, Exclusion, Others
  <2>4. CASE d = c /\ e # c
    BY <2>4, <1>2 DEF LInv, Exclusion, Others
  <2> QED BY <2>1, <2>2, <2>3, <2>4
<1> QED BY <1>1, <1>3, <1>4 DEF LInv, Alone, Others

(* The holders of a lock. *)
LEMMA Holders ==
    ASSUME LInv, NEW s \in Slots
    PROVE  /\ lock[s].shared = {d \in Conns : Shares(d, s)}
           /\ lock[s].excl = {d \in Conns : Excl(d, s)}
           /\ lock[s] = [shared |-> lock[s].shared, excl |-> lock[s].excl]
BY DEF LInv, LocksOK

-----------------------------------------------------------------------------
(* What a step does to the locks that c has, by where its call stands.     *)
Same(c) == \A s \in Slots : (Excl(c, s)' <=> Excl(c, s)) /\ (Shares(c, s)' <=> Shares(c, s))

Adds(c, S) ==
    \A s \in Slots :
        (Excl(c, s)' <=> Excl(c, s) \/ s \in S) /\ (Shares(c, s)' <=> Shares(c, s))

Joins(c, q) ==
    \A s \in Slots :
        (Excl(c, s)' <=> Excl(c, s)) /\ (Shares(c, s)' <=> Shares(c, s) \/ s = q)

Drops(c, S) ==
    \A s \in Slots :
        /\ Excl(c, s)' <=> Excl(c, s) /\ s \notin S
        /\ Shares(c, s)' <=> Shares(c, s) /\ s \notin S

LEMMA LockKept ==
    ASSUME LInv, NEW c \in Conns, Alone(c), UNCHANGED lock,
           Same(c)
    PROVE  LInv'
PROOF
<1> USE DEF Same
<1>1. \A s \in Slots : {d \in Conns : (d # c /\ Shares(d, s)) \/ (d = c /\ Shares(c, s)')}
                          = {d \in Conns : Shares(d, s)}
  OBVIOUS
<1>2. \A s \in Slots : {d \in Conns : (d # c /\ Excl(d, s)) \/ (d = c /\ Excl(c, s)')}
                          = {d \in Conns : Excl(d, s)}
  OBVIOUS
<1>3. lock' = [s \in Slots |->
               [shared |-> {d \in Conns : (d # c /\ Shares(d, s)) \/ (d = c /\ Shares(c, s)')},
                excl |-> {d \in Conns : (d # c /\ Excl(d, s)) \/ (d = c /\ Excl(c, s)')}]]
  BY <1>1, <1>2, Zenon DEF LInv, LocksOK
<1>4. \A s \in Slots : Excl(c, s)' => ~Shares(c, s)'
  BY DEF LInv, Exclusion
<1> HIDE <1>3
<1> QED BY <1>3, <1>4, LockMoves, Zenon

LEMMA LockTaken ==
    ASSUME LInv, NEW c \in Conns, Alone(c), NEW S \in SUBSET Slots,
           \A s \in S : lock[s] = Free \/ Holds(c, s),
           lock' = Locked(lock, c, S),
           Adds(c, S)
    PROVE  LInv'
PROOF
<1> USE DEF Adds
<1>1. \A s \in S : \A d \in Conns : ~Shares(d, s) /\ (d # c => ~Excl(d, s))
  <2> SUFFICES ASSUME NEW s \in S PROVE \A d \in Conns : ~Shares(d, s) /\ (d # c => ~Excl(d, s))
    OBVIOUS
  <2>1. CASE lock[s] = Free
    BY <2>1, Holders DEF Free
  <2>2. CASE Holds(c, s)
    <3>1. Excl(c, s)
      BY <2>2, Holders DEF Holds
    <3> QED BY <3>1 DEF LInv, Exclusion
  <2> QED BY <2>1, <2>2
<1>2. \A s \in Slots :
        /\ {d \in Conns : (d # c /\ Shares(d, s)) \/ (d = c /\ Shares(c, s)')}
              = IF s \in S THEN {} ELSE lock[s].shared
        /\ {d \in Conns : (d # c /\ Excl(d, s)) \/ (d = c /\ Excl(c, s)')}
              = IF s \in S THEN {c} ELSE lock[s].excl
  BY <1>1, Holders
<1>3. lock' = [s \in Slots |->
               [shared |-> {d \in Conns : (d # c /\ Shares(d, s)) \/ (d = c /\ Shares(c, s)')},
                excl |-> {d \in Conns : (d # c /\ Excl(d, s)) \/ (d = c /\ Excl(c, s)')}]]
  <2>1. lock' = [s \in Slots |-> [shared |-> IF s \in S THEN {} ELSE lock[s].shared,
                                  excl |-> IF s \in S THEN {c} ELSE lock[s].excl]]
    BY Holders DEF Locked
  <2> QED BY <2>1, <1>2, Zenon
<1>4. \A s \in Slots : Excl(c, s)' => ~Shares(c, s)'
  BY <1>1 DEF LInv, Exclusion
<1>5. \A s \in Slots :
        Excl(c, s)' => Excl(c, s) \/ \A d \in Others(c) : ~Excl(d, s) /\ ~Shares(d, s)
  BY <1>1 DEF Others
<1> QED BY <1>3, <1>4, <1>5, LockMoves, Zenon

LEMMA LockShared ==
    ASSUME LInv, NEW c \in Conns, Alone(c), NEW q \in Slots,
           Sharable(q),
           lock' = Shared(lock, c, q),
           Joins(c, q)
    PROVE  LInv'
PROOF
<1> USE DEF Joins
<1>1. \A d \in Conns : ~Excl(d, q)
  BY Holders DEF Sharable
<1>2. \A s \in Slots :
        /\ {d \in Conns : (d # c /\ Shares(d, s)) \/ (d = c /\ Shares(c, s)')}
              = IF s = q THEN lock[s].shared \cup {c} ELSE lock[s].shared
        /\ {d \in Conns : (d # c /\ Excl(d, s)) \/ (d = c /\ Excl(c, s)')} = lock[s].excl
  BY <1>1, Holders
<1>3. lock' = [s \in Slots |->
               [shared |-> {d \in Conns : (d # c /\ Shares(d, s)) \/ (d = c /\ Shares(c, s)')},
                excl |-> {d \in Conns : (d # c /\ Excl(d, s)) \/ (d = c /\ Excl(c, s)')}]]
  <2>1. lock' = [s \in Slots |->
                    [shared |-> IF s = q THEN lock[s].shared \cup {c} ELSE lock[s].shared,
                     excl |-> lock[s].excl]]
    <3>1. lock = [s \in Slots |-> [shared |-> lock[s].shared, excl |-> lock[s].excl]]
      BY Holders DEF LInv, LocksOK
    <3>2. PICK sh, ex : lock[q] = [shared |-> sh, excl |-> ex]
      BY <3>1
    <3>3. [lock[q] EXCEPT !.shared = @ \cup {c}] = [shared |-> sh \cup {c}, excl |-> ex]
      BY <3>2
    <3>4. lock' = [lock EXCEPT ![q] = [shared |-> lock[q].shared \cup {c}, excl |-> lock[q].excl]]
      BY <3>2, <3>3 DEF Shared
    <3> QED BY <3>1, <3>4
  <2> QED BY <2>1, <1>2, Zenon
<1>4. \A s \in Slots : Excl(c, s)' => ~Shares(c, s)'
  BY <1>1 DEF LInv, Exclusion
<1>5. \A s \in Slots : Shares(c, s)' => Shares(c, s) \/ \A d \in Others(c) : ~Excl(d, s)
  BY <1>1 DEF Others
<1> QED BY <1>3, <1>4, <1>5, LockMoves, Zenon

LEMMA LockGiven ==
    ASSUME LInv, NEW c \in Conns, Alone(c), NEW S,
           lock' = Unlocked(lock, c, S),
           Drops(c, S)
    PROVE  LInv'
PROOF
<1> USE DEF Drops
<1>2. \A s \in Slots :
        /\ {d \in Conns : (d # c /\ Shares(d, s)) \/ (d = c /\ Shares(c, s)')}
              = IF s \in S THEN lock[s].shared \ {c} ELSE lock[s].shared
        /\ {d \in Conns : (d # c /\ Excl(d, s)) \/ (d = c /\ Excl(c, s)')}
              = IF s \in S THEN lock[s].excl \ {c} ELSE lock[s].excl
  BY Holders
<1>3. lock' = [s \in Slots |->
               [shared |-> {d \in Conns : (d # c /\ Shares(d, s)) \/ (d = c /\ Shares(c, s)')},
                excl |-> {d \in Conns : (d # c /\ Excl(d, s)) \/ (d = c /\ Excl(c, s)')}]]
  <2>1. lock' = [s \in Slots |->
                    [shared |-> IF s \in S THEN lock[s].shared \ {c} ELSE lock[s].shared,
                     excl |-> IF s \in S THEN lock[s].excl \ {c} ELSE lock[s].excl]]
    BY Holders DEF Unlocked
  <2> QED BY <2>1, <1>2, Zenon
<1>4. \A s \in Slots : Excl(c, s)' => ~Shares(c, s)'
  BY DEF LInv, Exclusion
<1> QED BY <1>3, <1>4, LockMoves, Zenon
-----------------------------------------------------------------------------
(* The least and the largest of a set of numbers.                          *)
LEMMA LeastOf ==
  ASSUME NEW T, T \subseteq Nat, T # {}
  PROVE  \E x \in T : \A y \in T : x <= y
  <1>1. \E x \in T : \A y \in T : <<y, x>> \notin OpToRel(<, Nat)
    BY NatLessThanWellFounded, WFMin
  <1>2. \A x, y \in Nat : <<y, x>> \notin OpToRel(<, Nat) => ~(y < x)
    BY Zenon DEF OpToRel
  <1>3. \E x \in T : \A y \in T : ~(y < x)
    BY <1>1, <1>2, Zenon
  <1> QED BY <1>3

LEMMA LargestOf ==
  ASSUME NEW T, NEW n \in Nat, T \subseteq 0 .. n, T # {}
  PROVE  Largest(T) \in T /\ \A m \in T : m <= Largest(T)
  <1> DEFINE U == {n - x : x \in T}
  <1>1. U \subseteq Nat /\ U # {}
    <2>1. \A x \in T : x \in 0 .. n
      OBVIOUS
    <2>2. \A x \in 0 .. n : n - x \in Nat
      OBVIOUS
    <2> QED BY <2>1, <2>2
  <1>2. PICK u \in U : \A v \in U : u <= v
    <2> HIDE DEF U
    <2> QED BY <1>1, LeastOf
  <1>3. PICK x \in T : u = n - x
    BY <1>2
  <1>4. \A m \in T : m <= x
    <2> SUFFICES ASSUME NEW m \in T PROVE m <= x
      OBVIOUS
    <2>1. n - m \in U
      OBVIOUS
    <2>2. u <= n - m
      BY <1>2, <2>1
    <2> QED BY <1>3, <2>2
  <1> QED BY <1>4 DEF Largest

MarkNumbers ==
    /\ shm.aReadMark \in [0 .. WAL_NREADER - 1 -> Nat]
    /\ \A c \in Conns : wc[c].hdr.mxFrame \in Nat

LEMMA BestMarkUsable ==
  ASSUME MarkNumbers, NEW c \in Conns, Usable(c) # {}
  PROVE  BestMark(c) \in Usable(c)
  <1> DEFINE tops == {shm.aReadMark[i] : i \in Usable(c)}
             top == Largest(tops)
             best == {i \in Usable(c) : shm.aReadMark[i] = top}
  <1>1. tops \subseteq 0 .. wc[c].hdr.mxFrame /\ tops # {}
    BY WalAssumption DEF Usable, MarkNumbers
  <1>2. top \in tops
    <2> HIDE DEF tops
    <2> QED BY <1>1, LargestOf DEF MarkNumbers
  <1>3. best # {}
    <2> HIDE DEF top
    <2> QED BY <1>2
  <1>4. best \subseteq 0 .. WAL_NREADER /\ best \subseteq Usable(c)
    BY WalAssumption DEF Usable
  <1>5. Largest(best) \in best
    <2> HIDE DEF best
    <2> QED BY <1>3, <1>4, LargestOf, WalAssumption
  <1>6. BestMark(c) = Largest(best)
    BY DEF BestMark
  <1> QED BY <1>4, <1>5, <1>6

-----------------------------------------------------------------------------
(* Where the call of c stands, and the locks it holds, step by step.       *)

Modes == {"passive", "full", "truncate", "close"}

LEMMA BeginReadLocks ==
  ASSUME LInv, NEW c \in Conns, BeginRead(c)
  PROVE  LInv'
  <1>0. pc[c] = "idle" /\ ~(wc[c].readLock >= 0)
    BY DEF BeginRead, Reading, Step, At
  <1>s. Shaped
    BY DEF LInv, Shaped, Local
  <1>1. Becomes(c, "tryhdr", [NoJob EXCEPT !.kind = "read"],
             wc[c], tx[c])
    BY <1>s, BeginReadDoes
  <1>2. Local(c)'
    BY <1>0, <1>1, WalAssumption DEF LInv, Becomes, Local, ShapeOf, ControlOf,
       NoJob, NoTx, HdrPcs, Recovery, MarkPcs, RestartPcs, FramePcs, CopyPcs,
       ScanPcs, CkptPcs, Marks
  <1>3. Alone(c)
    BY <1>1, <1>2 DEF Alone, Becomes
  <1>4. Same(c)
    BY <1>0, <1>1, WalAssumption DEF LInv, Becomes, Local, ShapeOf, ControlOf,
       NoJob, NoTx, HdrPcs, Recovery, MarkPcs, RestartPcs, FramePcs, CopyPcs,
       ScanPcs, CkptPcs, Marks, Same, Excl, Shares, ExclOf, SharedOf
  <1>5. UNCHANGED lock
    BY <1>0 DEF BeginRead, Step, At, private
  <1> QED BY <1>3, <1>4, <1>5, LockKept

LEMMA TryHdrLocks ==
  ASSUME LInv, NEW c \in Conns, TryHdr(c)
  PROVE  LInv'
  <1>0. pc[c] = "tryhdr"
    BY DEF TryHdr, Step, At
  <1>s. Shaped
    BY DEF LInv, Shaped, Local
  <1>1. Becomes(c, "tryhdr2", [job[c] EXCEPT !.h1 = LiveHdr],
             wc[c], tx[c])
    BY <1>s, TryHdrDoes
  <1>2. Local(c)'
    BY <1>0, <1>1, WalAssumption DEF LInv, Becomes, Local, ShapeOf, ControlOf,
       NoJob, NoTx, HdrPcs, Recovery, MarkPcs, RestartPcs, FramePcs, CopyPcs,
       ScanPcs, CkptPcs, Marks
  <1>3. Alone(c)
    BY <1>1, <1>2 DEF Alone, Becomes
  <1>4. Same(c)
    BY <1>0, <1>1, WalAssumption DEF LInv, Becomes, Local, ShapeOf, ControlOf,
       NoJob, NoTx, HdrPcs, Recovery, MarkPcs, RestartPcs, FramePcs, CopyPcs,
       ScanPcs, CkptPcs, Marks, Same, Excl, Shares, ExclOf, SharedOf
  <1>5. UNCHANGED lock
    BY <1>0 DEF TryHdr, Step, At, private
  <1> QED BY <1>3, <1>4, <1>5, LockKept

LEMMA TryHdr2Locks ==
  ASSUME LInv, NEW c \in Conns, TryHdr2(c)
  PROVE  LInv'
  <1>0. pc[c] = "tryhdr2"
    BY DEF TryHdr2, Step, At
  <1>s. Shaped
    BY DEF LInv, Shaped, Local
  <1>1. CASE job[c].h1 = shm.hdr[2] /\ job[c].h1.isInit
    <2>1. Becomes(c, AfterHdr(c), [job[c] EXCEPT !.h1 = ZeroHdr, !.changed = @ \/ job[c].h1 # wc[c].hdr],
               [wc[c] EXCEPT !.hdr = job[c].h1], tx[c])
      BY <1>s, TryHdr2Does, <1>1
    <2>2. Local(c)'
      BY <1>0, <1>1, <2>1, WalAssumption DEF LInv, Becomes, Local, ShapeOf,
         ControlOf, NoJob, NoTx, HdrPcs, Recovery, MarkPcs, RestartPcs,
         FramePcs, CopyPcs, ScanPcs, CkptPcs, Marks, AfterHdr
    <2>3. Alone(c)
      BY <2>1, <2>2 DEF Alone, Becomes
    <2>4. Same(c)
      BY <1>0, <1>1, <2>1, WalAssumption DEF LInv, Becomes, Local, ShapeOf,
         ControlOf, NoJob, NoTx, HdrPcs, Recovery, MarkPcs, RestartPcs,
         FramePcs, CopyPcs, ScanPcs, CkptPcs, Marks, Same, Excl, Shares,
         ExclOf, SharedOf, AfterHdr
    <2>5. UNCHANGED lock
      BY <1>0, <1>1 DEF TryHdr2, Accept, Step, At, private
    <2> QED BY <2>3, <2>4, <2>5, LockKept
  <1>2. CASE ~(job[c].h1 = shm.hdr[2] /\ job[c].h1.isInit)
    <2>1. Becomes(c, "badhdr", [job[c] EXCEPT !.h1 = ZeroHdr],
               wc[c], tx[c])
      BY <1>s, TryHdr2Does, <1>2
    <2>2. Local(c)'
      BY <1>0, <1>2, <2>1, WalAssumption DEF LInv, Becomes, Local, ShapeOf,
         ControlOf, NoJob, NoTx, HdrPcs, Recovery, MarkPcs, RestartPcs,
         FramePcs, CopyPcs, ScanPcs, CkptPcs, Marks, AfterHdr
    <2>3. Alone(c)
      BY <2>1, <2>2 DEF Alone, Becomes
    <2>4. Same(c)
      BY <1>0, <1>2, <2>1, WalAssumption DEF LInv, Becomes, Local, ShapeOf,
         ControlOf, NoJob, NoTx, HdrPcs, Recovery, MarkPcs, RestartPcs,
         FramePcs, CopyPcs, ScanPcs, CkptPcs, Marks, Same, Excl, Shares,
         ExclOf, SharedOf, AfterHdr
    <2>5. UNCHANGED lock
      BY <1>0, <1>2 DEF TryHdr2, Accept, Step, At, private
    <2> QED BY <2>3, <2>4, <2>5, LockKept
  <1> QED BY <1>1, <1>2

LEMMA BadHdrLocks ==
  ASSUME LInv, NEW c \in Conns, BadHdr(c)
  PROVE  LInv'
  <1>0. pc[c] = "badhdr"
    BY DEF BadHdr, Step, At
  <1>s. Shaped
    BY DEF LInv, Shaped, Local
  <1>1. CASE shm.hdr[1] = shm.hdr[2] /\ LiveHdr.isInit
    <2>1. Becomes(c, AfterHdr(c), [job[c] EXCEPT !.h1 = ZeroHdr, !.changed = @ \/ LiveHdr # wc[c].hdr],
               [wc[c] EXCEPT !.hdr = LiveHdr], tx[c])
      BY <1>s, BadHdrDoes, <1>1
    <2>2. Local(c)'
      BY <1>0, <1>1, <2>1, WalAssumption DEF LInv, Becomes, Local, ShapeOf,
         ControlOf, NoJob, NoTx, HdrPcs, Recovery, MarkPcs, RestartPcs,
         FramePcs, CopyPcs, ScanPcs, CkptPcs, Marks, AfterHdr
    <2>3. Alone(c)
      BY <2>1, <2>2 DEF Alone, Becomes
    <2>4. Same(c)
      BY <1>0, <1>1, <2>1, WalAssumption DEF LInv, Becomes, Local, ShapeOf,
         ControlOf, NoJob, NoTx, HdrPcs, Recovery, MarkPcs, RestartPcs,
         FramePcs, CopyPcs, ScanPcs, CkptPcs, Marks, Same, Excl, Shares,
         ExclOf, SharedOf, AfterHdr
    <2>5. UNCHANGED lock
      BY <1>0, <1>1 DEF BadHdr, Accept, writeLock, Step, At, private
    <2> QED BY <2>3, <2>4, <2>5, LockKept
  <1>2. CASE ~(shm.hdr[1] = shm.hdr[2] /\ LiveHdr.isInit)
    <2>1. Becomes(c, "recover", job[c],
               wc[c], tx[c])
      BY <1>s, BadHdrDoes, <1>2
    <2>2. Local(c)'
      BY <1>0, <1>2, <2>1, WalAssumption DEF LInv, Becomes, Local, ShapeOf,
         ControlOf, NoJob, NoTx, HdrPcs, Recovery, MarkPcs, RestartPcs,
         FramePcs, CopyPcs, ScanPcs, CkptPcs, Marks, AfterHdr
    <2>3. Alone(c)
      BY <2>1, <2>2 DEF Alone, Becomes
    <2>4. Adds(c, {WAL_WRITE_LOCK})
      BY <1>0, <1>2, <2>1, WalAssumption DEF LInv, Becomes, Local, ShapeOf,
         ControlOf, NoJob, NoTx, HdrPcs, Recovery, MarkPcs, RestartPcs,
         FramePcs, CopyPcs, ScanPcs, CkptPcs, Marks, Adds, Excl, Shares,
         ExclOf, SharedOf, Slots, ReadersSlots, WAL_WRITE_LOCK, WAL_CKPT_LOCK,
         WAL_RECOVER_LOCK, WAL_READ_LOCK, AfterHdr
    <2>5. {WAL_WRITE_LOCK} \in SUBSET Slots
      BY WalAssumption DEF Slots, ReadersSlots, WAL_WRITE_LOCK, WAL_CKPT_LOCK, WAL_RECOVER_LOCK, WAL_READ_LOCK
    <2>6. /\ \A s \in {WAL_WRITE_LOCK} : lock[s] = Free \/ Holds(c, s)
          /\ lock' = Locked(lock, c, {WAL_WRITE_LOCK})
      BY <1>0, <1>2, <2>1 DEF BadHdr, Accept, writeLock, Step, At, private,
         Acquire, Lockable, Becomes
    <2> QED BY <2>3, <2>4, <2>5, <2>6, LockTaken
  <1> QED BY <1>1, <1>2

LEMMA BadHdrBusyLocks ==
  ASSUME LInv, NEW c \in Conns, BadHdrBusy(c)
  PROVE  LInv'
  <1>0. pc[c] = "badhdr"
    BY DEF BadHdrBusy, Step, At
  <1>s. Shaped
    BY DEF LInv, Shaped, Local
  <1>1. CASE job[c].kind = "ckpt"
    <2>1. Becomes(c, "ckptend", [job[c] EXCEPT !.ok = FALSE],
               wc[c], tx[c])
      BY <1>s, BadHdrBusyDoes, <1>1
    <2>2. Local(c)'
      BY <1>0, <1>1, <2>1, WalAssumption DEF LInv, Becomes, Local, ShapeOf,
         ControlOf, NoJob, NoTx, HdrPcs, Recovery, MarkPcs, RestartPcs,
         FramePcs, CopyPcs, ScanPcs, CkptPcs, Marks
    <2>3. Alone(c)
      BY <2>1, <2>2 DEF Alone, Becomes
    <2>4. Same(c)
      BY <1>0, <1>1, <2>1, WalAssumption DEF LInv, Becomes, Local, ShapeOf,
         ControlOf, NoJob, NoTx, HdrPcs, Recovery, MarkPcs, RestartPcs,
         FramePcs, CopyPcs, ScanPcs, CkptPcs, Marks, Same, Excl, Shares,
         ExclOf, SharedOf
    <2>5. UNCHANGED lock
      BY <1>0, <1>1 DEF BadHdrBusy, ReadBusy, Step, At, private
    <2> QED BY <2>3, <2>4, <2>5, LockKept
  <1>2. CASE job[c].kind # "ckpt" /\ Sharable(WAL_RECOVER_LOCK)
    <2>1. Becomes(c, "tryhdr", job[c],
               wc[c], tx[c])
      BY <1>s, BadHdrBusyDoes, <1>2
    <2>2. Local(c)'
      BY <1>0, <1>2, <2>1, WalAssumption DEF LInv, Becomes, Local, ShapeOf,
         ControlOf, NoJob, NoTx, HdrPcs, Recovery, MarkPcs, RestartPcs,
         FramePcs, CopyPcs, ScanPcs, CkptPcs, Marks
    <2>3. Alone(c)
      BY <2>1, <2>2 DEF Alone, Becomes
    <2>4. Same(c)
      BY <1>0, <1>2, <2>1, WalAssumption DEF LInv, Becomes, Local, ShapeOf,
         ControlOf, NoJob, NoTx, HdrPcs, Recovery, MarkPcs, RestartPcs,
         FramePcs, CopyPcs, ScanPcs, CkptPcs, Marks, Same, Excl, Shares,
         ExclOf, SharedOf
    <2>5. UNCHANGED lock
      BY <1>0, <1>2 DEF BadHdrBusy, ReadBusy, Step, At, private
    <2> QED BY <2>3, <2>4, <2>5, LockKept
  <1>3. CASE job[c].kind # "ckpt" /\ ~Sharable(WAL_RECOVER_LOCK)
    <2>1. Becomes(c, "idle", NoJob,
               wc[c], tx[c])
      BY <1>s, BadHdrBusyDoes, <1>3
    <2>2. Local(c)'
      BY <1>0, <1>3, <2>1, WalAssumption DEF LInv, Becomes, Local, ShapeOf,
         ControlOf, NoJob, NoTx, HdrPcs, Recovery, MarkPcs, RestartPcs,
         FramePcs, CopyPcs, ScanPcs, CkptPcs, Marks
    <2>3. Alone(c)
      BY <2>1, <2>2 DEF Alone, Becomes
    <2>4. Same(c)
      BY <1>0, <1>3, <2>1, WalAssumption DEF LInv, Becomes, Local, ShapeOf,
         ControlOf, NoJob, NoTx, HdrPcs, Recovery, MarkPcs, RestartPcs,
         FramePcs, CopyPcs, ScanPcs, CkptPcs, Marks, Same, Excl, Shares,
         ExclOf, SharedOf
    <2>5. UNCHANGED lock
      BY <1>0, <1>3 DEF BadHdrBusy, ReadBusy, Step, At, private
    <2> QED BY <2>3, <2>4, <2>5, LockKept
  <1> QED BY <1>1, <1>2, <1>3

LEMMA RecoverLockLocks ==
  ASSUME LInv, NEW c \in Conns, RecoverLock(c)
  PROVE  LInv'
  <1>0. pc[c] = "recover"
    BY DEF RecoverLock, Step, At
  <1>s. Shaped
    BY DEF LInv, Shaped, Local
  <1>h. \A s \in Slots : Holds(c, s) <=> Excl(c, s)
    BY Holders DEF Holds
  <1>1. Becomes(c, "recover1", job[c],
             wc[c], tx[c])
    BY <1>s, RecoverLockDoes
  <1>2. Local(c)'
    BY <1>0, <1>1, <1>h, WalAssumption DEF LInv, Becomes, Local, ShapeOf,
       ControlOf, NoJob, NoTx, HdrPcs, Recovery, MarkPcs, RestartPcs,
       FramePcs, CopyPcs, ScanPcs, CkptPcs, Marks
  <1>3. Alone(c)
    BY <1>1, <1>2 DEF Alone, Becomes
  <1>4. Adds(c, RecoverLocks(c))
    BY <1>0, <1>1, <1>h, WalAssumption DEF LInv, Becomes, Local, ShapeOf,
       ControlOf, NoJob, NoTx, HdrPcs, Recovery, MarkPcs, RestartPcs,
       FramePcs, CopyPcs, ScanPcs, CkptPcs, Marks, Adds, Excl, Shares, ExclOf,
       SharedOf, Slots, ReadersSlots, WAL_WRITE_LOCK, WAL_CKPT_LOCK,
       WAL_RECOVER_LOCK, WAL_READ_LOCK, RecoverLocks
  <1>5. RecoverLocks(c) \in SUBSET Slots
    BY WalAssumption DEF RecoverLocks, Slots, ReadersSlots, WAL_WRITE_LOCK, WAL_CKPT_LOCK, WAL_RECOVER_LOCK, WAL_READ_LOCK
  <1>6. /\ \A s \in RecoverLocks(c) : lock[s] = Free \/ Holds(c, s)
        /\ lock' = Locked(lock, c, RecoverLocks(c))
    BY <1>0, <1>1 DEF RecoverLock, Step, At, private, Acquire, Lockable,
       Becomes
  <1> QED BY <1>3, <1>4, <1>5, <1>6, LockTaken

LEMMA RecoverBusyLocks ==
  ASSUME LInv, NEW c \in Conns, RecoverBusy(c)
  PROVE  LInv'
  <1>0. pc[c] = "recover"
    BY DEF RecoverBusy, Step, At
  <1>s. Shaped
    BY DEF LInv, Shaped, Local
  <1>1. CASE OwnWrite(c) /\ job[c].kind = "ckpt"
    <2>1. Becomes(c, "ckptend", [job[c] EXCEPT !.changed = TRUE, !.ok = FALSE],
               wc[c], tx[c])
      BY <1>s, RecoverBusyDoes, <1>1
    <2>2. Local(c)'
      BY <1>0, <1>1, <2>1, WalAssumption DEF LInv, Becomes, Local, ShapeOf,
         ControlOf, NoJob, NoTx, HdrPcs, Recovery, MarkPcs, RestartPcs,
         FramePcs, CopyPcs, ScanPcs, CkptPcs, Marks, OwnWrite
    <2>3. Alone(c)
      BY <2>1, <2>2 DEF Alone, Becomes
    <2>4. Same(c)
      BY <1>0, <1>1, <2>1, WalAssumption DEF LInv, Becomes, Local, ShapeOf,
         ControlOf, NoJob, NoTx, HdrPcs, Recovery, MarkPcs, RestartPcs,
         FramePcs, CopyPcs, ScanPcs, CkptPcs, Marks, Same, Excl, Shares,
         ExclOf, SharedOf, OwnWrite
    <2>5. UNCHANGED lock
      BY <1>0, <1>1 DEF RecoverBusy, ReadBusy, Step, At, private
    <2> QED BY <2>3, <2>4, <2>5, LockKept
  <1>2. CASE OwnWrite(c) /\ job[c].kind # "ckpt" /\ Sharable(WAL_RECOVER_LOCK)
    <2>1. Becomes(c, "tryhdr", [job[c] EXCEPT !.changed = TRUE],
               wc[c], tx[c])
      BY <1>s, RecoverBusyDoes, <1>2
    <2>2. Local(c)'
      BY <1>0, <1>2, <2>1, WalAssumption DEF LInv, Becomes, Local, ShapeOf,
         ControlOf, NoJob, NoTx, HdrPcs, Recovery, MarkPcs, RestartPcs,
         FramePcs, CopyPcs, ScanPcs, CkptPcs, Marks, OwnWrite
    <2>3. Alone(c)
      BY <2>1, <2>2 DEF Alone, Becomes
    <2>4. Same(c)
      BY <1>0, <1>2, <2>1, WalAssumption DEF LInv, Becomes, Local, ShapeOf,
         ControlOf, NoJob, NoTx, HdrPcs, Recovery, MarkPcs, RestartPcs,
         FramePcs, CopyPcs, ScanPcs, CkptPcs, Marks, Same, Excl, Shares,
         ExclOf, SharedOf, OwnWrite
    <2>5. UNCHANGED lock
      BY <1>0, <1>2 DEF RecoverBusy, ReadBusy, Step, At, private
    <2> QED BY <2>3, <2>4, <2>5, LockKept
  <1>3. CASE OwnWrite(c) /\ job[c].kind # "ckpt" /\ ~Sharable(WAL_RECOVER_LOCK)
    <2>1. Becomes(c, "idle", NoJob,
               wc[c], tx[c])
      BY <1>s, RecoverBusyDoes, <1>3
    <2>2. Local(c)'
      BY <1>0, <1>3, <2>1, WalAssumption DEF LInv, Becomes, Local, ShapeOf,
         ControlOf, NoJob, NoTx, HdrPcs, Recovery, MarkPcs, RestartPcs,
         FramePcs, CopyPcs, ScanPcs, CkptPcs, Marks, OwnWrite
    <2>3. Alone(c)
      BY <2>1, <2>2 DEF Alone, Becomes
    <2>4. Same(c)
      BY <1>0, <1>3, <2>1, WalAssumption DEF LInv, Becomes, Local, ShapeOf,
         ControlOf, NoJob, NoTx, HdrPcs, Recovery, MarkPcs, RestartPcs,
         FramePcs, CopyPcs, ScanPcs, CkptPcs, Marks, Same, Excl, Shares,
         ExclOf, SharedOf, OwnWrite
    <2>5. UNCHANGED lock
      BY <1>0, <1>3 DEF RecoverBusy, ReadBusy, Step, At, private
    <2> QED BY <2>3, <2>4, <2>5, LockKept
  <1>4. CASE ~OwnWrite(c) /\ job[c].kind = "ckpt"
    <2>1. Becomes(c, "ckptend", [job[c] EXCEPT !.changed = TRUE, !.ok = FALSE],
               wc[c], tx[c])
      BY <1>s, RecoverBusyDoes, <1>4
    <2>2. Local(c)'
      BY <1>0, <1>4, <2>1, WalAssumption DEF LInv, Becomes, Local, ShapeOf,
         ControlOf, NoJob, NoTx, HdrPcs, Recovery, MarkPcs, RestartPcs,
         FramePcs, CopyPcs, ScanPcs, CkptPcs, Marks, OwnWrite
    <2>3. Alone(c)
      BY <2>1, <2>2 DEF Alone, Becomes
    <2>4. Drops(c, {WAL_WRITE_LOCK})
      BY <1>0, <1>4, <2>1, WalAssumption DEF LInv, Becomes, Local, ShapeOf,
         ControlOf, NoJob, NoTx, HdrPcs, Recovery, MarkPcs, RestartPcs,
         FramePcs, CopyPcs, ScanPcs, CkptPcs, Marks, Drops, Excl, Shares,
         ExclOf, SharedOf, Slots, ReadersSlots, WAL_WRITE_LOCK, WAL_CKPT_LOCK,
         WAL_RECOVER_LOCK, WAL_READ_LOCK, OwnWrite
    <2>5. lock' = Unlocked(lock, c, {WAL_WRITE_LOCK})
      BY <1>0, <1>4, WalAssumption DEF RecoverBusy, ReadBusy, Step, At,
         private, Release
    <2> QED BY <2>3, <2>4, <2>5, LockGiven
  <1>5. CASE ~OwnWrite(c) /\ job[c].kind # "ckpt" /\ Sharable(WAL_RECOVER_LOCK)
    <2>1. Becomes(c, "tryhdr", [job[c] EXCEPT !.changed = TRUE],
               wc[c], tx[c])
      BY <1>s, RecoverBusyDoes, <1>5
    <2>2. Local(c)'
      BY <1>0, <1>5, <2>1, WalAssumption DEF LInv, Becomes, Local, ShapeOf,
         ControlOf, NoJob, NoTx, HdrPcs, Recovery, MarkPcs, RestartPcs,
         FramePcs, CopyPcs, ScanPcs, CkptPcs, Marks, OwnWrite
    <2>3. Alone(c)
      BY <2>1, <2>2 DEF Alone, Becomes
    <2>4. Drops(c, {WAL_WRITE_LOCK})
      BY <1>0, <1>5, <2>1, WalAssumption DEF LInv, Becomes, Local, ShapeOf,
         ControlOf, NoJob, NoTx, HdrPcs, Recovery, MarkPcs, RestartPcs,
         FramePcs, CopyPcs, ScanPcs, CkptPcs, Marks, Drops, Excl, Shares,
         ExclOf, SharedOf, Slots, ReadersSlots, WAL_WRITE_LOCK, WAL_CKPT_LOCK,
         WAL_RECOVER_LOCK, WAL_READ_LOCK, OwnWrite
    <2>5. lock' = Unlocked(lock, c, {WAL_WRITE_LOCK})
      BY <1>0, <1>5, WalAssumption DEF RecoverBusy, ReadBusy, Step, At,
         private, Release
    <2> QED BY <2>3, <2>4, <2>5, LockGiven
  <1>6. CASE ~OwnWrite(c) /\ job[c].kind # "ckpt" /\ ~Sharable(WAL_RECOVER_LOCK)
    <2>1. Becomes(c, "idle", NoJob,
               wc[c], tx[c])
      BY <1>s, RecoverBusyDoes, <1>6
    <2>2. Local(c)'
      BY <1>0, <1>6, <2>1, WalAssumption DEF LInv, Becomes, Local, ShapeOf,
         ControlOf, NoJob, NoTx, HdrPcs, Recovery, MarkPcs, RestartPcs,
         FramePcs, CopyPcs, ScanPcs, CkptPcs, Marks, OwnWrite
    <2>3. Alone(c)
      BY <2>1, <2>2 DEF Alone, Becomes
    <2>4. Drops(c, {WAL_WRITE_LOCK})
      BY <1>0, <1>6, <2>1, WalAssumption DEF LInv, Becomes, Local, ShapeOf,
         ControlOf, NoJob, NoTx, HdrPcs, Recovery, MarkPcs, RestartPcs,
         FramePcs, CopyPcs, ScanPcs, CkptPcs, Marks, Drops, Excl, Shares,
         ExclOf, SharedOf, Slots, ReadersSlots, WAL_WRITE_LOCK, WAL_CKPT_LOCK,
         WAL_RECOVER_LOCK, WAL_READ_LOCK, OwnWrite
    <2>5. lock' = Unlocked(lock, c, {WAL_WRITE_LOCK})
      BY <1>0, <1>6, WalAssumption DEF RecoverBusy, ReadBusy, Step, At,
         private, Release
    <2> QED BY <2>3, <2>4, <2>5, LockGiven
  <1> QED BY <1>1, <1>2, <1>3, <1>4, <1>5, <1>6, <1>0 DEF OwnWrite

LEMMA RecoverLogLocks ==
  ASSUME LInv, NEW c \in Conns, RecoverLog(c)
  PROVE  LInv'
  <1>0. pc[c] = "recover1"
    BY DEF RecoverLog, Step, At
  <1>s. Shaped
    BY DEF LInv, Shaped, Local
  <1>1. Becomes(c, "recover2", job[c],
             [wc[c] EXCEPT !.hdr = RecoveredHdr(wal), !.nCkpt = IF HasFrames(wal) THEN wal.nCkpt ELSE @], tx[c])
    BY <1>s, RecoverLogDoes
  <1>2. Local(c)'
    BY <1>0, <1>1, WalAssumption DEF LInv, Becomes, Local, ShapeOf, ControlOf,
       NoJob, NoTx, HdrPcs, Recovery, MarkPcs, RestartPcs, FramePcs, CopyPcs,
       ScanPcs, CkptPcs, Marks
  <1>3. Alone(c)
    BY <1>1, <1>2 DEF Alone, Becomes
  <1>4. Same(c)
    BY <1>0, <1>1, WalAssumption DEF LInv, Becomes, Local, ShapeOf, ControlOf,
       NoJob, NoTx, HdrPcs, Recovery, MarkPcs, RestartPcs, FramePcs, CopyPcs,
       ScanPcs, CkptPcs, Marks, Same, Excl, Shares, ExclOf, SharedOf
  <1>5. UNCHANGED lock
    BY <1>0 DEF RecoverLog, Step, At, private
  <1> QED BY <1>3, <1>4, <1>5, LockKept

LEMMA RecoverHdr0Locks ==
  ASSUME LInv, NEW c \in Conns, RecoverHdr0(c)
  PROVE  LInv'
  <1>0. pc[c] = "recover2"
    BY DEF RecoverHdr0, Step, At
  <1>s. Shaped
    BY DEF LInv, Shaped, Local
  <1>1. Becomes(c, "recover3", job[c],
             wc[c], tx[c])
    BY <1>s, RecoverHdr0Does
  <1>2. Local(c)'
    BY <1>0, <1>1, WalAssumption DEF LInv, Becomes, Local, ShapeOf, ControlOf,
       NoJob, NoTx, HdrPcs, Recovery, MarkPcs, RestartPcs, FramePcs, CopyPcs,
       ScanPcs, CkptPcs, Marks
  <1>3. Alone(c)
    BY <1>1, <1>2 DEF Alone, Becomes
  <1>4. Same(c)
    BY <1>0, <1>1, WalAssumption DEF LInv, Becomes, Local, ShapeOf, ControlOf,
       NoJob, NoTx, HdrPcs, Recovery, MarkPcs, RestartPcs, FramePcs, CopyPcs,
       ScanPcs, CkptPcs, Marks, Same, Excl, Shares, ExclOf, SharedOf
  <1>5. UNCHANGED lock
    BY <1>0 DEF RecoverHdr0, Step, At, private
  <1> QED BY <1>3, <1>4, <1>5, LockKept

LEMMA RecoverInfoLocks ==
  ASSUME LInv, NEW c \in Conns, RecoverInfo(c)
  PROVE  LInv'
  <1>0. pc[c] = "recover3"
    BY DEF RecoverInfo, Step, At
  <1>s. Shaped
    BY DEF LInv, Shaped, Local
  <1>1. Becomes(c, AfterHdr(c), [job[c] EXCEPT !.changed = TRUE],
             wc[c], tx[c])
    BY <1>s, RecoverInfoDoes
  <1>2. Local(c)'
    BY <1>0, <1>1, WalAssumption DEF LInv, Becomes, Local, ShapeOf, ControlOf,
       NoJob, NoTx, HdrPcs, Recovery, MarkPcs, RestartPcs, FramePcs, CopyPcs,
       ScanPcs, CkptPcs, Marks, AfterHdr, OwnWrite
  <1>3. Alone(c)
    BY <1>1, <1>2 DEF Alone, Becomes
  <1>4. Drops(c, RecoverHeld(c))
    <2>1. \A s \in Slots : ~Shares(c, s) /\ ~Shares(c, s)'
      BY <1>0, <1>1 DEF LInv, Becomes, Local, ControlOf, Shares, SharedOf, AfterHdr, ShapeOf,
         HdrPcs, Recovery, MarkPcs, RestartPcs, FramePcs, CopyPcs, ScanPcs,
         CkptPcs
    <2>2. \A s \in Slots : Excl(c, s) <=> s \in {WAL_WRITE_LOCK, WAL_CKPT_LOCK, WAL_RECOVER_LOCK}
      BY <1>0, WalAssumption DEF LInv, Local, ControlOf, Excl, ExclOf, HdrPcs, Recovery, MarkPcs, RestartPcs, FramePcs, CopyPcs, ScanPcs,
         CkptPcs,
         WAL_WRITE_LOCK, WAL_CKPT_LOCK, WAL_RECOVER_LOCK, WAL_READ_LOCK, ReadersSlots
    <2>3. \A s \in Slots :
            Excl(c, s)' <=> (s = WAL_WRITE_LOCK /\ OwnWrite(c)) \/ (s = WAL_CKPT_LOCK /\ job[c].kind = "ckpt")
      BY <1>0, <1>1 DEF LInv, Becomes, Local, ShapeOf, ControlOf, Excl, ExclOf,
         OwnWrite, AfterHdr, HdrPcs, Recovery, MarkPcs, RestartPcs, FramePcs, CopyPcs, ScanPcs,
         CkptPcs
    <2> QED BY <2>1, <2>2, <2>3
            DEF Drops, RecoverHeld, WAL_WRITE_LOCK, WAL_CKPT_LOCK, WAL_RECOVER_LOCK
  <1>5. lock' = Unlocked(lock, c, RecoverHeld(c))
    BY <1>0, WalAssumption DEF RecoverInfo, RecoverHeld, Step, At, private,
       Release
  <1> QED BY <1>3, <1>4, <1>5, LockGiven

LEMMA ChooseDbLocks ==
  ASSUME LInv, NEW c \in Conns, ChooseDb(c)
  PROVE  LInv'
  <1>0. pc[c] = "choose"
    BY DEF ChooseDb, Step, At
  <1>s. Shaped
    BY DEF LInv, Shaped, Local
  <1>1. Becomes(c, "check0", job[c],
             wc[c], tx[c])
    BY <1>s, ChooseDbDoes
  <1>2. Local(c)'
    BY <1>0, <1>1, WalAssumption DEF LInv, Becomes, Local, ShapeOf, ControlOf,
       NoJob, NoTx, HdrPcs, Recovery, MarkPcs, RestartPcs, FramePcs, CopyPcs,
       ScanPcs, CkptPcs, Marks
  <1>3. Alone(c)
    BY <1>1, <1>2 DEF Alone, Becomes
  <1>4. Joins(c, WAL_READ_LOCK(0))
    BY <1>0, <1>1, WalAssumption DEF LInv, Becomes, Local, ShapeOf, ControlOf,
       NoJob, NoTx, HdrPcs, Recovery, MarkPcs, RestartPcs, FramePcs, CopyPcs,
       ScanPcs, CkptPcs, Marks, Joins, Excl, Shares, ExclOf, SharedOf, Slots,
       ReadersSlots, WAL_WRITE_LOCK, WAL_CKPT_LOCK, WAL_RECOVER_LOCK,
       WAL_READ_LOCK
  <1>5. /\ WAL_READ_LOCK(0) \in Slots /\ Sharable(WAL_READ_LOCK(0))
        /\ lock' = Shared(lock, c, WAL_READ_LOCK(0))
    BY <1>0, WalAssumption DEF ChooseDb, Step, At, private, LInv, Local,
       ControlOf, Slots, WAL_READ_LOCK
  <1> QED BY <1>3, <1>4, <1>5, LockShared

LEMMA Check0Locks ==
  ASSUME LInv, NEW c \in Conns, Check0(c)
  PROVE  LInv'
  <1>0. pc[c] = "check0"
    BY DEF Check0, Step, At
  <1>s. Shaped
    BY DEF LInv, Shaped, Local
  <1>1. CASE wc[c].hdr = LiveHdr /\ job[c].useWal
    <2>1. Becomes(c, "log", [job[c] EXCEPT !.useWal = FALSE],
               [wc[c] EXCEPT !.readLock = 0], tx[c])
      BY <1>s, Check0Does, <1>1
    <2>2. Local(c)'
      BY <1>0, <1>1, <2>1, WalAssumption DEF LInv, Becomes, Local, ShapeOf,
         ControlOf, NoJob, NoTx, HdrPcs, Recovery, MarkPcs, RestartPcs,
         FramePcs, CopyPcs, ScanPcs, CkptPcs, Marks
    <2>3. Alone(c)
      BY <2>1, <2>2 DEF Alone, Becomes
    <2>4. Same(c)
      BY <1>0, <1>1, <2>1, WalAssumption DEF LInv, Becomes, Local, ShapeOf,
         ControlOf, NoJob, NoTx, HdrPcs, Recovery, MarkPcs, RestartPcs,
         FramePcs, CopyPcs, ScanPcs, CkptPcs, Marks, Same, Excl, Shares,
         ExclOf, SharedOf
    <2>5. UNCHANGED lock
      BY <1>0, <1>1 DEF Check0, ReadBegun, Retry, Step, At, private
    <2> QED BY <2>3, <2>4, <2>5, LockKept
  <1>2. CASE wc[c].hdr = LiveHdr /\ ~job[c].useWal
    <2>1. Becomes(c, "idle", NoJob,
               [wc[c] EXCEPT !.readLock = 0], tx[c])
      BY <1>s, Check0Does, <1>2
    <2>2. Local(c)'
      BY <1>0, <1>2, <2>1, WalAssumption DEF LInv, Becomes, Local, ShapeOf,
         ControlOf, NoJob, NoTx, HdrPcs, Recovery, MarkPcs, RestartPcs,
         FramePcs, CopyPcs, ScanPcs, CkptPcs, Marks
    <2>3. Alone(c)
      BY <2>1, <2>2 DEF Alone, Becomes
    <2>4. Same(c)
      BY <1>0, <1>2, <2>1, WalAssumption, SMTT(20) DEF LInv, Becomes, Local, ShapeOf,
         ControlOf, NoJob, NoTx, HdrPcs, Recovery, MarkPcs, RestartPcs,
         FramePcs, CopyPcs, ScanPcs, CkptPcs, Marks, Same, Excl, Shares,
         ExclOf, SharedOf
    <2>5. UNCHANGED lock
      BY <1>0, <1>2 DEF Check0, ReadBegun, Retry, Step, At, private
    <2> QED BY <2>3, <2>4, <2>5, LockKept
  <1>3. CASE wc[c].hdr # LiveHdr
    <2>1. Becomes(c, IF job[c].useWal THEN "scan" ELSE "tryhdr", [job[c] EXCEPT !.mxI = 0, !.mark = 0],
               wc[c], tx[c])
      BY <1>s, Check0Does, <1>3
    <2>2. Local(c)'
      BY <1>0, <1>3, <2>1, WalAssumption DEF LInv, Becomes, Local, ShapeOf,
         ControlOf, NoJob, NoTx, HdrPcs, Recovery, MarkPcs, RestartPcs,
         FramePcs, CopyPcs, ScanPcs, CkptPcs, Marks
    <2>3. Alone(c)
      BY <2>1, <2>2 DEF Alone, Becomes
    <2>4. Drops(c, {WAL_READ_LOCK(0)})
      BY <1>0, <1>3, <2>1, WalAssumption DEF LInv, Becomes, Local, ShapeOf,
         ControlOf, NoJob, NoTx, HdrPcs, Recovery, MarkPcs, RestartPcs,
         FramePcs, CopyPcs, ScanPcs, CkptPcs, Marks, Drops, Excl, Shares,
         ExclOf, SharedOf, Slots, ReadersSlots, WAL_WRITE_LOCK, WAL_CKPT_LOCK,
         WAL_RECOVER_LOCK, WAL_READ_LOCK
    <2>5. lock' = Unlocked(lock, c, {WAL_READ_LOCK(0)})
      BY <1>0, <1>3, WalAssumption DEF Check0, ReadBegun, Retry, Step, At,
         private, Release
    <2> QED BY <2>3, <2>4, <2>5, LockGiven
  <1> QED BY <1>1, <1>2, <1>3

LEMMA ScanLocks ==
  ASSUME LInv, MarkNumbers, NEW c \in Conns, Scan(c)
  PROVE  LInv'
  <1>0. pc[c] \in {"choose", "scan"}
    BY DEF Scan, Step, At
  <1>s. Shaped
    BY DEF LInv, Shaped, Local
  <1>m. Usable(c) # {} => BestMark(c) \in Marks
    BY BestMarkUsable DEF Usable, Marks
  <1>1. CASE Usable(c) = {}
    <2>1. Becomes(c, "setmark", job[c],
               wc[c], tx[c])
      BY <1>s, ScanDoes, <1>1
    <2>2. Local(c)'
      BY <1>0, <1>1, <2>1, <1>m, WalAssumption DEF LInv, Becomes, Local,
         ShapeOf, ControlOf, NoJob, NoTx, HdrPcs, Recovery, MarkPcs,
         RestartPcs, FramePcs, CopyPcs, ScanPcs, CkptPcs, Marks
    <2>3. Alone(c)
      BY <2>1, <2>2 DEF Alone, Becomes
    <2>4. Same(c)
      BY <1>0, <1>1, <2>1, <1>m, WalAssumption DEF LInv, Becomes, Local,
         ShapeOf, ControlOf, NoJob, NoTx, HdrPcs, Recovery, MarkPcs,
         RestartPcs, FramePcs, CopyPcs, ScanPcs, CkptPcs, Marks, Same, Excl,
         Shares, ExclOf, SharedOf
    <2>5. UNCHANGED lock
      BY <1>0, <1>1 DEF Scan, Step, At, private
    <2> QED BY <2>3, <2>4, <2>5, LockKept
  <1>2. CASE Usable(c) # {}
    <2>1. Becomes(c, IF shm.aReadMark[BestMark(c)] < wc[c].hdr.mxFrame THEN "setmark" ELSE "lockmark", [job[c] EXCEPT !.mxI = BestMark(c), !.mark = shm.aReadMark[BestMark(c)]],
               wc[c], tx[c])
      BY <1>s, ScanDoes, <1>2
    <2>2. Local(c)'
      BY <1>0, <1>2, <2>1, <1>m, WalAssumption DEF LInv, Becomes, Local,
         ShapeOf, ControlOf, NoJob, NoTx, HdrPcs, Recovery, MarkPcs,
         RestartPcs, FramePcs, CopyPcs, ScanPcs, CkptPcs, Marks
    <2>3. Alone(c)
      BY <2>1, <2>2 DEF Alone, Becomes
    <2>4. Same(c)
      BY <1>0, <1>2, <2>1, <1>m, WalAssumption DEF LInv, Becomes, Local,
         ShapeOf, ControlOf, NoJob, NoTx, HdrPcs, Recovery, MarkPcs,
         RestartPcs, FramePcs, CopyPcs, ScanPcs, CkptPcs, Marks, Same, Excl,
         Shares, ExclOf, SharedOf
    <2>5. UNCHANGED lock
      BY <1>0, <1>2 DEF Scan, Step, At, private
    <2> QED BY <2>3, <2>4, <2>5, LockKept
  <1> QED BY <1>1, <1>2

LEMMA SetMarkLocks ==
  ASSUME LInv, NEW c \in Conns, SetMark(c)
  PROVE  LInv'
  <1>0. pc[c] = "setmark"
    BY DEF SetMark, Step, At
  <1>s. Shaped
    BY DEF LInv, Shaped, Local
  <1>m. FreeMarks # {} => FirstFree \in Marks
    <2>1. FreeMarks \subseteq Nat
      BY DEF FreeMarks
    <2>2. FreeMarks # {} => FirstFree \in FreeMarks
      BY <2>1, LeastOf DEF FirstFree
    <2> QED BY <2>2 DEF FreeMarks, Marks
  <1>1. CASE FreeMarks # {}
    <2>1. Becomes(c, "lockmark", [job[c] EXCEPT !.mxI = FirstFree, !.mark = wc[c].hdr.mxFrame],
               wc[c], tx[c])
      BY <1>s, SetMarkDoes, <1>1
    <2>2. Local(c)'
      BY <1>0, <1>1, <2>1, <1>m, WalAssumption DEF LInv, Becomes, Local,
         ShapeOf, ControlOf, NoJob, NoTx, HdrPcs, Recovery, MarkPcs,
         RestartPcs, FramePcs, CopyPcs, ScanPcs, CkptPcs, Marks
    <2>3. Alone(c)
      BY <2>1, <2>2 DEF Alone, Becomes
    <2>4. Same(c)
      BY <1>0, <1>1, <2>1, <1>m, WalAssumption DEF LInv, Becomes, Local,
         ShapeOf, ControlOf, NoJob, NoTx, HdrPcs, Recovery, MarkPcs,
         RestartPcs, FramePcs, CopyPcs, ScanPcs, CkptPcs, Marks, Same, Excl,
         Shares, ExclOf, SharedOf
    <2>5. UNCHANGED lock
      BY <1>0, <1>1 DEF SetMark, Retry, Step, At, private
    <2> QED BY <2>3, <2>4, <2>5, LockKept
  <1>2. CASE FreeMarks = {} /\ job[c].mxI = 0
    <2>1. Becomes(c, IF job[c].useWal THEN "scan" ELSE "tryhdr", [job[c] EXCEPT !.mxI = 0, !.mark = 0],
               wc[c], tx[c])
      BY <1>s, SetMarkDoes, <1>2
    <2>2. Local(c)'
      BY <1>0, <1>2, <2>1, <1>m, WalAssumption DEF LInv, Becomes, Local,
         ShapeOf, ControlOf, NoJob, NoTx, HdrPcs, Recovery, MarkPcs,
         RestartPcs, FramePcs, CopyPcs, ScanPcs, CkptPcs, Marks
    <2>3. Alone(c)
      BY <2>1, <2>2 DEF Alone, Becomes
    <2>4. Same(c)
      BY <1>0, <1>2, <2>1, <1>m, WalAssumption DEF LInv, Becomes, Local,
         ShapeOf, ControlOf, NoJob, NoTx, HdrPcs, Recovery, MarkPcs,
         RestartPcs, FramePcs, CopyPcs, ScanPcs, CkptPcs, Marks, Same, Excl,
         Shares, ExclOf, SharedOf
    <2>5. UNCHANGED lock
      BY <1>0, <1>2 DEF SetMark, Retry, Step, At, private
    <2> QED BY <2>3, <2>4, <2>5, LockKept
  <1>3. CASE FreeMarks = {} /\ job[c].mxI # 0
    <2>1. Becomes(c, "lockmark", job[c],
               wc[c], tx[c])
      BY <1>s, SetMarkDoes, <1>3
    <2>2. Local(c)'
      BY <1>0, <1>3, <2>1, <1>m, WalAssumption DEF LInv, Becomes, Local,
         ShapeOf, ControlOf, NoJob, NoTx, HdrPcs, Recovery, MarkPcs,
         RestartPcs, FramePcs, CopyPcs, ScanPcs, CkptPcs, Marks
    <2>3. Alone(c)
      BY <2>1, <2>2 DEF Alone, Becomes
    <2>4. Same(c)
      BY <1>0, <1>3, <2>1, <1>m, WalAssumption DEF LInv, Becomes, Local,
         ShapeOf, ControlOf, NoJob, NoTx, HdrPcs, Recovery, MarkPcs,
         RestartPcs, FramePcs, CopyPcs, ScanPcs, CkptPcs, Marks, Same, Excl,
         Shares, ExclOf, SharedOf
    <2>5. UNCHANGED lock
      BY <1>0, <1>3 DEF SetMark, Retry, Step, At, private
    <2> QED BY <2>3, <2>4, <2>5, LockKept
  <1> QED BY <1>1, <1>2, <1>3

LEMMA LockMarkLocks ==
  ASSUME LInv, NEW c \in Conns, LockMark(c)
  PROVE  LInv'
  <1>0. pc[c] = "lockmark"
    BY DEF LockMark, Step, At
  <1>s. Shaped
    BY DEF LInv, Shaped, Local
  <1>1. CASE Sharable(WAL_READ_LOCK(job[c].mxI))
    <2>1. Becomes(c, "minframe", job[c],
               wc[c], tx[c])
      BY <1>s, LockMarkDoes, <1>1
    <2>2. Local(c)'
      BY <1>0, <1>1, <2>1, WalAssumption DEF LInv, Becomes, Local, ShapeOf,
         ControlOf, NoJob, NoTx, HdrPcs, Recovery, MarkPcs, RestartPcs,
         FramePcs, CopyPcs, ScanPcs, CkptPcs, Marks
    <2>3. Alone(c)
      BY <2>1, <2>2 DEF Alone, Becomes
    <2>4. Joins(c, WAL_READ_LOCK(job[c].mxI))
      BY <1>0, <1>1, <2>1, WalAssumption DEF LInv, Becomes, Local, ShapeOf,
         ControlOf, NoJob, NoTx, HdrPcs, Recovery, MarkPcs, RestartPcs,
         FramePcs, CopyPcs, ScanPcs, CkptPcs, Marks, Joins, Excl, Shares,
         ExclOf, SharedOf, Slots, ReadersSlots, WAL_WRITE_LOCK, WAL_CKPT_LOCK,
         WAL_RECOVER_LOCK, WAL_READ_LOCK
    <2>5. /\ WAL_READ_LOCK(job[c].mxI) \in Slots /\ Sharable(WAL_READ_LOCK(job[c].mxI))
          /\ lock' = Shared(lock, c, WAL_READ_LOCK(job[c].mxI))
      BY <1>0, <1>1, WalAssumption DEF LockMark, Retry, Step, At, private,
         LInv, Local, ControlOf, Slots, WAL_READ_LOCK
    <2> QED BY <2>3, <2>4, <2>5, LockShared
  <1>2. CASE ~Sharable(WAL_READ_LOCK(job[c].mxI))
    <2>1. Becomes(c, IF job[c].useWal THEN "scan" ELSE "tryhdr", [job[c] EXCEPT !.mxI = 0, !.mark = 0],
               wc[c], tx[c])
      BY <1>s, LockMarkDoes, <1>2
    <2>2. Local(c)'
      BY <1>0, <1>2, <2>1, WalAssumption DEF LInv, Becomes, Local, ShapeOf,
         ControlOf, NoJob, NoTx, HdrPcs, Recovery, MarkPcs, RestartPcs,
         FramePcs, CopyPcs, ScanPcs, CkptPcs, Marks
    <2>3. Alone(c)
      BY <2>1, <2>2 DEF Alone, Becomes
    <2>4. Same(c)
      BY <1>0, <1>2, <2>1, WalAssumption DEF LInv, Becomes, Local, ShapeOf,
         ControlOf, NoJob, NoTx, HdrPcs, Recovery, MarkPcs, RestartPcs,
         FramePcs, CopyPcs, ScanPcs, CkptPcs, Marks, Same, Excl, Shares,
         ExclOf, SharedOf
    <2>5. UNCHANGED lock
      BY <1>0, <1>2 DEF LockMark, Retry, Step, At, private
    <2> QED BY <2>3, <2>4, <2>5, LockKept
  <1> QED BY <1>1, <1>2

LEMMA MinFrameLocks ==
  ASSUME LInv, NEW c \in Conns, MinFrame(c)
  PROVE  LInv'
  <1>0. pc[c] = "minframe"
    BY DEF MinFrame, Step, At
  <1>s. Shaped
    BY DEF LInv, Shaped, Local
  <1>1. Becomes(c, "checkmark", job[c],
             [wc[c] EXCEPT !.minFrame = shm.nBackfill + 1], tx[c])
    BY <1>s, MinFrameDoes
  <1>2. Local(c)'
    BY <1>0, <1>1, WalAssumption DEF LInv, Becomes, Local, ShapeOf, ControlOf,
       NoJob, NoTx, HdrPcs, Recovery, MarkPcs, RestartPcs, FramePcs, CopyPcs,
       ScanPcs, CkptPcs, Marks
  <1>3. Alone(c)
    BY <1>1, <1>2 DEF Alone, Becomes
  <1>4. Same(c)
    BY <1>0, <1>1, WalAssumption DEF LInv, Becomes, Local, ShapeOf, ControlOf,
       NoJob, NoTx, HdrPcs, Recovery, MarkPcs, RestartPcs, FramePcs, CopyPcs,
       ScanPcs, CkptPcs, Marks, Same, Excl, Shares, ExclOf, SharedOf
  <1>5. UNCHANGED lock
    BY <1>0 DEF MinFrame, Step, At, private
  <1> QED BY <1>3, <1>4, <1>5, LockKept

LEMMA CheckMarkLocks ==
  ASSUME LInv, NEW c \in Conns, CheckMark(c)
  PROVE  LInv'
  <1>0. pc[c] = "checkmark"
    BY DEF CheckMark, Step, At
  <1>s. Shaped
    BY DEF LInv, Shaped, Local
  <1>1. CASE shm.aReadMark[job[c].mxI] = job[c].mark /\ Current(c) /\ job[c].useWal
    <2>1. Becomes(c, "log", [job[c] EXCEPT !.useWal = FALSE],
               [wc[c] EXCEPT !.readLock = job[c].mxI], tx[c])
      BY <1>s, CheckMarkDoes, <1>1
    <2>2. Local(c)'
      BY <1>0, <1>1, <2>1, WalAssumption DEF LInv, Becomes, Local, ShapeOf,
         ControlOf, NoJob, NoTx, HdrPcs, Recovery, MarkPcs, RestartPcs,
         FramePcs, CopyPcs, ScanPcs, CkptPcs, Marks
    <2>3. Alone(c)
      BY <2>1, <2>2 DEF Alone, Becomes
    <2>4. Same(c)
      BY <1>0, <1>1, <2>1, WalAssumption DEF LInv, Becomes, Local, ShapeOf,
         ControlOf, NoJob, NoTx, HdrPcs, Recovery, MarkPcs, RestartPcs,
         FramePcs, CopyPcs, ScanPcs, CkptPcs, Marks, Same, Excl, Shares,
         ExclOf, SharedOf
    <2>5. UNCHANGED lock
      BY <1>0, <1>1 DEF CheckMark, ReadBegun, Retry, Step, At, private
    <2> QED BY <2>3, <2>4, <2>5, LockKept
  <1>2. CASE shm.aReadMark[job[c].mxI] = job[c].mark /\ Current(c) /\ ~job[c].useWal
    <2>1. Becomes(c, "idle", NoJob,
               [wc[c] EXCEPT !.readLock = job[c].mxI], tx[c])
      BY <1>s, CheckMarkDoes, <1>2
    <2>2. Local(c)'
      BY <1>0, <1>2, <2>1, WalAssumption DEF LInv, Becomes, Local, ShapeOf,
         ControlOf, NoJob, NoTx, HdrPcs, Recovery, MarkPcs, RestartPcs,
         FramePcs, CopyPcs, ScanPcs, CkptPcs, Marks
    <2>3. Alone(c)
      BY <2>1, <2>2 DEF Alone, Becomes
    <2>4. Same(c)
      BY <1>0, <1>2, <2>1, WalAssumption DEF LInv, Becomes, Local, ShapeOf,
         ControlOf, NoJob, NoTx, HdrPcs, Recovery, MarkPcs, RestartPcs,
         FramePcs, CopyPcs, ScanPcs, CkptPcs, Marks, Same, Excl, Shares,
         ExclOf, SharedOf
    <2>5. UNCHANGED lock
      BY <1>0, <1>2 DEF CheckMark, ReadBegun, Retry, Step, At, private
    <2> QED BY <2>3, <2>4, <2>5, LockKept
  <1>3. CASE ~(shm.aReadMark[job[c].mxI] = job[c].mark /\ Current(c))
    <2>1. Becomes(c, IF job[c].useWal THEN "scan" ELSE "tryhdr", [job[c] EXCEPT !.mxI = 0, !.mark = 0],
               wc[c], tx[c])
      BY <1>s, CheckMarkDoes, <1>3
    <2>2. Local(c)'
      BY <1>0, <1>3, <2>1, WalAssumption DEF LInv, Becomes, Local, ShapeOf,
         ControlOf, NoJob, NoTx, HdrPcs, Recovery, MarkPcs, RestartPcs,
         FramePcs, CopyPcs, ScanPcs, CkptPcs, Marks
    <2>3. Alone(c)
      BY <2>1, <2>2 DEF Alone, Becomes
    <2>4. Drops(c, {WAL_READ_LOCK(job[c].mxI)})
      BY <1>0, <1>3, <2>1, WalAssumption DEF LInv, Becomes, Local, ShapeOf,
         ControlOf, NoJob, NoTx, HdrPcs, Recovery, MarkPcs, RestartPcs,
         FramePcs, CopyPcs, ScanPcs, CkptPcs, Marks, Drops, Excl, Shares,
         ExclOf, SharedOf, Slots, ReadersSlots, WAL_WRITE_LOCK, WAL_CKPT_LOCK,
         WAL_RECOVER_LOCK, WAL_READ_LOCK
    <2>5. lock' = Unlocked(lock, c, {WAL_READ_LOCK(job[c].mxI)})
      BY <1>0, <1>3, WalAssumption DEF CheckMark, ReadBegun, Retry, Step, At,
         private, Release
    <2> QED BY <2>3, <2>4, <2>5, LockGiven
  <1> QED BY <1>1, <1>2, <1>3

LEMMA EndReadLocks ==
  ASSUME LInv, NEW c \in Conns, EndRead(c)
  PROVE  LInv'
  <1>0. pc[c] = "idle" /\ wc[c].readLock >= 0 /\ ~tx[c].on
    BY DEF EndRead, Idle, Reading, Step, At
  <1>s. Shaped
    BY DEF LInv, Shaped, Local
  <1>1. Becomes(c, pc[c], job[c],
             [wc[c] EXCEPT !.readLock = -1], tx[c])
    BY <1>s, EndReadDoes
  <1>2. Local(c)'
    BY <1>0, <1>1, WalAssumption DEF LInv, Becomes, Local, ShapeOf, ControlOf,
       NoJob, NoTx, HdrPcs, Recovery, MarkPcs, RestartPcs, FramePcs, CopyPcs,
       ScanPcs, CkptPcs, Marks
  <1>3. Alone(c)
    BY <1>1, <1>2 DEF Alone, Becomes
  <1>4. Drops(c, {WAL_READ_LOCK(wc[c].readLock)})
    BY <1>0, <1>1, WalAssumption DEF LInv, Becomes, Local, ShapeOf, ControlOf,
       NoJob, NoTx, HdrPcs, Recovery, MarkPcs, RestartPcs, FramePcs, CopyPcs,
       ScanPcs, CkptPcs, Marks, Drops, Excl, Shares, ExclOf, SharedOf, Slots,
       ReadersSlots, WAL_WRITE_LOCK, WAL_CKPT_LOCK, WAL_RECOVER_LOCK,
       WAL_READ_LOCK
  <1>5. lock' = Unlocked(lock, c, {WAL_READ_LOCK(wc[c].readLock)})
    BY <1>0, WalAssumption DEF EndRead, Idle, Reading, Step, At, private,
       Release
  <1> QED BY <1>3, <1>4, <1>5, LockGiven

LEMMA BeginWriteLocks ==
  ASSUME LInv, NEW c \in Conns, BeginWrite(c)
  PROVE  LInv'
  <1>0. pc[c] = "idle" /\ wc[c].readLock >= 0 /\ ~tx[c].on
    BY DEF BeginWrite, Idle, Reading, Step, At
  <1>s. Shaped
    BY DEF LInv, Shaped, Local
  <1>1. Becomes(c, pc[c], job[c],
             wc[c], [NoTx EXCEPT !.on = TRUE, !.size = Len(View(c))])
    BY <1>s, BeginWriteDoes
  <1>2. Local(c)'
    BY <1>0, <1>1, WalAssumption DEF LInv, Becomes, Local, ShapeOf, ControlOf,
       NoJob, NoTx, HdrPcs, Recovery, MarkPcs, RestartPcs, FramePcs, CopyPcs,
       ScanPcs, CkptPcs, Marks
  <1>3. Alone(c)
    BY <1>1, <1>2 DEF Alone, Becomes
  <1>4. Adds(c, {WAL_WRITE_LOCK})
    BY <1>0, <1>1, WalAssumption DEF LInv, Becomes, Local, ShapeOf, ControlOf,
       NoJob, NoTx, HdrPcs, Recovery, MarkPcs, RestartPcs, FramePcs, CopyPcs,
       ScanPcs, CkptPcs, Marks, Adds, Excl, Shares, ExclOf, SharedOf, Slots,
       ReadersSlots, WAL_WRITE_LOCK, WAL_CKPT_LOCK, WAL_RECOVER_LOCK,
       WAL_READ_LOCK
  <1>5. {WAL_WRITE_LOCK} \in SUBSET Slots
    BY WalAssumption DEF Slots, ReadersSlots, WAL_WRITE_LOCK, WAL_CKPT_LOCK, WAL_RECOVER_LOCK, WAL_READ_LOCK
  <1>6. /\ \A s \in {WAL_WRITE_LOCK} : lock[s] = Free \/ Holds(c, s)
        /\ lock' = Locked(lock, c, {WAL_WRITE_LOCK})
    BY <1>0, <1>1 DEF BeginWrite, Idle, Reading, Step, At, private, Acquire,
       Lockable, Becomes
  <1> QED BY <1>3, <1>4, <1>5, <1>6, LockTaken

LEMMA ModifyLocks ==
  ASSUME LInv, NEW c \in Conns, NEW p \in Pages, Modify(c, p)
  PROVE  LInv'
  <1>0. pc[c] = "idle" /\ tx[c].on
    BY DEF Modify, InWrite, Idle, Step, At
  <1>s. Shaped
    BY DEF LInv, Shaped, Local
  <1>1. Becomes(c, pc[c], job[c],
             wc[c], [tx[c] EXCEPT !.dirty = Put(tx[c].dirty, p, writes + 1), !.size = Largest({@, p})])
    BY <1>s, ModifyDoes
  <1>2. Local(c)'
    BY <1>0, <1>1, WalAssumption DEF LInv, Becomes, Local, ShapeOf, ControlOf,
       NoJob, NoTx, HdrPcs, Recovery, MarkPcs, RestartPcs, FramePcs, CopyPcs,
       ScanPcs, CkptPcs, Marks
  <1>3. Alone(c)
    BY <1>1, <1>2 DEF Alone, Becomes
  <1>4. Same(c)
    BY <1>0, <1>1, WalAssumption DEF LInv, Becomes, Local, ShapeOf, ControlOf,
       NoJob, NoTx, HdrPcs, Recovery, MarkPcs, RestartPcs, FramePcs, CopyPcs,
       ScanPcs, CkptPcs, Marks, Same, Excl, Shares, ExclOf, SharedOf
  <1>5. UNCHANGED lock
    BY <1>0 DEF Modify, InWrite, Idle, Step, At, private
  <1> QED BY <1>3, <1>4, <1>5, LockKept

LEMMA ShrinkLocks ==
  ASSUME LInv, NEW c \in Conns, Shrink(c)
  PROVE  LInv'
  <1>0. pc[c] = "idle" /\ tx[c].on
    BY DEF Shrink, InWrite, Idle, Step, At
  <1>s. Shaped
    BY DEF LInv, Shaped, Local
  <1>1. Becomes(c, pc[c], job[c],
             wc[c], [tx[c] EXCEPT !.size = @ - 1])
    BY <1>s, ShrinkDoes
  <1>2. Local(c)'
    BY <1>0, <1>1, WalAssumption DEF LInv, Becomes, Local, ShapeOf, ControlOf,
       NoJob, NoTx, HdrPcs, Recovery, MarkPcs, RestartPcs, FramePcs, CopyPcs,
       ScanPcs, CkptPcs, Marks
  <1>3. Alone(c)
    BY <1>1, <1>2 DEF Alone, Becomes
  <1>4. Same(c)
    BY <1>0, <1>1, WalAssumption DEF LInv, Becomes, Local, ShapeOf, ControlOf,
       NoJob, NoTx, HdrPcs, Recovery, MarkPcs, RestartPcs, FramePcs, CopyPcs,
       ScanPcs, CkptPcs, Marks, Same, Excl, Shares, ExclOf, SharedOf
  <1>5. UNCHANGED lock
    BY <1>0 DEF Shrink, InWrite, Idle, Step, At, private
  <1> QED BY <1>3, <1>4, <1>5, LockKept

LEMMA SpillLocks ==
  ASSUME LInv, NEW c \in Conns, NEW p \in Pages, Spill(c, p)
  PROVE  LInv'
  <1>0. pc[c] = "idle" /\ tx[c].on
    BY DEF Spill, InWrite, Idle, Step, At
  <1>s. Shaped
    BY DEF LInv, Shaped, Local
  <1>1. Becomes(c, IF wc[c].readLock = 0 THEN "restart" ELSE "log", FramesJob(c, <<p>>, FALSE),
             wc[c], tx[c])
    BY <1>s, SpillDoes
  <1>2. Local(c)'
    BY <1>0, <1>1, WalAssumption DEF LInv, Becomes, Local, ShapeOf, ControlOf,
       NoJob, NoTx, HdrPcs, Recovery, MarkPcs, RestartPcs, FramePcs, CopyPcs,
       ScanPcs, CkptPcs, Marks, FramesJob
  <1>3. Alone(c)
    BY <1>1, <1>2 DEF Alone, Becomes
  <1>4. Same(c)
    BY <1>0, <1>1, WalAssumption DEF LInv, Becomes, Local, ShapeOf, ControlOf,
       NoJob, NoTx, HdrPcs, Recovery, MarkPcs, RestartPcs, FramePcs, CopyPcs,
       ScanPcs, CkptPcs, Marks, Same, Excl, Shares, ExclOf, SharedOf,
       FramesJob
  <1>5. UNCHANGED lock
    BY <1>0 DEF Spill, InWrite, Idle, FramesStart, Step, At, private
  <1> QED BY <1>3, <1>4, <1>5, LockKept

LEMMA CommitLocks ==
  ASSUME LInv, NEW c \in Conns, Commit(c)
  PROVE  LInv'
  <1>0. pc[c] = "idle" /\ tx[c].on
    BY DEF Commit, InWrite, Idle, Step, At
  <1>s. Shaped
    BY DEF LInv, Shaped, Local
  <1>1. PICK list : Becomes(c, IF wc[c].readLock = 0 THEN "restart" ELSE "log", FramesJob(c, list, TRUE),
             wc[c], tx[c])
    BY <1>s, CommitDoes
  <1>2. Local(c)'
    BY <1>0, <1>1, WalAssumption DEF LInv, Becomes, Local, ShapeOf, ControlOf,
       NoJob, NoTx, HdrPcs, Recovery, MarkPcs, RestartPcs, FramePcs, CopyPcs,
       ScanPcs, CkptPcs, Marks, FramesJob
  <1>3. Alone(c)
    BY <1>1, <1>2 DEF Alone, Becomes
  <1>4. Same(c)
    BY <1>0, <1>1, WalAssumption DEF LInv, Becomes, Local, ShapeOf, ControlOf,
       NoJob, NoTx, HdrPcs, Recovery, MarkPcs, RestartPcs, FramePcs, CopyPcs,
       ScanPcs, CkptPcs, Marks, Same, Excl, Shares, ExclOf, SharedOf,
       FramesJob
  <1>5. UNCHANGED lock
    BY <1>0 DEF Commit, InWrite, Idle, FramesStart, Step, At, private
  <1> QED BY <1>3, <1>4, <1>5, LockKept

LEMMA RollbackLocks ==
  ASSUME LInv, NEW c \in Conns, Rollback(c)
  PROVE  LInv'
  <1>0. pc[c] = "idle" /\ tx[c].on
    BY DEF Rollback, Idle, Step, At
  <1>s. Shaped
    BY DEF LInv, Shaped, Local
  <1>1. Becomes(c, pc[c], job[c],
             [wc[c] EXCEPT !.hdr = LiveHdr, !.iReCksum = 0], NoTx)
    BY <1>s, RollbackDoes
  <1>2. Local(c)'
    BY <1>0, <1>1, WalAssumption DEF LInv, Becomes, Local, ShapeOf, ControlOf,
       NoJob, NoTx, HdrPcs, Recovery, MarkPcs, RestartPcs, FramePcs, CopyPcs,
       ScanPcs, CkptPcs, Marks
  <1>3. Alone(c)
    BY <1>1, <1>2 DEF Alone, Becomes
  <1>4. Drops(c, {WAL_WRITE_LOCK})
    BY <1>0, <1>1, WalAssumption DEF LInv, Becomes, Local, ShapeOf, ControlOf,
       NoJob, NoTx, HdrPcs, Recovery, MarkPcs, RestartPcs, FramePcs, CopyPcs,
       ScanPcs, CkptPcs, Marks, Drops, Excl, Shares, ExclOf, SharedOf, Slots,
       ReadersSlots, WAL_WRITE_LOCK, WAL_CKPT_LOCK, WAL_RECOVER_LOCK,
       WAL_READ_LOCK
  <1>5. lock' = Unlocked(lock, c, {WAL_WRITE_LOCK})
    BY <1>0, WalAssumption DEF Rollback, Idle, Step, At, private, Release
  <1> QED BY <1>3, <1>4, <1>5, LockGiven

LEMMA RestartLocks ==
  ASSUME LInv, NEW c \in Conns, Restart(c)
  PROVE  LInv'
  <1>0. pc[c] = "restart"
    BY DEF Restart, Step, At
  <1>s. Shaped
    BY DEF LInv, Shaped, Local
  <1>1. Becomes(c, "restart1", job[c],
             [wc[c] EXCEPT !.hdr = RestartedHdr(c), !.nCkpt = @ + 1], tx[c])
    BY <1>s, RestartDoes
  <1>2. Local(c)'
    BY <1>0, <1>1, WalAssumption DEF LInv, Becomes, Local, ShapeOf, ControlOf,
       NoJob, NoTx, HdrPcs, Recovery, MarkPcs, RestartPcs, FramePcs, CopyPcs,
       ScanPcs, CkptPcs, Marks
  <1>3. Alone(c)
    BY <1>1, <1>2 DEF Alone, Becomes
  <1>4. Adds(c, ReadersSlots)
    BY <1>0, <1>1, WalAssumption DEF LInv, Becomes, Local, ShapeOf, ControlOf,
       NoJob, NoTx, HdrPcs, Recovery, MarkPcs, RestartPcs, FramePcs, CopyPcs,
       ScanPcs, CkptPcs, Marks, Adds, Excl, Shares, ExclOf, SharedOf, Slots,
       ReadersSlots, WAL_WRITE_LOCK, WAL_CKPT_LOCK, WAL_RECOVER_LOCK,
       WAL_READ_LOCK
  <1>5. ReadersSlots \in SUBSET Slots
    BY WalAssumption DEF Slots, ReadersSlots, WAL_WRITE_LOCK, WAL_CKPT_LOCK, WAL_RECOVER_LOCK, WAL_READ_LOCK
  <1>6. /\ \A s \in ReadersSlots : lock[s] = Free \/ Holds(c, s)
        /\ lock' = Locked(lock, c, ReadersSlots)
    BY <1>0, <1>1 DEF Restart, RestartHdr, Step, At, private, Acquire,
       Lockable, Becomes
  <1> QED BY <1>3, <1>4, <1>5, <1>6, LockTaken

LEMMA RestartHdr0Locks ==
  ASSUME LInv, NEW c \in Conns, RestartHdr0(c)
  PROVE  LInv'
  <1>0. pc[c] = "restart1"
    BY DEF RestartHdr0, Step, At
  <1>s. Shaped
    BY DEF LInv, Shaped, Local
  <1>1. Becomes(c, "restart2", job[c],
             wc[c], tx[c])
    BY <1>s, RestartHdr0Does
  <1>2. Local(c)'
    BY <1>0, <1>1, WalAssumption DEF LInv, Becomes, Local, ShapeOf, ControlOf,
       NoJob, NoTx, HdrPcs, Recovery, MarkPcs, RestartPcs, FramePcs, CopyPcs,
       ScanPcs, CkptPcs, Marks
  <1>3. Alone(c)
    BY <1>1, <1>2 DEF Alone, Becomes
  <1>4. Same(c)
    BY <1>0, <1>1, WalAssumption DEF LInv, Becomes, Local, ShapeOf, ControlOf,
       NoJob, NoTx, HdrPcs, Recovery, MarkPcs, RestartPcs, FramePcs, CopyPcs,
       ScanPcs, CkptPcs, Marks, Same, Excl, Shares, ExclOf, SharedOf
  <1>5. UNCHANGED lock
    BY <1>0 DEF RestartHdr0, Step, At, private
  <1> QED BY <1>3, <1>4, <1>5, LockKept

LEMMA RestartInfoLocks ==
  ASSUME LInv, NEW c \in Conns, RestartInfo(c)
  PROVE  LInv'
  <1>0. pc[c] = "restart2"
    BY DEF RestartInfo, Step, At
  <1>s. Shaped
    BY DEF LInv, Shaped, Local
  <1>1. CASE job[c].kind = "write"
    <2>1. Becomes(c, "scan", [job[c] EXCEPT !.useWal = TRUE],
               [wc[c] EXCEPT !.readLock = -1], tx[c])
      BY <1>s, RestartInfoDoes, <1>1
    <2>2. Local(c)'
      BY <1>0, <1>1, <2>1, WalAssumption DEF LInv, Becomes, Local, ShapeOf,
         ControlOf, NoJob, NoTx, HdrPcs, Recovery, MarkPcs, RestartPcs,
         FramePcs, CopyPcs, ScanPcs, CkptPcs, Marks
    <2>3. Alone(c)
      BY <2>1, <2>2 DEF Alone, Becomes
    <2>4. Drops(c, (ReadersSlots \cup {WAL_READ_LOCK(0)}))
      BY <1>0, <1>1, <2>1, WalAssumption DEF LInv, Becomes, Local, ShapeOf,
         ControlOf, NoJob, NoTx, HdrPcs, Recovery, MarkPcs, RestartPcs,
         FramePcs, CopyPcs, ScanPcs, CkptPcs, Marks, Drops, Excl, Shares,
         ExclOf, SharedOf, Slots, ReadersSlots, WAL_WRITE_LOCK, WAL_CKPT_LOCK,
         WAL_RECOVER_LOCK, WAL_READ_LOCK
    <2>5. lock' = Unlocked(lock, c, (ReadersSlots \cup {WAL_READ_LOCK(0)}))
      BY <1>0, <1>1, WalAssumption DEF RestartInfo, LeaveRead0, Step, At,
         private, Release
    <2> QED BY <2>3, <2>4, <2>5, LockGiven
  <1>2. CASE job[c].kind # "write"
    <2>1. Becomes(c, "trunclog", job[c],
               wc[c], tx[c])
      BY <1>s, RestartInfoDoes, <1>2
    <2>2. Local(c)'
      BY <1>0, <1>2, <2>1, WalAssumption DEF LInv, Becomes, Local, ShapeOf,
         ControlOf, NoJob, NoTx, HdrPcs, Recovery, MarkPcs, RestartPcs,
         FramePcs, CopyPcs, ScanPcs, CkptPcs, Marks
    <2>3. Alone(c)
      BY <2>1, <2>2 DEF Alone, Becomes
    <2>4. Same(c)
      BY <1>0, <1>2, <2>1, WalAssumption DEF LInv, Becomes, Local, ShapeOf,
         ControlOf, NoJob, NoTx, HdrPcs, Recovery, MarkPcs, RestartPcs,
         FramePcs, CopyPcs, ScanPcs, CkptPcs, Marks, Same, Excl, Shares,
         ExclOf, SharedOf
    <2>5. UNCHANGED lock
      BY <1>0, <1>2 DEF RestartInfo, LeaveRead0, Step, At, private
    <2> QED BY <2>3, <2>4, <2>5, LockKept
  <1> QED BY <1>1, <1>2

LEMMA CannotRestartLocks ==
  ASSUME LInv, NEW c \in Conns, CannotRestart(c)
  PROVE  LInv'
  <1>0. pc[c] = "restart"
    BY DEF CannotRestart, Step, At
  <1>s. Shaped
    BY DEF LInv, Shaped, Local
  <1>1. CASE job[c].kind = "write"
    <2>1. Becomes(c, "scan", [job[c] EXCEPT !.useWal = TRUE],
               [wc[c] EXCEPT !.readLock = -1], tx[c])
      BY <1>s, CannotRestartDoes, <1>1
    <2>2. Local(c)'
      BY <1>0, <1>1, <2>1, WalAssumption DEF LInv, Becomes, Local, ShapeOf,
         ControlOf, NoJob, NoTx, HdrPcs, Recovery, MarkPcs, RestartPcs,
         FramePcs, CopyPcs, ScanPcs, CkptPcs, Marks
    <2>3. Alone(c)
      BY <2>1, <2>2 DEF Alone, Becomes
    <2>4. Drops(c, ({} \cup {WAL_READ_LOCK(0)}))
      BY <1>0, <1>1, <2>1, WalAssumption DEF LInv, Becomes, Local, ShapeOf,
         ControlOf, NoJob, NoTx, HdrPcs, Recovery, MarkPcs, RestartPcs,
         FramePcs, CopyPcs, ScanPcs, CkptPcs, Marks, Drops, Excl, Shares,
         ExclOf, SharedOf, Slots, ReadersSlots, WAL_WRITE_LOCK, WAL_CKPT_LOCK,
         WAL_RECOVER_LOCK, WAL_READ_LOCK
    <2>5. lock' = Unlocked(lock, c, ({} \cup {WAL_READ_LOCK(0)}))
      BY <1>0, <1>1, WalAssumption DEF CannotRestart, LeaveRead0, Step, At,
         private, Release
    <2> QED BY <2>3, <2>4, <2>5, LockGiven
  <1>2. CASE job[c].kind # "write"
    <2>1. Becomes(c, "ckptend", [job[c] EXCEPT !.ok = FALSE],
               wc[c], tx[c])
      BY <1>s, CannotRestartDoes, <1>2
    <2>2. Local(c)'
      BY <1>0, <1>2, <2>1, WalAssumption DEF LInv, Becomes, Local, ShapeOf,
         ControlOf, NoJob, NoTx, HdrPcs, Recovery, MarkPcs, RestartPcs,
         FramePcs, CopyPcs, ScanPcs, CkptPcs, Marks
    <2>3. Alone(c)
      BY <2>1, <2>2 DEF Alone, Becomes
    <2>4. Same(c)
      BY <1>0, <1>2, <2>1, WalAssumption DEF LInv, Becomes, Local, ShapeOf,
         ControlOf, NoJob, NoTx, HdrPcs, Recovery, MarkPcs, RestartPcs,
         FramePcs, CopyPcs, ScanPcs, CkptPcs, Marks, Same, Excl, Shares,
         ExclOf, SharedOf
    <2>5. UNCHANGED lock
      BY <1>0, <1>2 DEF CannotRestart, LeaveRead0, Step, At, private
    <2> QED BY <2>3, <2>4, <2>5, LockKept
  <1> QED BY <1>1, <1>2

LEMMA WriteLogHeaderLocks ==
  ASSUME LInv, NEW c \in Conns, WriteLogHeader(c)
  PROVE  LInv'
  <1>0. pc[c] = "log"
    BY DEF WriteLogHeader, Step, At
  <1>s. Shaped
    BY DEF LInv, Shaped, Local
  <1>1. Becomes(c, "synchdr", job[c],
             [wc[c] EXCEPT !.hdr.salt = NewSalt(c), !.hdr.sum = <<wc[c].nCkpt>>], tx[c])
    BY <1>s, WriteLogHeaderDoes
  <1>2. Local(c)'
    BY <1>0, <1>1, WalAssumption DEF LInv, Becomes, Local, ShapeOf, ControlOf,
       NoJob, NoTx, HdrPcs, Recovery, MarkPcs, RestartPcs, FramePcs, CopyPcs,
       ScanPcs, CkptPcs, Marks
  <1>3. Alone(c)
    BY <1>1, <1>2 DEF Alone, Becomes
  <1>4. Same(c)
    BY <1>0, <1>1, WalAssumption DEF LInv, Becomes, Local, ShapeOf, ControlOf,
       NoJob, NoTx, HdrPcs, Recovery, MarkPcs, RestartPcs, FramePcs, CopyPcs,
       ScanPcs, CkptPcs, Marks, Same, Excl, Shares, ExclOf, SharedOf
  <1>5. UNCHANGED lock
    BY <1>0 DEF WriteLogHeader, Step, At, private
  <1> QED BY <1>3, <1>4, <1>5, LockKept

LEMMA SyncHeaderLocks ==
  ASSUME LInv, NEW c \in Conns, SyncHeader(c)
  PROVE  LInv'
  <1>0. pc[c] = "synchdr"
    BY DEF SyncHeader, Step, At
  <1>s. Shaped
    BY DEF LInv, Shaped, Local
  <1>1. Becomes(c, "frames", job[c],
             wc[c], tx[c])
    BY <1>s, SyncHeaderDoes
  <1>2. Local(c)'
    BY <1>0, <1>1, WalAssumption DEF LInv, Becomes, Local, ShapeOf, ControlOf,
       NoJob, NoTx, HdrPcs, Recovery, MarkPcs, RestartPcs, FramePcs, CopyPcs,
       ScanPcs, CkptPcs, Marks
  <1>3. Alone(c)
    BY <1>1, <1>2 DEF Alone, Becomes
  <1>4. Same(c)
    BY <1>0, <1>1, WalAssumption DEF LInv, Becomes, Local, ShapeOf, ControlOf,
       NoJob, NoTx, HdrPcs, Recovery, MarkPcs, RestartPcs, FramePcs, CopyPcs,
       ScanPcs, CkptPcs, Marks, Same, Excl, Shares, ExclOf, SharedOf
  <1>5. UNCHANGED lock
    BY <1>0 DEF SyncHeader, Step, At, private
  <1> QED BY <1>3, <1>4, <1>5, LockKept

LEMMA WriteFramesLocks ==
  ASSUME LInv, NEW c \in Conns, WriteFrames(c)
  PROVE  LInv'
  <1>0. pc[c] \in {"log", "frames"}
    BY DEF WriteFrames, InFrames, Step, At
  <1>s. Shaped
    BY DEF LInv, Shaped, Local
  <1>1. Becomes(c, IF job[c].commit /\ fullSync THEN "sync" ELSE "index", [job[c] EXCEPT !.new = AllWritten(c).new],
             [wc[c] EXCEPT !.hdr.sum = AllWritten(c).sum, !.iReCksum = AllWritten(c).re], tx[c])
    BY <1>s, WriteFramesDoes
  <1>2. Local(c)'
    BY <1>0, <1>1, WalAssumption DEF LInv, Becomes, Local, ShapeOf, ControlOf,
       NoJob, NoTx, HdrPcs, Recovery, MarkPcs, RestartPcs, FramePcs, CopyPcs,
       ScanPcs, CkptPcs, Marks
  <1>3. Alone(c)
    BY <1>1, <1>2 DEF Alone, Becomes
  <1>4. Same(c)
    BY <1>0, <1>1, WalAssumption DEF LInv, Becomes, Local, ShapeOf, ControlOf,
       NoJob, NoTx, HdrPcs, Recovery, MarkPcs, RestartPcs, FramePcs, CopyPcs,
       ScanPcs, CkptPcs, Marks, Same, Excl, Shares, ExclOf, SharedOf
  <1>5. UNCHANGED lock
    BY <1>0 DEF WriteFrames, InFrames, Step, At, private
  <1> QED BY <1>3, <1>4, <1>5, LockKept

LEMMA SyncFramesLocks ==
  ASSUME LInv, NEW c \in Conns, SyncFrames(c)
  PROVE  LInv'
  <1>0. pc[c] = "sync"
    BY DEF SyncFrames, Step, At
  <1>s. Shaped
    BY DEF LInv, Shaped, Local
  <1>1. Becomes(c, "index", job[c],
             wc[c], tx[c])
    BY <1>s, SyncFramesDoes
  <1>2. Local(c)'
    BY <1>0, <1>1, WalAssumption DEF LInv, Becomes, Local, ShapeOf, ControlOf,
       NoJob, NoTx, HdrPcs, Recovery, MarkPcs, RestartPcs, FramePcs, CopyPcs,
       ScanPcs, CkptPcs, Marks
  <1>3. Alone(c)
    BY <1>1, <1>2 DEF Alone, Becomes
  <1>4. Same(c)
    BY <1>0, <1>1, WalAssumption DEF LInv, Becomes, Local, ShapeOf, ControlOf,
       NoJob, NoTx, HdrPcs, Recovery, MarkPcs, RestartPcs, FramePcs, CopyPcs,
       ScanPcs, CkptPcs, Marks, Same, Excl, Shares, ExclOf, SharedOf
  <1>5. UNCHANGED lock
    BY <1>0 DEF SyncFrames, Step, At, private
  <1> QED BY <1>3, <1>4, <1>5, LockKept

LEMMA FailsLocks ==
  ASSUME LInv, NEW c \in Conns, Fails(c)
  PROVE  LInv'
  <1>0. pc[c] \in {"log", "frames", "sync"} /\ job[c].commit
    BY DEF Fails, InFrames, Step, At
  <1>s. Shaped
    BY DEF LInv, Shaped, Local
  <1>1. Becomes(c, "idle", NoJob,
             wc[c], [tx[c] EXCEPT !.failed = TRUE])
    BY <1>s, FailsDoes
  <1>2. Local(c)'
    BY <1>0, <1>1, WalAssumption DEF LInv, Becomes, Local, ShapeOf, ControlOf,
       NoJob, NoTx, HdrPcs, Recovery, MarkPcs, RestartPcs, FramePcs, CopyPcs,
       ScanPcs, CkptPcs, Marks
  <1>3. Alone(c)
    BY <1>1, <1>2 DEF Alone, Becomes
  <1>4. Same(c)
    BY <1>0, <1>1, WalAssumption DEF LInv, Becomes, Local, ShapeOf, ControlOf,
       NoJob, NoTx, HdrPcs, Recovery, MarkPcs, RestartPcs, FramePcs, CopyPcs,
       ScanPcs, CkptPcs, Marks, Same, Excl, Shares, ExclOf, SharedOf
  <1>5. UNCHANGED lock
    BY <1>0 DEF Fails, InFrames, Step, At, private
  <1> QED BY <1>3, <1>4, <1>5, LockKept

LEMMA IndexLocks ==
  ASSUME LInv, NEW c \in Conns, Index(c)
  PROVE  LInv'
  <1>0. pc[c] = "index"
    BY DEF Index, Step, At
  <1>s. Shaped
    BY DEF LInv, Shaped, Local
  <1>1. CASE job[c].commit
    <2>1. Becomes(c, "publish", job[c],
               [wc[c] EXCEPT !.hdr = IndexedHdr(c)], tx[c])
      BY <1>s, IndexDoes, <1>1
    <2>2. Local(c)'
      BY <1>0, <1>1, <2>1, WalAssumption DEF LInv, Becomes, Local, ShapeOf,
         ControlOf, NoJob, NoTx, HdrPcs, Recovery, MarkPcs, RestartPcs,
         FramePcs, CopyPcs, ScanPcs, CkptPcs, Marks
    <2>3. Alone(c)
      BY <2>1, <2>2 DEF Alone, Becomes
    <2>4. Same(c)
      BY <1>0, <1>1, <2>1, WalAssumption DEF LInv, Becomes, Local, ShapeOf,
         ControlOf, NoJob, NoTx, HdrPcs, Recovery, MarkPcs, RestartPcs,
         FramePcs, CopyPcs, ScanPcs, CkptPcs, Marks, Same, Excl, Shares,
         ExclOf, SharedOf
    <2>5. UNCHANGED lock
      BY <1>0, <1>1 DEF Index, Step, At, private
    <2> QED BY <2>3, <2>4, <2>5, LockKept
  <1>2. CASE ~job[c].commit
    <2>1. Becomes(c, "idle", NoJob,
               [wc[c] EXCEPT !.hdr = IndexedHdr(c)], [tx[c] EXCEPT !.dirty = Without(tx[c].dirty, {job[c].list[1]})])
      BY <1>s, IndexDoes, <1>2
    <2>2. Local(c)'
      BY <1>0, <1>2, <2>1, WalAssumption DEF LInv, Becomes, Local, ShapeOf,
         ControlOf, NoJob, NoTx, HdrPcs, Recovery, MarkPcs, RestartPcs,
         FramePcs, CopyPcs, ScanPcs, CkptPcs, Marks
    <2>3. Alone(c)
      BY <2>1, <2>2 DEF Alone, Becomes
    <2>4. Same(c)
      BY <1>0, <1>2, <2>1, WalAssumption DEF LInv, Becomes, Local, ShapeOf,
         ControlOf, NoJob, NoTx, HdrPcs, Recovery, MarkPcs, RestartPcs,
         FramePcs, CopyPcs, ScanPcs, CkptPcs, Marks, Same, Excl, Shares,
         ExclOf, SharedOf
    <2>5. UNCHANGED lock
      BY <1>0, <1>2 DEF Index, Step, At, private
    <2> QED BY <2>3, <2>4, <2>5, LockKept
  <1> QED BY <1>1, <1>2

LEMMA PublishLocks ==
  ASSUME LInv, NEW c \in Conns, Publish(c)
  PROVE  LInv'
  <1>0. pc[c] = "publish"
    BY DEF Publish, Step, At
  <1>s. Shaped
    BY DEF LInv, Shaped, Local
  <1>1. Becomes(c, "idle", NoJob,
             wc[c], NoTx)
    BY <1>s, PublishDoes
  <1>2. Local(c)'
    BY <1>0, <1>1, WalAssumption DEF LInv, Becomes, Local, ShapeOf, ControlOf,
       NoJob, NoTx, HdrPcs, Recovery, MarkPcs, RestartPcs, FramePcs, CopyPcs,
       ScanPcs, CkptPcs, Marks
  <1>3. Alone(c)
    BY <1>1, <1>2 DEF Alone, Becomes
  <1>4. Drops(c, {WAL_WRITE_LOCK})
    BY <1>0, <1>1, WalAssumption DEF LInv, Becomes, Local, ShapeOf, ControlOf,
       NoJob, NoTx, HdrPcs, Recovery, MarkPcs, RestartPcs, FramePcs, CopyPcs,
       ScanPcs, CkptPcs, Marks, Drops, Excl, Shares, ExclOf, SharedOf, Slots,
       ReadersSlots, WAL_WRITE_LOCK, WAL_CKPT_LOCK, WAL_RECOVER_LOCK,
       WAL_READ_LOCK
  <1>5. lock' = Unlocked(lock, c, {WAL_WRITE_LOCK})
    BY <1>0, WalAssumption DEF Publish, Step, At, private, Release
  <1> QED BY <1>3, <1>4, <1>5, LockGiven

LEMMA StartCkptLocks ==
  ASSUME LInv, NEW c \in Conns, NEW mode \in Modes, StartCkpt(c, mode)
  PROVE  LInv'
  <1>0. pc[c] = "idle" /\ ~(wc[c].readLock >= 0)
    BY DEF StartCkpt, Idle, Reading, Step, At
  <1>s. Shaped
    BY DEF LInv, Shaped, Local
  <1>1. Becomes(c, IF mode \in {"full", "truncate"} THEN "ckptwrite" ELSE "tryhdr", [NoJob EXCEPT !.kind = "ckpt", !.mode = mode],
             wc[c], tx[c])
    BY <1>s, StartCkptDoes
  <1>2. Local(c)'
    BY <1>0, <1>1, WalAssumption DEF LInv, Becomes, Local, ShapeOf, ControlOf,
       NoJob, NoTx, HdrPcs, Recovery, MarkPcs, RestartPcs, FramePcs, CopyPcs,
       ScanPcs, CkptPcs, Marks, Modes
  <1>3. Alone(c)
    BY <1>1, <1>2 DEF Alone, Becomes
  <1>4. Adds(c, {WAL_CKPT_LOCK})
    BY <1>0, <1>1, WalAssumption DEF LInv, Becomes, Local, ShapeOf, ControlOf,
       NoJob, NoTx, HdrPcs, Recovery, MarkPcs, RestartPcs, FramePcs, CopyPcs,
       ScanPcs, CkptPcs, Marks, Adds, Excl, Shares, ExclOf, SharedOf, Slots,
       ReadersSlots, WAL_WRITE_LOCK, WAL_CKPT_LOCK, WAL_RECOVER_LOCK,
       WAL_READ_LOCK, Modes
  <1>5. {WAL_CKPT_LOCK} \in SUBSET Slots
    BY WalAssumption DEF Slots, ReadersSlots, WAL_WRITE_LOCK, WAL_CKPT_LOCK, WAL_RECOVER_LOCK, WAL_READ_LOCK
  <1>6. /\ \A s \in {WAL_CKPT_LOCK} : lock[s] = Free \/ Holds(c, s)
        /\ lock' = Locked(lock, c, {WAL_CKPT_LOCK})
    BY <1>0, <1>1 DEF StartCkpt, Idle, Reading, Step, At, private, Acquire,
       Lockable, Becomes
  <1> QED BY <1>3, <1>4, <1>5, <1>6, LockTaken

LEMMA CkptWriteLocks ==
  ASSUME LInv, NEW c \in Conns, CkptWrite(c)
  PROVE  LInv'
  <1>0. pc[c] = "ckptwrite"
    BY DEF CkptWrite, Step, At
  <1>s. Shaped
    BY DEF LInv, Shaped, Local
  <1>1. CASE Lockable({WAL_WRITE_LOCK})
    <2>1. Becomes(c, "tryhdr", job[c],
               wc[c], tx[c])
      BY <1>s, CkptWriteDoes, <1>1
    <2>2. Local(c)'
      BY <1>0, <1>1, <2>1, WalAssumption DEF LInv, Becomes, Local, ShapeOf,
         ControlOf, NoJob, NoTx, HdrPcs, Recovery, MarkPcs, RestartPcs,
         FramePcs, CopyPcs, ScanPcs, CkptPcs, Marks
    <2>3. Alone(c)
      BY <2>1, <2>2 DEF Alone, Becomes
    <2>4. Adds(c, {WAL_WRITE_LOCK})
      BY <1>0, <1>1, <2>1, WalAssumption DEF LInv, Becomes, Local, ShapeOf,
         ControlOf, NoJob, NoTx, HdrPcs, Recovery, MarkPcs, RestartPcs,
         FramePcs, CopyPcs, ScanPcs, CkptPcs, Marks, Adds, Excl, Shares,
         ExclOf, SharedOf, Slots, ReadersSlots, WAL_WRITE_LOCK, WAL_CKPT_LOCK,
         WAL_RECOVER_LOCK, WAL_READ_LOCK
    <2>5. {WAL_WRITE_LOCK} \in SUBSET Slots
      BY WalAssumption DEF Slots, ReadersSlots, WAL_WRITE_LOCK, WAL_CKPT_LOCK, WAL_RECOVER_LOCK, WAL_READ_LOCK
    <2>6. /\ \A s \in {WAL_WRITE_LOCK} : lock[s] = Free \/ Holds(c, s)
          /\ lock' = Locked(lock, c, {WAL_WRITE_LOCK})
      BY <1>0, <1>1, <2>1 DEF CkptWrite, Step, At, private, Acquire, Lockable,
         Becomes
    <2> QED BY <2>3, <2>4, <2>5, <2>6, LockTaken
  <1>2. CASE ~Lockable({WAL_WRITE_LOCK})
    <2>1. Becomes(c, "tryhdr", [job[c] EXCEPT !.mode = "passive"],
               wc[c], tx[c])
      BY <1>s, CkptWriteDoes, <1>2
    <2>2. Local(c)'
      BY <1>0, <1>2, <2>1, WalAssumption DEF LInv, Becomes, Local, ShapeOf,
         ControlOf, NoJob, NoTx, HdrPcs, Recovery, MarkPcs, RestartPcs,
         FramePcs, CopyPcs, ScanPcs, CkptPcs, Marks
    <2>3. Alone(c)
      BY <2>1, <2>2 DEF Alone, Becomes
    <2>4. Same(c)
      BY <1>0, <1>2, <2>1, WalAssumption DEF LInv, Becomes, Local, ShapeOf,
         ControlOf, NoJob, NoTx, HdrPcs, Recovery, MarkPcs, RestartPcs,
         FramePcs, CopyPcs, ScanPcs, CkptPcs, Marks, Same, Excl, Shares,
         ExclOf, SharedOf
    <2>5. UNCHANGED lock
      BY <1>0, <1>2 DEF CkptWrite, Step, At, private
    <2> QED BY <2>3, <2>4, <2>5, LockKept
  <1> QED BY <1>1, <1>2

LEMMA CkptStartLocks ==
  ASSUME LInv, NEW c \in Conns, CkptStart(c)
  PROVE  LInv'
  <1>0. pc[c] = "ckpt"
    BY DEF CkptStart, Step, At
  <1>s. Shaped
    BY DEF LInv, Shaped, Local
  <1>1. CASE shm.nBackfill < wc[c].hdr.mxFrame
    <2>1. Becomes(c, "mark", [job[c] EXCEPT !.i = 1, !.safe = wc[c].hdr.mxFrame],
               wc[c], tx[c])
      BY <1>s, CkptStartDoes, <1>1
    <2>2. Local(c)'
      BY <1>0, <1>1, <2>1, WalAssumption DEF LInv, Becomes, Local, ShapeOf,
         ControlOf, NoJob, NoTx, HdrPcs, Recovery, MarkPcs, RestartPcs,
         FramePcs, CopyPcs, ScanPcs, CkptPcs, Marks, AfterCopy
    <2>3. Alone(c)
      BY <2>1, <2>2 DEF Alone, Becomes
    <2>4. Same(c)
      BY <1>0, <1>1, <2>1, WalAssumption DEF LInv, Becomes, Local, ShapeOf,
         ControlOf, NoJob, NoTx, HdrPcs, Recovery, MarkPcs, RestartPcs,
         FramePcs, CopyPcs, ScanPcs, CkptPcs, Marks, Same, Excl, Shares,
         ExclOf, SharedOf, AfterCopy
    <2>5. UNCHANGED lock
      BY <1>0, <1>1 DEF CkptStart, Step, At, private
    <2> QED BY <2>3, <2>4, <2>5, LockKept
  <1>2. CASE ~(shm.nBackfill < wc[c].hdr.mxFrame)
    <2>1. Becomes(c, AfterCopy(c), job[c],
               wc[c], tx[c])
      BY <1>s, CkptStartDoes, <1>2
    <2>2. Local(c)'
      BY <1>0, <1>2, <2>1, WalAssumption DEF LInv, Becomes, Local, ShapeOf,
         ControlOf, NoJob, NoTx, HdrPcs, Recovery, MarkPcs, RestartPcs,
         FramePcs, CopyPcs, ScanPcs, CkptPcs, Marks, AfterCopy
    <2>3. Alone(c)
      BY <2>1, <2>2 DEF Alone, Becomes
    <2>4. Same(c)
      BY <1>0, <1>2, <2>1, WalAssumption DEF LInv, Becomes, Local, ShapeOf,
         ControlOf, NoJob, NoTx, HdrPcs, Recovery, MarkPcs, RestartPcs,
         FramePcs, CopyPcs, ScanPcs, CkptPcs, Marks, Same, Excl, Shares,
         ExclOf, SharedOf, AfterCopy
    <2>5. UNCHANGED lock
      BY <1>0, <1>2 DEF CkptStart, Step, At, private
    <2> QED BY <2>3, <2>4, <2>5, LockKept
  <1> QED BY <1>1, <1>2

LEMMA CkptReadMarkLocks ==
  ASSUME LInv, NEW c \in Conns, CkptReadMark(c)
  PROVE  LInv'
  <1>0. pc[c] = "mark"
    BY DEF CkptReadMark, Step, At
  <1>s. Shaped
    BY DEF LInv, Shaped, Local
  <1>1. CASE job[c].safe > shm.aReadMark[job[c].i]
    <2>1. Becomes(c, "lockmk", [job[c] EXCEPT !.mark = shm.aReadMark[job[c].i]],
               wc[c], tx[c])
      BY <1>s, CkptReadMarkDoes, <1>1
    <2>2. Local(c)'
      BY <1>0, <1>1, <2>1, WalAssumption DEF LInv, Becomes, Local, ShapeOf,
         ControlOf, NoJob, NoTx, HdrPcs, Recovery, MarkPcs, RestartPcs,
         FramePcs, CopyPcs, ScanPcs, CkptPcs, Marks
    <2>3. Alone(c)
      BY <2>1, <2>2 DEF Alone, Becomes
    <2>4. Same(c)
      BY <1>0, <1>1, <2>1, WalAssumption DEF LInv, Becomes, Local, ShapeOf,
         ControlOf, NoJob, NoTx, HdrPcs, Recovery, MarkPcs, RestartPcs,
         FramePcs, CopyPcs, ScanPcs, CkptPcs, Marks, Same, Excl, Shares,
         ExclOf, SharedOf
    <2>5. UNCHANGED lock
      BY <1>0, <1>1 DEF CkptReadMark, NextMark, Step, At, private
    <2> QED BY <2>3, <2>4, <2>5, LockKept
  <1>2. CASE ~(job[c].safe > shm.aReadMark[job[c].i])
    <2>1. Becomes(c, IF job[c].i = WAL_NREADER - 1 THEN "lock0" ELSE "mark", [job[c] EXCEPT !.i = @ + 1, !.safe = job[c].safe, !.mark = 0],
               wc[c], tx[c])
      BY <1>s, CkptReadMarkDoes, <1>2
    <2>2. Local(c)'
      BY <1>0, <1>2, <2>1, WalAssumption DEF LInv, Becomes, Local, ShapeOf,
         ControlOf, NoJob, NoTx, HdrPcs, Recovery, MarkPcs, RestartPcs,
         FramePcs, CopyPcs, ScanPcs, CkptPcs, Marks
    <2>3. Alone(c)
      BY <2>1, <2>2 DEF Alone, Becomes
    <2>4. Same(c)
      BY <1>0, <1>2, <2>1, WalAssumption DEF LInv, Becomes, Local, ShapeOf,
         ControlOf, NoJob, NoTx, HdrPcs, Recovery, MarkPcs, RestartPcs,
         FramePcs, CopyPcs, ScanPcs, CkptPcs, Marks, Same, Excl, Shares,
         ExclOf, SharedOf
    <2>5. UNCHANGED lock
      BY <1>0, <1>2 DEF CkptReadMark, NextMark, Step, At, private
    <2> QED BY <2>3, <2>4, <2>5, LockKept
  <1> QED BY <1>1, <1>2

LEMMA CkptLockMarkLocks ==
  ASSUME LInv, NEW c \in Conns, CkptLockMark(c)
  PROVE  LInv'
  <1>0. pc[c] = "lockmk"
    BY DEF CkptLockMark, Step, At
  <1>s. Shaped
    BY DEF LInv, Shaped, Local
  <1>1. CASE Lockable({WAL_READ_LOCK(job[c].i)})
    <2>1. Becomes(c, IF job[c].i = WAL_NREADER - 1 THEN "lock0" ELSE "mark", [job[c] EXCEPT !.i = @ + 1, !.safe = job[c].safe, !.mark = 0],
               wc[c], tx[c])
      BY <1>s, CkptLockMarkDoes, <1>1
    <2>2. Local(c)'
      BY <1>0, <1>1, <2>1, WalAssumption DEF LInv, Becomes, Local, ShapeOf,
         ControlOf, NoJob, NoTx, HdrPcs, Recovery, MarkPcs, RestartPcs,
         FramePcs, CopyPcs, ScanPcs, CkptPcs, Marks
    <2>3. Alone(c)
      BY <2>1, <2>2 DEF Alone, Becomes
    <2>4. Same(c)
      BY <1>0, <1>1, <2>1, WalAssumption DEF LInv, Becomes, Local, ShapeOf,
         ControlOf, NoJob, NoTx, HdrPcs, Recovery, MarkPcs, RestartPcs,
         FramePcs, CopyPcs, ScanPcs, CkptPcs, Marks, Same, Excl, Shares,
         ExclOf, SharedOf
    <2>5. UNCHANGED lock
      BY <1>0, <1>1 DEF CkptLockMark, NextMark, SafeBelow, Step, At, private
    <2> QED BY <2>3, <2>4, <2>5, LockKept
  <1>2. CASE ~Lockable({WAL_READ_LOCK(job[c].i)})
    <2>1. Becomes(c, IF job[c].i = WAL_NREADER - 1 THEN "lock0" ELSE "mark", [job[c] EXCEPT !.i = @ + 1, !.safe = job[c].mark, !.mark = 0],
               wc[c], tx[c])
      BY <1>s, CkptLockMarkDoes, <1>2
    <2>2. Local(c)'
      BY <1>0, <1>2, <2>1, WalAssumption DEF LInv, Becomes, Local, ShapeOf,
         ControlOf, NoJob, NoTx, HdrPcs, Recovery, MarkPcs, RestartPcs,
         FramePcs, CopyPcs, ScanPcs, CkptPcs, Marks
    <2>3. Alone(c)
      BY <2>1, <2>2 DEF Alone, Becomes
    <2>4. Same(c)
      BY <1>0, <1>2, <2>1, WalAssumption DEF LInv, Becomes, Local, ShapeOf,
         ControlOf, NoJob, NoTx, HdrPcs, Recovery, MarkPcs, RestartPcs,
         FramePcs, CopyPcs, ScanPcs, CkptPcs, Marks, Same, Excl, Shares,
         ExclOf, SharedOf
    <2>5. UNCHANGED lock
      BY <1>0, <1>2 DEF CkptLockMark, NextMark, SafeBelow, Step, At, private
    <2> QED BY <2>3, <2>4, <2>5, LockKept
  <1> QED BY <1>1, <1>2

LEMMA CkptLock0Locks ==
  ASSUME LInv, NEW c \in Conns, CkptLock0(c)
  PROVE  LInv'
  <1>0. pc[c] = "lock0"
    BY DEF CkptLock0, Step, At
  <1>s. Shaped
    BY DEF LInv, Shaped, Local
  <1>1. CASE shm.nBackfill < job[c].safe /\ Lockable({WAL_READ_LOCK(0)}) /\ LiveHdr.salt = wc[c].hdr.salt
    <2>1. PICK list : Becomes(c, "synclog", [job[c] EXCEPT !.list = list],
               wc[c], tx[c])
      BY <1>s, CkptLock0Does, <1>1
    <2>2. Local(c)'
      BY <1>0, <1>1, <2>1, WalAssumption DEF LInv, Becomes, Local, ShapeOf,
         ControlOf, NoJob, NoTx, HdrPcs, Recovery, MarkPcs, RestartPcs,
         FramePcs, CopyPcs, ScanPcs, CkptPcs, Marks, AfterCopy
    <2>3. Alone(c)
      BY <2>1, <2>2 DEF Alone, Becomes
    <2>4. Adds(c, {WAL_READ_LOCK(0)})
      BY <1>0, <1>1, <2>1, WalAssumption DEF LInv, Becomes, Local, ShapeOf,
         ControlOf, NoJob, NoTx, HdrPcs, Recovery, MarkPcs, RestartPcs,
         FramePcs, CopyPcs, ScanPcs, CkptPcs, Marks, Adds, Excl, Shares,
         ExclOf, SharedOf, Slots, ReadersSlots, WAL_WRITE_LOCK, WAL_CKPT_LOCK,
         WAL_RECOVER_LOCK, WAL_READ_LOCK, AfterCopy
    <2>5. {WAL_READ_LOCK(0)} \in SUBSET Slots
      BY WalAssumption DEF Slots, ReadersSlots, WAL_WRITE_LOCK, WAL_CKPT_LOCK, WAL_RECOVER_LOCK, WAL_READ_LOCK
    <2>6. /\ \A s \in {WAL_READ_LOCK(0)} : lock[s] = Free \/ Holds(c, s)
          /\ lock' = Locked(lock, c, {WAL_READ_LOCK(0)})
      BY <1>0, <1>1, <2>1 DEF CkptLock0, Unwrapped, Step, At, private, Acquire, Lockable,
         Becomes
    <2> QED BY <2>3, <2>4, <2>5, <2>6, LockTaken
  <1>2. CASE ~(shm.nBackfill < job[c].safe /\ Lockable({WAL_READ_LOCK(0)}) /\ LiveHdr.salt = wc[c].hdr.salt)
    <2>1. Becomes(c, AfterCopy(c), job[c],
               wc[c], tx[c])
      BY <1>s, CkptLock0Does, <1>2
    <2>2. Local(c)'
      BY <1>0, <1>2, <2>1, WalAssumption DEF LInv, Becomes, Local, ShapeOf,
         ControlOf, NoJob, NoTx, HdrPcs, Recovery, MarkPcs, RestartPcs,
         FramePcs, CopyPcs, ScanPcs, CkptPcs, Marks, AfterCopy
    <2>3. Alone(c)
      BY <2>1, <2>2 DEF Alone, Becomes
    <2>4. Same(c)
      BY <1>0, <1>2, <2>1, WalAssumption DEF LInv, Becomes, Local, ShapeOf,
         ControlOf, NoJob, NoTx, HdrPcs, Recovery, MarkPcs, RestartPcs,
         FramePcs, CopyPcs, ScanPcs, CkptPcs, Marks, Same, Excl, Shares,
         ExclOf, SharedOf, AfterCopy
    <2>5. UNCHANGED lock
      BY <1>0, <1>2 DEF CkptLock0, Unwrapped, Step, At, private
    <2> QED BY <2>3, <2>4, <2>5, LockKept
  <1> QED BY <1>1, <1>2

LEMMA CkptSyncLocks ==
  ASSUME LInv, NEW c \in Conns, CkptSync(c)
  PROVE  LInv'
  <1>0. pc[c] = "synclog"
    BY DEF CkptSync, Step, At
  <1>s. Shaped
    BY DEF LInv, Shaped, Local
  <1>1. Becomes(c, "copy", job[c],
             wc[c], tx[c])
    BY <1>s, CkptSyncDoes
  <1>2. Local(c)'
    BY <1>0, <1>1, WalAssumption DEF LInv, Becomes, Local, ShapeOf, ControlOf,
       NoJob, NoTx, HdrPcs, Recovery, MarkPcs, RestartPcs, FramePcs, CopyPcs,
       ScanPcs, CkptPcs, Marks
  <1>3. Alone(c)
    BY <1>1, <1>2 DEF Alone, Becomes
  <1>4. Same(c)
    BY <1>0, <1>1, WalAssumption DEF LInv, Becomes, Local, ShapeOf, ControlOf,
       NoJob, NoTx, HdrPcs, Recovery, MarkPcs, RestartPcs, FramePcs, CopyPcs,
       ScanPcs, CkptPcs, Marks, Same, Excl, Shares, ExclOf, SharedOf
  <1>5. UNCHANGED lock
    BY <1>0 DEF CkptSync, Step, At, private
  <1> QED BY <1>3, <1>4, <1>5, LockKept

LEMMA CkptCopyLocks ==
  ASSUME LInv, NEW c \in Conns, CkptCopy(c)
  PROVE  LInv'
  <1>0. pc[c] = "copy"
    BY DEF CkptCopy, Step, At
  <1>s. Shaped
    BY DEF LInv, Shaped, Local
  <1>1. Becomes(c, pc[c], [job[c] EXCEPT !.list = Tail(@)],
             wc[c], tx[c])
    BY <1>s, CkptCopyDoes
  <1>2. Local(c)'
    BY <1>0, <1>1, WalAssumption DEF LInv, Becomes, Local, ShapeOf, ControlOf,
       NoJob, NoTx, HdrPcs, Recovery, MarkPcs, RestartPcs, FramePcs, CopyPcs,
       ScanPcs, CkptPcs, Marks
  <1>3. Alone(c)
    BY <1>1, <1>2 DEF Alone, Becomes
  <1>4. Same(c)
    BY <1>0, <1>1, WalAssumption DEF LInv, Becomes, Local, ShapeOf, ControlOf,
       NoJob, NoTx, HdrPcs, Recovery, MarkPcs, RestartPcs, FramePcs, CopyPcs,
       ScanPcs, CkptPcs, Marks, Same, Excl, Shares, ExclOf, SharedOf
  <1>5. UNCHANGED lock
    BY <1>0 DEF CkptCopy, Step, At, private
  <1> QED BY <1>3, <1>4, <1>5, LockKept

LEMMA CkptTruncateLocks ==
  ASSUME LInv, NEW c \in Conns, CkptTruncate(c)
  PROVE  LInv'
  <1>0. pc[c] = "copy"
    BY DEF CkptTruncate, Step, At
  <1>s. Shaped
    BY DEF LInv, Shaped, Local
  <1>1. Becomes(c, IF job[c].safe = LiveHdr.mxFrame THEN "syncdb" ELSE "backfill", job[c],
             wc[c], tx[c])
    BY <1>s, CkptTruncateDoes
  <1>2. Local(c)'
    BY <1>0, <1>1, WalAssumption DEF LInv, Becomes, Local, ShapeOf, ControlOf,
       NoJob, NoTx, HdrPcs, Recovery, MarkPcs, RestartPcs, FramePcs, CopyPcs,
       ScanPcs, CkptPcs, Marks
  <1>3. Alone(c)
    BY <1>1, <1>2 DEF Alone, Becomes
  <1>4. Same(c)
    BY <1>0, <1>1, WalAssumption DEF LInv, Becomes, Local, ShapeOf, ControlOf,
       NoJob, NoTx, HdrPcs, Recovery, MarkPcs, RestartPcs, FramePcs, CopyPcs,
       ScanPcs, CkptPcs, Marks, Same, Excl, Shares, ExclOf, SharedOf
  <1>5. UNCHANGED lock
    BY <1>0 DEF CkptTruncate, Step, At, private
  <1> QED BY <1>3, <1>4, <1>5, LockKept

LEMMA CkptSyncDbLocks ==
  ASSUME LInv, NEW c \in Conns, CkptSyncDb(c)
  PROVE  LInv'
  <1>0. pc[c] = "syncdb"
    BY DEF CkptSyncDb, Step, At
  <1>s. Shaped
    BY DEF LInv, Shaped, Local
  <1>1. Becomes(c, "backfill", job[c],
             wc[c], tx[c])
    BY <1>s, CkptSyncDbDoes
  <1>2. Local(c)'
    BY <1>0, <1>1, WalAssumption DEF LInv, Becomes, Local, ShapeOf, ControlOf,
       NoJob, NoTx, HdrPcs, Recovery, MarkPcs, RestartPcs, FramePcs, CopyPcs,
       ScanPcs, CkptPcs, Marks
  <1>3. Alone(c)
    BY <1>1, <1>2 DEF Alone, Becomes
  <1>4. Same(c)
    BY <1>0, <1>1, WalAssumption DEF LInv, Becomes, Local, ShapeOf, ControlOf,
       NoJob, NoTx, HdrPcs, Recovery, MarkPcs, RestartPcs, FramePcs, CopyPcs,
       ScanPcs, CkptPcs, Marks, Same, Excl, Shares, ExclOf, SharedOf
  <1>5. UNCHANGED lock
    BY <1>0 DEF CkptSyncDb, Step, At, private
  <1> QED BY <1>3, <1>4, <1>5, LockKept

LEMMA CkptBackfillLocks ==
  ASSUME LInv, NEW c \in Conns, CkptBackfill(c)
  PROVE  LInv'
  <1>0. pc[c] = "backfill"
    BY DEF CkptBackfill, Step, At
  <1>s. Shaped
    BY DEF LInv, Shaped, Local
  <1>1. Becomes(c, AfterCopy(c), job[c],
             wc[c], tx[c])
    BY <1>s, CkptBackfillDoes
  <1>2. Local(c)'
    BY <1>0, <1>1, WalAssumption DEF LInv, Becomes, Local, ShapeOf, ControlOf,
       NoJob, NoTx, HdrPcs, Recovery, MarkPcs, RestartPcs, FramePcs, CopyPcs,
       ScanPcs, CkptPcs, Marks, AfterCopy
  <1>3. Alone(c)
    BY <1>1, <1>2 DEF Alone, Becomes
  <1>4. Drops(c, {WAL_READ_LOCK(0)})
    BY <1>0, <1>1, WalAssumption DEF LInv, Becomes, Local, ShapeOf, ControlOf,
       NoJob, NoTx, HdrPcs, Recovery, MarkPcs, RestartPcs, FramePcs, CopyPcs,
       ScanPcs, CkptPcs, Marks, Drops, Excl, Shares, ExclOf, SharedOf, Slots,
       ReadersSlots, WAL_WRITE_LOCK, WAL_CKPT_LOCK, WAL_RECOVER_LOCK,
       WAL_READ_LOCK, AfterCopy
  <1>5. lock' = Unlocked(lock, c, {WAL_READ_LOCK(0)})
    BY <1>0, WalAssumption DEF CkptBackfill, Step, At, private, Release
  <1> QED BY <1>3, <1>4, <1>5, LockGiven

LEMMA CkptFailsLocks ==
  ASSUME LInv, NEW c \in Conns, CkptFails(c)
  PROVE  LInv'
  <1>0. pc[c] \in {"synclog", "copy", "syncdb"}
    BY DEF CkptFails, Step, At
  <1>s. Shaped
    BY DEF LInv, Shaped, Local
  <1>1. Becomes(c, "ckptend", [job[c] EXCEPT !.ok = FALSE],
             wc[c], tx[c])
    BY <1>s, CkptFailsDoes
  <1>2. Local(c)'
    BY <1>0, <1>1, WalAssumption DEF LInv, Becomes, Local, ShapeOf, ControlOf,
       NoJob, NoTx, HdrPcs, Recovery, MarkPcs, RestartPcs, FramePcs, CopyPcs,
       ScanPcs, CkptPcs, Marks
  <1>3. Alone(c)
    BY <1>1, <1>2 DEF Alone, Becomes
  <1>4. Drops(c, {WAL_READ_LOCK(0)})
    BY <1>0, <1>1, WalAssumption DEF LInv, Becomes, Local, ShapeOf, ControlOf,
       NoJob, NoTx, HdrPcs, Recovery, MarkPcs, RestartPcs, FramePcs, CopyPcs,
       ScanPcs, CkptPcs, Marks, Drops, Excl, Shares, ExclOf, SharedOf, Slots,
       ReadersSlots, WAL_WRITE_LOCK, WAL_CKPT_LOCK, WAL_RECOVER_LOCK,
       WAL_READ_LOCK
  <1>5. lock' = Unlocked(lock, c, {WAL_READ_LOCK(0)})
    BY <1>0, WalAssumption DEF CkptFails, Step, At, private, Release
  <1> QED BY <1>3, <1>4, <1>5, LockGiven

LEMMA CkptDoneLocks ==
  ASSUME LInv, NEW c \in Conns, CkptDone(c)
  PROVE  LInv'
  <1>0. pc[c] = "ckptdone"
    BY DEF CkptDone, Step, At
  <1>s. Shaped
    BY DEF LInv, Shaped, Local
  <1>1. Becomes(c, IF shm.nBackfill >= wc[c].hdr.mxFrame THEN "restart" ELSE "ckptend", job[c],
             wc[c], tx[c])
    BY <1>s, CkptDoneDoes
  <1>2. Local(c)'
    BY <1>0, <1>1, WalAssumption DEF LInv, Becomes, Local, ShapeOf, ControlOf,
       NoJob, NoTx, HdrPcs, Recovery, MarkPcs, RestartPcs, FramePcs, CopyPcs,
       ScanPcs, CkptPcs, Marks
  <1>3. Alone(c)
    BY <1>1, <1>2 DEF Alone, Becomes
  <1>4. Same(c)
    BY <1>0, <1>1, WalAssumption DEF LInv, Becomes, Local, ShapeOf, ControlOf,
       NoJob, NoTx, HdrPcs, Recovery, MarkPcs, RestartPcs, FramePcs, CopyPcs,
       ScanPcs, CkptPcs, Marks, Same, Excl, Shares, ExclOf, SharedOf
  <1>5. UNCHANGED lock
    BY <1>0 DEF CkptDone, Step, At, private
  <1> QED BY <1>3, <1>4, <1>5, LockKept

LEMMA TruncateLogLocks ==
  ASSUME LInv, NEW c \in Conns, TruncateLog(c)
  PROVE  LInv'
  <1>0. pc[c] = "trunclog"
    BY DEF TruncateLog, Step, At
  <1>s. Shaped
    BY DEF LInv, Shaped, Local
  <1>1. Becomes(c, "ckptend", job[c],
             wc[c], tx[c])
    BY <1>s, TruncateLogDoes
  <1>2. Local(c)'
    BY <1>0, <1>1, WalAssumption DEF LInv, Becomes, Local, ShapeOf, ControlOf,
       NoJob, NoTx, HdrPcs, Recovery, MarkPcs, RestartPcs, FramePcs, CopyPcs,
       ScanPcs, CkptPcs, Marks
  <1>3. Alone(c)
    BY <1>1, <1>2 DEF Alone, Becomes
  <1>4. Drops(c, ReadersSlots)
    BY <1>0, <1>1, WalAssumption DEF LInv, Becomes, Local, ShapeOf, ControlOf,
       NoJob, NoTx, HdrPcs, Recovery, MarkPcs, RestartPcs, FramePcs, CopyPcs,
       ScanPcs, CkptPcs, Marks, Drops, Excl, Shares, ExclOf, SharedOf, Slots,
       ReadersSlots, WAL_WRITE_LOCK, WAL_CKPT_LOCK, WAL_RECOVER_LOCK,
       WAL_READ_LOCK
  <1>5. lock' = Unlocked(lock, c, ReadersSlots)
    BY <1>0, WalAssumption DEF TruncateLog, Step, At, private, Release
  <1> QED BY <1>3, <1>4, <1>5, LockGiven

LEMMA CkptEndLocks ==
  ASSUME LInv, NEW c \in Conns, CkptEnd(c)
  PROVE  LInv'
  <1>0. pc[c] = "ckptend"
    BY DEF CkptEnd, Step, At
  <1>s. Shaped
    BY DEF LInv, Shaped, Local
  <1>1. CASE Closing(c)
    <2>1. Becomes(c, "closewal", job[c],
               IF job[c].changed THEN [wc[c] EXCEPT !.hdr = ZeroHdr] ELSE wc[c], tx[c])
      BY <1>s, CkptEndDoes, <1>1
    <2>2. Local(c)'
      BY <1>0, <1>1, <2>1, WalAssumption DEF LInv, Becomes, Local, ShapeOf,
         ControlOf, NoJob, NoTx, HdrPcs, Recovery, MarkPcs, RestartPcs,
         FramePcs, CopyPcs, ScanPcs, CkptPcs, Marks, Closing, OwnWrite
    <2>3. Alone(c)
      BY <2>1, <2>2 DEF Alone, Becomes
    <2>4. Drops(c, ({WAL_CKPT_LOCK} \cup (IF OwnWrite(c) THEN {WAL_WRITE_LOCK} ELSE {})))
      BY <1>0, <1>1, <2>1, WalAssumption DEF LInv, Becomes, Local, ShapeOf,
         ControlOf, NoJob, NoTx, HdrPcs, Recovery, MarkPcs, RestartPcs,
         FramePcs, CopyPcs, ScanPcs, CkptPcs, Marks, Drops, Excl, Shares,
         ExclOf, SharedOf, Slots, ReadersSlots, WAL_WRITE_LOCK, WAL_CKPT_LOCK,
         WAL_RECOVER_LOCK, WAL_READ_LOCK, Closing, OwnWrite
    <2>5. lock' = Unlocked(lock, c, ({WAL_CKPT_LOCK} \cup (IF OwnWrite(c) THEN {WAL_WRITE_LOCK} ELSE {})))
      BY <1>0, <1>1, WalAssumption DEF CkptEnd, Step, At, private, Release
    <2> QED BY <2>3, <2>4, <2>5, LockGiven
  <1>2. CASE ~Closing(c)
    <2>1. Becomes(c, "idle", NoJob,
               IF job[c].changed THEN [wc[c] EXCEPT !.hdr = ZeroHdr] ELSE wc[c], tx[c])
      BY <1>s, CkptEndDoes, <1>2
    <2>2. Local(c)'
      BY <1>0, <1>2, <2>1, WalAssumption DEF LInv, Becomes, Local, ShapeOf,
         ControlOf, NoJob, NoTx, HdrPcs, Recovery, MarkPcs, RestartPcs,
         FramePcs, CopyPcs, ScanPcs, CkptPcs, Marks, Closing, OwnWrite
    <2>3. Alone(c)
      BY <2>1, <2>2 DEF Alone, Becomes
    <2>4. Drops(c, ({WAL_CKPT_LOCK} \cup (IF OwnWrite(c) THEN {WAL_WRITE_LOCK} ELSE {})))
      BY <1>0, <1>2, <2>1, WalAssumption DEF LInv, Becomes, Local, ShapeOf,
         ControlOf, NoJob, NoTx, HdrPcs, Recovery, MarkPcs, RestartPcs,
         FramePcs, CopyPcs, ScanPcs, CkptPcs, Marks, Drops, Excl, Shares,
         ExclOf, SharedOf, Slots, ReadersSlots, WAL_WRITE_LOCK, WAL_CKPT_LOCK,
         WAL_RECOVER_LOCK, WAL_READ_LOCK, Closing, OwnWrite
    <2>5. lock' = Unlocked(lock, c, ({WAL_CKPT_LOCK} \cup (IF OwnWrite(c) THEN {WAL_WRITE_LOCK} ELSE {})))
      BY <1>0, <1>2, WalAssumption DEF CkptEnd, Step, At, private, Release
    <2> QED BY <2>3, <2>4, <2>5, LockGiven
  <1> QED BY <1>1, <1>2

LEMMA OpenLocks ==
  ASSUME LInv, NEW c \in Conns, Open(c)
  PROVE  LInv'
  <1>0. pc[c] = "closed"
    BY DEF Open, Step, At
  <1>s. Shaped
    BY DEF LInv, Shaped, Local
  <1>1. Becomes(c, "idle", job[c],
             wc[c], tx[c])
    BY <1>s, OpenDoes
  <1>2. Local(c)'
    BY <1>0, <1>1, WalAssumption DEF LInv, Becomes, Local, ShapeOf, ControlOf,
       NoJob, NoTx, HdrPcs, Recovery, MarkPcs, RestartPcs, FramePcs, CopyPcs,
       ScanPcs, CkptPcs, Marks
  <1>3. Alone(c)
    BY <1>1, <1>2 DEF Alone, Becomes
  <1>4. Same(c)
    BY <1>0, <1>1, WalAssumption DEF LInv, Becomes, Local, ShapeOf, ControlOf,
       NoJob, NoTx, HdrPcs, Recovery, MarkPcs, RestartPcs, FramePcs, CopyPcs,
       ScanPcs, CkptPcs, Marks, Same, Excl, Shares, ExclOf, SharedOf
  <1>5. UNCHANGED lock
    BY <1>0 DEF Open, Step, At, private
  <1> QED BY <1>3, <1>4, <1>5, LockKept

(* A connection outside a call.                                            *)
LEMMA AtRest ==
  ASSUME NEW p \in {"idle", "closed"} PROVE ControlOf(p, NoJob, FALSE, -1)
  <1>1. NoJob.kind = "none" /\ NoJob.mode = "none" /\ NoJob.mxI = 0 /\ NoJob.useWal = FALSE
    BY DEF NoJob
  <1>4. /\ -1 \in -1 .. WAL_NREADER - 1 /\ 0 \in 0 .. WAL_NREADER - 1
        /\ FALSE \in BOOLEAN /\ ~(NoJob.useWal)
    BY <1>1, WalAssumption
  <1>2. CASE p = "idle"
    BY <1>1, <1>2, <1>4 DEF ControlOf, HdrPcs, Recovery, MarkPcs, RestartPcs, FramePcs, CopyPcs, ScanPcs, CkptPcs
  <1>3. CASE p = "closed"
    BY <1>1, <1>3, <1>4 DEF ControlOf, HdrPcs, Recovery, MarkPcs, RestartPcs, FramePcs, CopyPcs, ScanPcs, CkptPcs
  <1> QED BY <1>2, <1>3

(* Connections that close or die take their locks with them.               *)
LEMMA GoneLocks ==
  ASSUME LInv, NEW S \in SUBSET Conns, Gone(S)
  PROVE  LInv'
  <1> USE DEF Gone, LInv
  <1>1. Shapes'
    BY DEF Shapes
  <1>2. \A d \in Conns \ S : Local(d)' /\ \A s : (Excl(d, s)' <=> Excl(d, s)) /\ (Shares(d, s)' <=> Shares(d, s))
    BY DEF Local, Excl, Shares
  <1>3. \A d \in S : pc'[d] = "closed" /\ job'[d] = NoJob /\ wc'[d] = NewWal /\ tx'[d] = NoTx
    OBVIOUS
  <1>4. \A d \in S : Local(d)' /\ \A s : ~Excl(d, s)' /\ ~Shares(d, s)'
    <2>1. \A d \in S : Local(d)'
      <3>1. \A d \in S : ShapeOf(wc[d], tx[d], job[d])'
        BY <1>3 DEF ShapeOf, NoJob, NewWal, NoTx
      <3>2. \A d \in S : ControlOf(pc[d], job[d], tx[d].on, wc[d].readLock)'
        BY <1>3, AtRest DEF NewWal, NoTx
      <3> QED BY <3>1, <3>2 DEF Local
    <2>2. \A d \in S : \A s : ~Excl(d, s)'
      BY <1>3 DEF Excl, ExclOf, NoJob, NoTx, Recovery, CopyPcs
    <2>3. \A d \in S : \A s : ~Shares(d, s)'
      BY <1>3 DEF Shares, SharedOf, NewWal
    <2> QED BY <2>1, <2>2, <2>3
  <1>5. LocksOK'
    <2>1. \A s \in Slots : /\ lock[s].shared \ S = {d \in Conns : Shares(d, s)'}
                           /\ lock[s].excl \ S = {d \in Conns : Excl(d, s)'}
      BY <1>2, <1>4, Holders
    <2> QED BY <2>1, Zenon DEF LocksOK
  <1>6. Exclusion'
    BY <1>2, <1>4 DEF Exclusion
  <1> QED BY <1>1, <1>2, <1>4, <1>5, <1>6

-----------------------------------------------------------------------------
LEMMA InitLocks == Init => LInv
  <1> SUFFICES ASSUME Init PROVE LInv
    OBVIOUS
  <1>1. Shapes
    BY DEF Init, Shapes
  <1>2. \A d \in Conns : /\ pc[d] \in {"idle", "closed"} /\ job[d] = NoJob
                         /\ wc[d] = NewWal /\ tx[d] = NoTx
    BY DEF Init
  <1>3. \A d \in Conns : Local(d) /\ \A s : ~Excl(d, s) /\ ~Shares(d, s)
    <2>1. \A d \in Conns : Local(d)
      <3>1. \A d \in Conns : ShapeOf(wc[d], tx[d], job[d])
        BY <1>2 DEF ShapeOf, NoJob, NewWal, NoTx
      <3>2. \A d \in Conns : ControlOf(pc[d], job[d], tx[d].on, wc[d].readLock)
        <4> TAKE d \in Conns
        <4>1. /\ pc[d] \in {"idle", "closed"} /\ job[d] = NoJob
              /\ tx[d].on = FALSE /\ wc[d].readLock = -1
          BY <1>2 DEF NewWal, NoTx
        <4> QED BY <4>1, AtRest
      <3> QED BY <3>1, <3>2 DEF Local
    <2>2. \A d \in Conns : \A s : ~Excl(d, s)
      BY <1>2 DEF Excl, ExclOf, NoJob, NoTx, Recovery, CopyPcs
    <2>3. \A d \in Conns : \A s : ~Shares(d, s)
      BY <1>2 DEF Shares, SharedOf, NewWal
    <2> QED BY <2>1, <2>2, <2>3
  <1>4. LocksOK
    <2>1. \A s \in Slots : {} = {d \in Conns : Shares(d, s)} /\ {} = {d \in Conns : Excl(d, s)}
      BY <1>3
    <2> QED BY <2>1, Zenon DEF LocksOK, Init, Free
  <1> QED BY <1>1, <1>3, <1>4 DEF LInv, Exclusion

LEMMA StutterLocks == ASSUME LInv, UNCHANGED vars PROVE LInv'
  <1>1. /\ pc' = pc /\ job' = job /\ tx' = tx /\ wc' = wc /\ lock' = lock /\ setting' = setting
    BY DEF vars, private
  <1>2. \A d \in Conns : \A s : (Excl(d, s)' <=> Excl(d, s)) /\ (Shares(d, s)' <=> Shares(d, s))
    BY <1>1 DEF Excl, Shares
  <1> QED BY <1>1, <1>2 DEF LInv, Shapes, Local, LocksOK, Exclusion

(* Every step keeps the locks in order. *)
LEMMA StepLocks ==
  ASSUME LInv, MarkNumbers, [Next]_vars
  PROVE  LInv'
  <1>1. ASSUME NEW c \in Conns, BeginRead(c) \/ EndRead(c) \/ ReadStep(c) PROVE LInv'
    BY <1>1, BeginReadLocks, EndReadLocks, TryHdrLocks, TryHdr2Locks, BadHdrLocks,
       BadHdrBusyLocks, RecoverLockLocks, RecoverBusyLocks, RecoverLogLocks, RecoverHdr0Locks,
       RecoverInfoLocks, ChooseDbLocks, Check0Locks, ScanLocks, SetMarkLocks, LockMarkLocks,
       MinFrameLocks, CheckMarkLocks DEF ReadStep
  <1>2. ASSUME NEW c \in Conns,
               BeginWrite(c) \/ Shrink(c) \/ Commit(c) \/ Rollback(c) \/ WriteStep(c) \/ Fails(c)
        PROVE LInv'
    BY <1>2, BeginWriteLocks, ShrinkLocks, CommitLocks, RollbackLocks, RestartLocks,
       RestartHdr0Locks, RestartInfoLocks, CannotRestartLocks, WriteLogHeaderLocks,
       SyncHeaderLocks, WriteFramesLocks, SyncFramesLocks, IndexLocks, PublishLocks, FailsLocks
       DEF WriteStep
  <1>3. ASSUME NEW c \in Conns, NEW p \in Pages, Modify(c, p) \/ Spill(c, p) PROVE LInv'
    BY <1>3, ModifyLocks, SpillLocks
  <1>4. ASSUME NEW c \in Conns, Checkpoint(c) PROVE LInv'
    <2>1. PICK mode \in setting.modes : StartCkpt(c, mode)
      BY <1>4 DEF Checkpoint
    <2>2. mode \in Modes
      BY <2>1, WalAssumption DEF LInv, Shapes, Modes
    <2> QED BY <2>1, <2>2, StartCkptLocks
  <1>5. ASSUME NEW c \in Conns, CloseWal(c) PROVE LInv'
    BY <1>5, GoneLocks DEF CloseWal
  <1>6. ASSUME NEW c \in Conns, CkptStep(c) \/ CkptFails(c) PROVE LInv'
    BY <1>6, <1>5, CkptWriteLocks, CkptStartLocks, CkptReadMarkLocks, CkptLockMarkLocks,
       CkptLock0Locks, CkptSyncLocks, CkptCopyLocks, CkptTruncateLocks, CkptSyncDbLocks,
       CkptBackfillLocks, CkptDoneLocks, TruncateLogLocks, CkptEndLocks, CkptFailsLocks
       DEF CkptStep
  <1>7. ASSUME NEW c \in Conns, Open(c) PROVE LInv'
    BY <1>7, OpenLocks
  <1>8. ASSUME NEW c \in Conns, Close(c) PROVE LInv'
    BY <1>8, GoneLocks, StartCkptLocks DEF Close, Modes
  <1>9. ASSUME NEW c \in Conns, Death(c) PROVE LInv'
    BY <1>9, GoneLocks DEF Death
  <1>10. CASE PowerFailure
    BY <1>10, GoneLocks DEF PowerFailure
  <1> QED BY <1>1, <1>2, <1>3, <1>4, <1>6, <1>7, <1>8, <1>9, <1>10, StutterLocks DEF Next

-----------------------------------------------------------------------------
(* Types of the files, the wal-index and what a connection keeps.          *)

Sizes == 0 .. MaxPage

IsSeq(s) == Len(s) \in Nat /\ s = [n \in 1 .. Len(s) |-> s[n]]

HdrOK(h) ==
    /\ DOMAIN h = {"isInit", "iChange", "mxFrame", "nPage", "salt", "sum"}
    /\ h.mxFrame \in Nat /\ h.nPage \in Sizes /\ h.salt \in Nat

(* The last frame that a header counts is a commit frame, with the size of *)
(* the database; while a writer has spilled pages its own header may count *)
(* others.                                                                 *)
Sized(h) == h.mxFrame > 0 => h.nPage \in Pages

FrameOK(f) == DOMAIN f = {"pg", "val", "size", "salt", "sum"} /\ f.size \in Sizes

LogOK(w) ==
    /\ DOMAIN w = {"salt", "nCkpt", "frames"}
    /\ w.salt \in Nat \cup {NoSalt}
    /\ IsSeq(w.frames)
    /\ \A n \in 1 .. Len(w.frames) : FrameOK(w.frames[n])

DbOK(f) == IsSeq(f) /\ Len(f) \in Pages

SharedOK ==
    /\ DOMAIN shm = {"hdr", "nBackfill", "aReadMark", "aPgno"} /\ DOMAIN shm.hdr = {1, 2}
    /\ HdrOK(LiveHdr) /\ Sized(LiveHdr)
    /\ shm.nBackfill \in Nat
    /\ shm.aReadMark \in [0 .. WAL_NREADER - 1 -> Nat]

FilesOK == DbOK(db) /\ DbOK(dbDisk) /\ LogOK(wal) /\ LogOK(walDisk)

CountersOK == writes \in 0 .. setting.writes /\ salts \in 0 .. MaxSalts

(* p is the pc of a connection, j its job, t its transaction, w its struct *)
(* Wal.                                                                    *)
ConnOf(p, j, t, w) ==
    /\ HdrOK(w.hdr) /\ HdrOK(j.h1) /\ Sized(j.h1)
    /\ ~t.on \/ p = "publish" => Sized(w.hdr)
    /\ p \in ScanPcs \cup CopyPcs => w.hdr.mxFrame > 0
    /\ p \in {"restart1", "restart2", "trunclog"} => w.hdr.mxFrame = 0
    /\ w.iReCksum \in Nat /\ w.minFrame \in Nat
    /\ t.on => t.size \in Pages
    /\ DOMAIN t.dirty \subseteq Pages
    /\ j.mark \in Nat /\ j.safe \in Nat
    /\ j.list \in Seq(Pages) /\ j.new \in Seq(Pages)
    /\ j.kind = "write" => j.list # <<>>

Conn(c) == ConnOf(pc[c], job[c], tx[c], wc[c])

CacheOK == DOMAIN cache = Conns /\ \A c \in Conns : DOMAIN cache[c] \subseteq Pages

(* Who closes the log is alone.                                            *)
ClosingsOK == \A c \in Conns : Closing(c) => \A d \in Others(c) : At(d, "closed")

(* How far the frames of c go, with those that it has not indexed yet.     *)
Reached(c) == wc[c].hdr.mxFrame + (IF pc[c] \in {"sync", "index"} THEN Len(job[c].new) ELSE 0)

(* The log holds the frames that the shared header counts, and those of a  *)
(* writer and of a recovery; a log that is cut off counts none.            *)
LengthOf(c) ==
    /\ pc[c] = "recover2" \/ tx[c].on => Reached(c) <= Len(wal.frames)
    /\ pc[c] \in {"restart2", "trunclog"} => LiveHdr.mxFrame = 0

LengthsOK == LiveHdr.mxFrame <= Len(wal.frames) /\ \A c \in Conns : LengthOf(c)

Types ==
    /\ SharedOK /\ FilesOK /\ CountersOK /\ CacheOK
    /\ \A c \in Conns : Conn(c)

TInv == LInv /\ Types /\ ClosingsOK /\ LengthsOK

-----------------------------------------------------------------------------
(* The operators.                                                          *)

LEMMA LenOf ==
  ASSUME NEW n \in Nat, NEW f, f = [i \in 1 .. n |-> f[i]]
  PROVE  Len(f) = n /\ IsSeq(f)
  <1> DEFINE S == {f[i] : i \in 1 .. n}
  <1>1. f \in [1 .. n -> S]
    <2>1. \A i \in 1 .. n : f[i] \in S
      OBVIOUS
    <2> HIDE DEF S
    <2> QED BY <2>1
  <1>2. f \in Seq(S)
    <2> HIDE DEF S
    <2> QED BY <1>1, SeqDef
  <1>3. Len(f) \in Nat /\ DOMAIN f = 1 .. Len(f) /\ DOMAIN f = 1 .. n
    <2> HIDE DEF S
    <2> QED BY <1>1, <1>2, LenProperties
  <1>4. Len(f) = n
    BY <1>3
  <1> QED BY <1>3, <1>4 DEF IsSeq

LEMMA SeqIsSeq ==
  ASSUME NEW S, NEW s \in Seq(S)
  PROVE  IsSeq(s)
BY LenProperties DEF IsSeq

LEMMA ValidFramesAre ==
  ASSUME NEW w, LogOK(w)
  PROVE  /\ ValidFrames(w) \in 0 .. Len(w.frames)
         /\ \A m \in 1 .. ValidFrames(w) : ValidFrame(w, m)
         /\ w.salt = NoSalt => ValidFrames(w) = 0
         /\ w.salt # NoSalt /\ ValidFrames(w) < Len(w.frames) => ~ValidFrame(w, ValidFrames(w) + 1)
  <1> DEFINE L == Len(w.frames)
  <1>0. L \in Nat
    BY DEF LogOK, IsSeq
  <1>1. CASE w.salt = NoSalt
    BY <1>0, <1>1 DEF ValidFrames
  <1>2. CASE w.salt # NoSalt
    <2> DEFINE T == {n \in 0 .. L : n < L => ~ValidFrame(w, n + 1)}
    <2>1. L \in T /\ T \subseteq Nat
      BY <1>0
    <2>2. PICK n \in T : \A y \in T : n <= y
      <3> HIDE DEF T
      <3> QED BY <2>1, LeastOf
    <2>3. ASSUME NEW m \in 1 .. n PROVE ValidFrame(w, m)
      <3>1. m - 1 \in 0 .. L /\ m - 1 < n /\ m - 1 < L /\ m - 1 + 1 = m
        BY <1>0, <2>2
      <3>2. m - 1 \notin T
        <4> HIDE DEF T
        <4> QED BY <1>0, <2>1, <2>2, <3>1
      <3> QED BY <3>1, <3>2
    <2>4. \E k \in 0 .. L : /\ k < L => ~ValidFrame(w, k + 1)
                            /\ \A m \in 1 .. k : ValidFrame(w, m)
      BY <2>2, <2>3
    <2> HIDE DEF T
    <2> QED BY <1>2, <2>4 DEF ValidFrames
  <1> QED BY <1>1, <1>2

LEMMA RecoveredFacts ==
  ASSUME NEW w, LogOK(w)
  PROVE  /\ LastCommit(w) \in 0 .. Len(w.frames)
         /\ LastCommit(w) > 0 => w.salt # NoSalt /\ w.frames[LastCommit(w)].size > 0
         /\ RecoveredHdr(w) = HdrUpTo(w, LastCommit(w))
  <1> DEFINE L == Len(w.frames)
             v == ValidFrames(w)
  <1>0. L \in Nat
    BY DEF LogOK, IsSeq
  <1>1. v \in 0 .. L /\ (w.salt = NoSalt => v = 0)
    BY ValidFramesAre
  <1> DEFINE T == {n \in 0 .. v : n > 0 => w.frames[n].size > 0}
  <1>2. 0 \in T /\ T \subseteq 0 .. v /\ v \in Nat
    BY <1>0, <1>1
  <1>3. LastCommit(w) = Largest(T)
    BY DEF LastCommit
  <1>4. LastCommit(w) \in T /\ \A m \in T : m <= LastCommit(w)
    <2> HIDE DEF T, v
    <2> QED BY <1>2, <1>3, LargestOf
  <1>5. LastCommit(w) \in 0 .. L
    BY <1>0, <1>1, <1>4
  <1>6. LastCommit(w) > 0 => w.salt # NoSalt /\ w.frames[LastCommit(w)].size > 0
    <2> HIDE DEF v
    <2> QED BY <1>0, <1>1, <1>4
  <1>8. RecoveredHdr(w) = HdrUpTo(w, LastCommit(w))
    <2>1. {HdrUpTo(w, n) : n \in {LastCommit(w)}} = {HdrUpTo(w, LastCommit(w))}
      OBVIOUS
    <2> QED BY <2>1 DEF RecoveredHdr
  <1> QED BY <1>5, <1>6, <1>8

LEMMA RecoveredOK ==
  ASSUME NEW w, LogOK(w)
  PROVE  /\ HdrOK(RecoveredHdr(w)) /\ Sized(RecoveredHdr(w))
         /\ RecoveredHdr(w).mxFrame = LastCommit(w)
         /\ RecoveredHdr(w).salt = 0 \/ RecoveredHdr(w).salt = w.salt
         /\ LastCommit(w) > 0 => /\ RecoveredHdr(w).salt = w.salt
                                 /\ RecoveredHdr(w).sum = SumUpTo(w, LastCommit(w))
  <1> DEFINE n == LastCommit(w)
  <1>1. /\ n \in 0 .. Len(w.frames) /\ Len(w.frames) \in Nat
        /\ n > 0 => w.frames[n].size > 0 /\ w.salt # NoSalt
        /\ RecoveredHdr(w) = HdrUpTo(w, n)
    BY RecoveredFacts DEF LogOK, IsSeq
  <1>2. n > 0 => w.frames[n].size \in Pages /\ w.frames # <<>>
    BY <1>1, WalAssumption DEF LogOK, FrameOK, Sizes, Pages
  <1>3. w.salt # NoSalt => w.salt \in Nat
    BY DEF LogOK
  <1> HIDE DEF n
  <1>4. n \in Nat /\ Pages \subseteq Sizes /\ 0 \in Sizes
    BY <1>1, WalAssumption DEF Pages, Sizes
  <1>5. HdrOK(HdrUpTo(w, n)) /\ Sized(HdrUpTo(w, n)) /\ HdrUpTo(w, n).mxFrame = n
    BY <1>2, <1>3, <1>4 DEF HdrUpTo, HdrOK, Sized, HasFrames
  <1>6. HdrUpTo(w, n).salt = 0 \/ HdrUpTo(w, n).salt = w.salt
    BY DEF HdrUpTo
  <1>7. n > 0 => HdrUpTo(w, n).salt = w.salt /\ HdrUpTo(w, n).sum = SumUpTo(w, n)
    BY <1>1, <1>2, <1>4 DEF HdrUpTo, HasFrames
  <1> QED BY <1>1, <1>5, <1>6, <1>7 DEF n

LEMMA PagesFinite ==
  ASSUME NEW S \in SUBSET Pages
  PROVE  IsFiniteSet(S) /\ Cardinality(S) \in Nat
  <1>1. IsFiniteSet(Pages)
    BY WalAssumption, FS_Interval DEF Pages
  <1> QED BY <1>1, FS_Subset, FS_CardinalityType

LEMMA SortingsOK ==
  ASSUME NEW S \in SUBSET Pages, NEW list \in Sortings(S)
  PROVE  list \in Seq(Pages)
  <1>1. list \in [1 .. Cardinality(S) -> S] /\ Cardinality(S) \in Nat
    BY PagesFinite DEF Sortings
  <1>2. list \in [1 .. Cardinality(S) -> Pages]
    BY <1>1
  <1> QED BY <1>1, <1>2, SeqDef

-----------------------------------------------------------------------------
(* What walFrames() writes.                                                *)

LEMMA WrittenExists ==
  ASSUME NEW c, NEW N \in Nat
  PROVE  \E at : at = [k \in 0 .. N |-> IF k = 0 THEN Unwritten(c) ELSE PageWritten(c, k, at[k - 1])]
  <1> DEFINE Goes(at, m) == at = [k \in 0 .. m |-> IF k = 0 THEN Unwritten(c)
                                                ELSE PageWritten(c, k, at[k - 1])]
             T == {m \in 0 .. N : ~\E at : Goes(at, m)}
  <1>1. SUFFICES ASSUME T # {} PROVE FALSE
    OBVIOUS
  <1> HIDE DEF Goes
  <1>0. T \subseteq 0 .. N /\ T \subseteq Nat
    OBVIOUS
  <1>2. PICK m \in T : \A y \in T : m <= y
    <2> HIDE DEF T
    <2> QED BY <1>0, <1>1, LeastOf
  <1>3. CASE m = 0
    <2> DEFINE at == [k \in 0 .. 0 |-> Unwritten(c)]
    <2>1. Goes(at, 0)
      BY DEF Goes
    <2> HIDE DEF at
    <2> QED BY <1>3, <2>1
  <1>4. CASE m # 0
    <2>1. m - 1 \in 0 .. N /\ m - 1 \notin T
      <3> HIDE DEF T
      <3> QED BY <1>0, <1>2, <1>4
    <2>2. PICK g : Goes(g, m - 1)
      BY <2>1
    <2> DEFINE h == [k \in 0 .. m |-> IF k = m THEN PageWritten(c, k, g[m - 1]) ELSE g[k]]
    <2>3. ASSUME NEW k \in 0 .. m
          PROVE  h[k] = IF k = 0 THEN Unwritten(c) ELSE PageWritten(c, k, h[k - 1])
      <3>1. CASE k = m
        BY <1>2, <1>4, <3>1
      <3>2. CASE k # m
        <4>1. k \in 0 .. m - 1 /\ h[k] = g[k] /\ (k # 0 => h[k - 1] = g[k - 1])
          BY <1>2, <3>2
        <4>2. g[k] = IF k = 0 THEN Unwritten(c) ELSE PageWritten(c, k, g[k - 1])
          BY <2>2, <4>1 DEF Goes
        <4> QED BY <4>1, <4>2
      <3> QED BY <3>1, <3>2
    <2>4. h = [k \in 0 .. m |-> h[k]]
      OBVIOUS
    <2>5. Goes(h, m)
      <3> HIDE DEF h
      <3> QED BY <2>3, <2>4 DEF Goes
    <2> HIDE DEF h
    <2> QED BY <1>2, <2>5
  <1> QED BY <1>3, <1>4

LEMMA WrittenIs ==
  ASSUME NEW c, job[c].list \in Seq(Pages)
  PROVE  /\ Written(c)[0] = Unwritten(c)
         /\ \A k \in 1 .. Len(job[c].list) : Written(c)[k] = PageWritten(c, k, Written(c)[k - 1])
  <1> DEFINE N == Len(job[c].list)
             at == CHOOSE at : at = [k \in 0 .. N |->
                       IF k = 0 THEN Unwritten(c) ELSE PageWritten(c, k, at[k - 1])]
  <1>1. N \in Nat
    OBVIOUS
  <1>2. at = Written(c)
    BY DEF Written
  <1>3. at = [k \in 0 .. N |-> IF k = 0 THEN Unwritten(c) ELSE PageWritten(c, k, at[k - 1])]
    <2>1. \E f : f = [k \in 0 .. N |-> IF k = 0 THEN Unwritten(c) ELSE PageWritten(c, k, f[k - 1])]
      BY <1>1, WrittenExists, ZenonT(60)
    <2> QED BY <2>1, ZenonT(60)
  <1> HIDE DEF at
  <1>4. at[0] = Unwritten(c) /\ \A k \in 1 .. N : at[k] = PageWritten(c, k, at[k - 1])
    <2> HIDE DEF N
    <2> QED BY <1>1, <1>3
  <1> QED BY <1>2, <1>4

(* What stays true of the log while the list is written. *)
Grown(c, s) ==
    /\ DOMAIN s = {"frames", "sum", "re", "new"}
    /\ IsSeq(s.frames) /\ \A n \in 1 .. Len(s.frames) : FrameOK(s.frames[n])
    /\ s.new \in Seq(Pages) /\ s.re \in Nat
    /\ Len(wal.frames) <= Len(s.frames)
    /\ wc[c].hdr.mxFrame + Len(s.new) <= Len(s.frames)

LEMMA FoundFrame ==
  ASSUME NEW c, NEW p, wc[c].minFrame \in Nat, wc[c].hdr.mxFrame \in Nat
  PROVE  walFindFrame(c, p) \in Nat
  <1> DEFINE T == {0} \cup {n \in wc[c].minFrame .. wc[c].hdr.mxFrame : shm.aPgno[n] = p}
  <1>1. T \subseteq 0 .. wc[c].hdr.mxFrame /\ T # {}
    OBVIOUS
  <1>2. Largest(T) \in T
    <2> HIDE DEF T
    <2> QED BY <1>1, LargestOf
  <1>3. Largest(T) \in Nat
    BY <1>1, <1>2
  <1> QED BY <1>3 DEF walFindFrame, LastOf

LEMMA PutLast ==
  ASSUME NEW f, IsSeq(f), NEW n \in 1 .. Len(f) + 1, NEW x
  PROVE  /\ IsSeq(Put(f, n, x)) /\ n <= Len(Put(f, n, x)) /\ Len(f) <= Len(Put(f, n, x))
         /\ \A m \in 1 .. Len(Put(f, n, x)) :
               Put(f, n, x)[m] = IF m = n THEN x ELSE f[m]
         /\ \A m \in 1 .. Len(Put(f, n, x)) : m # n => m \in 1 .. Len(f)
  <1> DEFINE L == IF n = Len(f) + 1 THEN n ELSE Len(f)
             g == Put(f, n, x)
  <1>1. Len(f) \in Nat /\ DOMAIN f = 1 .. Len(f) /\ L \in Nat
    BY DEF IsSeq
  <1>2. DOMAIN f \cup {n} = 1 .. L
    BY <1>1
  <1>3. g = [m \in 1 .. L |-> g[m]] /\ \A m \in 1 .. L : g[m] = IF m = n THEN x ELSE f[m]
    BY <1>2 DEF Put
  <1>4. Len(g) = L /\ IsSeq(g)
    <2> HIDE DEF g, L
    <2> QED BY <1>1, <1>3, LenOf
  <1> HIDE DEF g
  <1>5. IsSeq(g) /\ n <= Len(g) /\ Len(f) <= Len(g)
    BY <1>1, <1>4
  <1>6. \A m \in 1 .. Len(g) : m # n => m \in 1 .. Len(f)
    BY <1>1, <1>4
  <1>7. \A m \in 1 .. Len(g) : g[m] = IF m = n THEN x ELSE f[m]
    <2> HIDE DEF L
    <2> QED BY <1>3, <1>4
  <1> QED BY <1>5, <1>6, <1>7 DEF g

LEMMA PageWrittenGrows ==
  ASSUME NEW c \in Conns, FilesOK, Conn(c), tx[c].on, NEW k \in 1 .. Len(job[c].list),
         NEW s, Grown(c, s)
  PROVE  Grown(c, PageWritten(c, k, s))
  <1> DEFINE p == job[c].list[k]
             v == IF p \in DOMAIN tx[c].dirty THEN tx[c].dirty[p] ELSE View(c)[p]
             f == walFindFrame(c, p)
             size == IF job[c].commit /\ k = Len(job[c].list) THEN tx[c].size ELSE 0
             x == Chained(s.sum, p, v, size, wc[c].hdr.salt)
             m == wc[c].hdr.mxFrame + Len(s.new) + 1
             t == PageWritten(c, k, s)
  <1>1. /\ p \in Pages /\ f \in Nat /\ wc[c].hdr.mxFrame \in Nat /\ size \in Sizes
    <2>1. wc[c].hdr.mxFrame \in Nat /\ wc[c].minFrame \in Nat /\ tx[c].size \in Pages
      BY DEF Conn, ConnOf, HdrOK
    <2>2. p \in Pages
      BY DEF Conn, ConnOf
    <2>3. size \in Sizes
      BY <2>1, WalAssumption DEF Pages, Sizes
    <2> QED BY <2>1, <2>2, <2>3, FoundFrame
  <1>2. /\ DOMAIN s = {"frames", "sum", "re", "new"} /\ IsSeq(s.frames) /\ Len(s.frames) \in Nat
        /\ \A n \in 1 .. Len(s.frames) : FrameOK(s.frames[n])
        /\ s.new \in Seq(Pages) /\ s.re \in Nat /\ Len(s.new) \in Nat
        /\ Len(wal.frames) <= Len(s.frames) /\ Len(wal.frames) \in Nat
        /\ wc[c].hdr.mxFrame + Len(s.new) <= Len(s.frames)
    BY DEF Grown, IsSeq, FilesOK, LogOK
  <1>3. CASE Overwrites(c, k)
    <2> DEFINE fr == [s.frames EXCEPT ![f].val = v]
    <2>1. t = [s EXCEPT !.frames[f].val = v, !.re = IF @ = 0 \/ f < @ THEN f ELSE @]
      BY <1>3 DEF PageWritten
    <2>2. /\ DOMAIN t = {"frames", "sum", "re", "new"} /\ t.new = s.new /\ t.re \in Nat
          /\ t.frames = fr
      <3> HIDE DEF t, f, v
      <3> QED BY <1>1, <1>2, <2>1
    <2>3. fr = [n \in 1 .. Len(s.frames) |-> fr[n]]
      BY <1>2 DEF IsSeq
    <2>4. Len(fr) = Len(s.frames) /\ IsSeq(fr)
      <3> HIDE DEF fr
      <3> QED BY <1>2, <2>3, LenOf
    <2>5. \A n \in 1 .. Len(s.frames) : FrameOK(fr[n])
      <3> TAKE n \in 1 .. Len(s.frames)
      <3>1. FrameOK(s.frames[n])
        BY <1>2
      <3>2. fr[n] = IF n = f THEN [s.frames[n] EXCEPT !.val = v] ELSE s.frames[n]
        <4> HIDE DEF f, v
        <4> QED BY <1>2 DEF IsSeq
      <3> HIDE DEF f, v, fr
      <3> QED BY <3>1, <3>2 DEF FrameOK
    <2> HIDE DEF fr, t
    <2>6. Grown(c, t)
      BY <1>2, <2>2, <2>4, <2>5 DEF Grown
    <2> QED BY <2>6 DEF t
  <1>4. CASE ~Overwrites(c, k)
    <2> DEFINE fr == Put(s.frames, m, x)
    <2>1. t = [s EXCEPT !.frames = fr, !.sum = x.sum, !.new = Append(@, p)]
      BY <1>4 DEF PageWritten
    <2>2. /\ DOMAIN t = {"frames", "sum", "re", "new"} /\ t.new = Append(s.new, p) /\ t.re = s.re
          /\ t.frames = fr
      <3> HIDE DEF t, fr, x, p
      <3> QED BY <1>2, <2>1
    <2>3. t.new \in Seq(Pages) /\ Len(t.new) = Len(s.new) + 1
      <3> HIDE DEF t, fr, x, p
      <3>1. s.new \in Seq(Pages) /\ p \in Pages
        BY <1>1, <1>2
      <3>2. Append(s.new, p) \in Seq(Pages) /\ Len(Append(s.new, p)) = Len(s.new) + 1
        BY <3>1, AppendProperties
      <3>3. t.new = Append(s.new, p)
        BY <2>2
      <3> QED BY <3>2, <3>3
    <2>4. m \in 1 .. Len(s.frames) + 1
      <3>1. /\ wc[c].hdr.mxFrame \in Nat /\ Len(s.new) \in Nat /\ Len(s.frames) \in Nat
            /\ wc[c].hdr.mxFrame + Len(s.new) <= Len(s.frames)
        BY <1>1, <1>2
      <3> QED BY <3>1
    <2>5. FrameOK(x)
      <3> HIDE DEF p, v, size
      <3> QED BY <1>1 DEF FrameOK, Chained
    <2>6. /\ IsSeq(fr) /\ m <= Len(fr) /\ Len(s.frames) <= Len(fr)
          /\ \A n \in 1 .. Len(fr) : fr[n] = IF n = m THEN x ELSE s.frames[n]
          /\ \A n \in 1 .. Len(fr) : n # m => n \in 1 .. Len(s.frames)
      <3> HIDE DEF x, m
      <3> QED BY <1>2, <2>4, PutLast
    <2>7. \A n \in 1 .. Len(fr) : FrameOK(fr[n])
      <3> HIDE DEF x, m, fr
      <3> QED BY <1>2, <2>5, <2>6
    <2>8. Len(fr) \in Nat
      BY <2>6 DEF IsSeq
    <2> HIDE DEF fr, t, x, p, v, f, size
    <2>9. Grown(c, t)
      <3>1. /\ DOMAIN t = {"frames", "sum", "re", "new"} /\ t.frames = fr
            /\ t.new \in Seq(Pages) /\ t.re \in Nat
        BY <1>2, <2>2, <2>3
      <3>2. Len(wal.frames) <= Len(fr)
        BY <1>2, <2>6, <2>8
      <3>3. wc[c].hdr.mxFrame + Len(t.new) <= Len(fr)
        BY <1>1, <1>2, <2>3, <2>6, <2>8
      <3> QED BY <2>6, <2>7, <3>1, <3>2, <3>3 DEF Grown
    <2> QED BY <2>9 DEF t
  <1> QED BY <1>3, <1>4

(* After any number of pages, and with the checksums made good. *)
LEMMA WrittenGrows ==
  ASSUME NEW c \in Conns, FilesOK, Conn(c), tx[c].on, wc[c].hdr.mxFrame <= Len(wal.frames)
  PROVE  \A k \in 0 .. Len(job[c].list) : Grown(c, Written(c)[k])
  <1> DEFINE N == Len(job[c].list)
             T == {k \in 0 .. N : ~Grown(c, Written(c)[k])}
  <1>0. N \in Nat /\ T \subseteq Nat /\ T \subseteq 0 .. N /\ job[c].list \in Seq(Pages)
    BY DEF Conn, ConnOf
  <1>1. SUFFICES ASSUME T # {} PROVE FALSE
    OBVIOUS
  <1>2. PICK k \in T : \A y \in T : k <= y
    <2> HIDE DEF T
    <2> QED BY <1>0, <1>1, LeastOf
  <1>3. ~Grown(c, Written(c)[k]) /\ k \in 0 .. N
    BY <1>2
  <1>4. CASE k = 0
    <2>1. /\ wc[c].iReCksum \in Nat /\ wc[c].hdr.mxFrame \in Nat
          /\ IsSeq(wal.frames) /\ \A n \in 1 .. Len(wal.frames) : FrameOK(wal.frames[n])
      BY DEF Conn, ConnOf, HdrOK, FilesOK, LogOK
    <2>2. Grown(c, Unwritten(c))
      BY <2>1 DEF Grown, Unwritten, IsSeq
    <2> QED BY <1>0, <1>3, <1>4, <2>2, WrittenIs
  <1>5. CASE k # 0
    <2>1. k \in 1 .. N /\ k - 1 \in 0 .. N /\ k - 1 \notin T
      <3> HIDE DEF T, N
      <3> QED BY <1>0, <1>2, <1>3, <1>5
    <2>2. Grown(c, Written(c)[k - 1])
      BY <2>1
    <2>3. Written(c)[k] = PageWritten(c, k, Written(c)[k - 1])
      BY <1>0, <2>1, WrittenIs
    <2>4. Grown(c, PageWritten(c, k, Written(c)[k - 1]))
      BY <2>1, <2>2, PageWrittenGrows
    <2> QED BY <1>3, <2>3, <2>4
  <1> QED BY <1>4, <1>5

LEMMA AllWrittenGrows ==
  ASSUME NEW c \in Conns, FilesOK, Conn(c), tx[c].on, wc[c].hdr.mxFrame <= Len(wal.frames)
  PROVE  Grown(c, AllWritten(c))
  <1> DEFINE s == Written(c)[Len(job[c].list)]
             sum == NewSums(c, s)
  <1>1. Grown(c, s)
    <2>1. Len(job[c].list) \in 0 .. Len(job[c].list)
      BY DEF Conn, ConnOf
    <2> QED BY <2>1, WrittenGrows
  <1> HIDE DEF s
  <1>2. CASE ~job[c].commit \/ s.re = 0
    BY <1>1, <1>2 DEF AllWritten, Rechecked, s
  <1>3. CASE ~(~job[c].commit \/ s.re = 0)
    <2> DEFINE fr == [n \in DOMAIN s.frames |->
                         IF n \in s.re .. LastWritten(c, s)
                         THEN [s.frames[n] EXCEPT !.sum = sum[n]] ELSE s.frames[n]]
               t == [s EXCEPT !.re = 0, !.sum = sum[LastWritten(c, s)], !.frames = fr]
    <2>1. AllWritten(c) = t
      BY <1>3 DEF AllWritten, Rechecked, s
    <2> HIDE DEF sum
    <2>2. /\ DOMAIN t = {"frames", "sum", "re", "new"} /\ t.new = s.new /\ t.re = 0
          /\ t.frames = fr
      <3> HIDE DEF fr
      <3> QED BY <1>1 DEF Grown
    <2>3. /\ fr = [n \in 1 .. Len(s.frames) |-> fr[n]] /\ Len(s.frames) \in Nat
      BY <1>1 DEF Grown, IsSeq
    <2>4. Len(fr) = Len(s.frames) /\ IsSeq(fr)
      <3> HIDE DEF fr
      <3> QED BY <2>3, LenOf
    <2>5. \A n \in 1 .. Len(s.frames) : FrameOK(fr[n])
      <3> TAKE n \in 1 .. Len(s.frames)
      <3>1. FrameOK(s.frames[n]) /\ n \in DOMAIN s.frames
        BY <1>1 DEF Grown, IsSeq
      <3>2. fr[n] = s.frames[n] \/ fr[n] = [s.frames[n] EXCEPT !.sum = sum[n]]
        BY <3>1
      <3> HIDE DEF fr
      <3> QED BY <3>1, <3>2 DEF FrameOK
    <2> HIDE DEF fr, t
    <2>6. Grown(c, t)
      BY <1>1, <2>2, <2>4, <2>5 DEF Grown
    <2> QED BY <2>1, <2>6
  <1> QED BY <1>2, <1>3

LEMMA AllWrittenOK ==
  ASSUME NEW c \in Conns, FilesOK, Conn(c), tx[c].on, wc[c].hdr.mxFrame <= Len(wal.frames)
  PROVE  AllWritten(c).new \in Seq(Pages) /\ AllWritten(c).re \in Nat
BY AllWrittenGrows DEF Grown

-----------------------------------------------------------------------------
(* A step of connection c leaves the others where they are.                *)
Unmoved(c) ==
    \A d \in Others(c) :
        pc'[d] = pc[d] /\ job'[d] = job[d] /\ wc'[d] = wc[d] /\ tx'[d] = tx[d]

LEMMA ConnsKept ==
  ASSUME \A d \in Conns : Conn(d), NEW c \in Conns, Unmoved(c), Conn(c)'
  PROVE  \A d \in Conns : Conn(d)'
  <1> TAKE d \in Conns
  <1>1. CASE d = c
    BY <1>1
  <1>2. CASE d # c
    BY <1>2 DEF Unmoved, Others, Conn
  <1> QED BY <1>1, <1>2

LEMMA ClosingsKept ==
  ASSUME ClosingsOK, NEW c \in Conns, Unmoved(c),
         Closing(c)' => Closing(c) \/ \A d \in Others(c) : At(d, "closed"),
         pc[c] = "closed" => \A d \in Others(c) : ~Closing(d)
  PROVE  ClosingsOK'
  <1> SUFFICES ASSUME NEW d \in Conns, Closing(d)', NEW e \in Others(d) PROVE pc'[e] = "closed"
    BY DEF ClosingsOK, At
  <1>1. CASE d = c
    BY <1>1 DEF Unmoved, Others, ClosingsOK, At
  <1>2. CASE d # c
    <2>1. d \in Others(c) /\ Closing(d) /\ pc[e] = "closed"
      BY <1>2 DEF Unmoved, Others, ClosingsOK, Closing, At
    <2>2. e # c
      BY <2>1
    <2> QED BY <2>1, <2>2 DEF Unmoved, Others
  <1> QED BY <1>1, <1>2

LEMMA LogLengths ==
  ASSUME Types
  PROVE  /\ Len(wal.frames) \in Nat /\ Len(walDisk.frames) \in Nat /\ LiveHdr.mxFrame \in Nat
         /\ \A d \in Conns : /\ Reached(d) \in Nat /\ wc[d].hdr.mxFrame \in Nat
                             /\ Len(job[d].new) \in Nat /\ wc[d].hdr.mxFrame <= Reached(d)
  <1>1. Len(wal.frames) \in Nat /\ Len(walDisk.frames) \in Nat /\ LiveHdr.mxFrame \in Nat
    BY DEF Types, FilesOK, LogOK, IsSeq, SharedOK, HdrOK
  <1>2. \A d \in Conns : wc[d].hdr.mxFrame \in Nat /\ Len(job[d].new) \in Nat
    BY DEF Types, Conn, ConnOf, HdrOK
  <1> QED BY <1>1, <1>2 DEF Reached

LEMMA LengthsKept ==
  ASSUME Types, LengthsOK, NEW c \in Conns, Unmoved(c), LengthOf(c)', LiveHdr' = LiveHdr,
         Len(wal'.frames) \in Nat, Len(wal.frames) <= Len(wal'.frames)
  PROVE  LengthsOK'
  <1>1. \A d \in Others(c) : LengthOf(d)'
    <2> TAKE d \in Others(c)
    <2>1. LengthOf(d) /\ Reached(d) \in Nat /\ Reached(d)' = Reached(d)
      BY LogLengths DEF Others, LengthsOK, Unmoved, Reached
    <2> QED BY <2>1, LogLengths DEF LengthOf, Unmoved
  <1> QED BY <1>1, LogLengths DEF LengthsOK, Others

(* The holder of the WRITE lock is alone with it.                          *)
LEMMA WriterAlone ==
  ASSUME LInv, NEW c \in Conns, Excl(c, WAL_WRITE_LOCK), NEW d \in Others(c)
  PROVE  ~tx[d].on /\ pc[d] \notin {"recover2", "restart2", "trunclog"}
  <1>1. ~Excl(d, WAL_WRITE_LOCK) /\ Local(d)
    BY WalAssumption DEF LInv, Exclusion, Others, Slots, WAL_WRITE_LOCK, WAL_READ_LOCK
  <1> QED BY <1>1 DEF Excl, ExclOf, Local, ControlOf, Recovery, RestartPcs, MarkPcs, FramePcs,
                      HdrPcs, CopyPcs, ScanPcs, CkptPcs

(* What is there to know of a step of c.                                   *)
LEMMA StepParts ==
  ASSUME TInv, NEW c \in Conns, Unmoved(c), Conn(c)',
         SharedOK', FilesOK', CountersOK', CacheOK', LengthsOK',
         Closing(c)' => Closing(c) \/ \A d \in Others(c) : At(d, "closed"),
         pc[c] = "closed" => \A d \in Others(c) : ~Closing(d)
  PROVE  Types' /\ ClosingsOK' /\ LengthsOK'
  <1>1. ClosingsOK'
    BY ClosingsKept DEF TInv
  <1>2. \A d \in Conns : Conn(d)'
    BY ConnsKept DEF TInv, Types
  <1> QED BY <1>1, <1>2 DEF Types

(* Nobody else counts frames while c has the WRITE lock.                   *)
LEMMA LengthsMoved ==
  ASSUME LInv, NEW c \in Conns, Unmoved(c), Excl(c, WAL_WRITE_LOCK), LengthOf(c)',
         LiveHdr'.mxFrame <= Len(wal'.frames)
  PROVE  LengthsOK'
  <1>1. \A d \in Others(c) : LengthOf(d)'
    BY WriterAlone DEF Unmoved, LengthOf
  <1> QED BY <1>1 DEF LengthsOK, Others

LEMMA CacheKept ==
  ASSUME CacheOK, NEW c \in Conns, NEW x, DOMAIN x \subseteq Pages,
         cache' = cache \/ cache' = [cache EXCEPT ![c] = x]
  PROVE  CacheOK'
BY DEF CacheOK

LEMMA CacheLost ==
  ASSUME CacheOK, NEW c \in Conns,
         cache' = cache \/ cache' = [cache EXCEPT ![c] = <<>>]
  PROVE  CacheOK'
  <1>1. DOMAIN <<>> \subseteq Pages
    OBVIOUS
  <1> QED BY <1>1, CacheKept

LEMMA SharedKept ==
  ASSUME SharedOK, DOMAIN shm' = DOMAIN shm, shm'.hdr = shm.hdr, shm'.nBackfill \in Nat,
         shm'.aReadMark \in [0 .. WAL_NREADER - 1 -> Nat]
  PROVE  SharedOK'
BY DEF SharedOK, LiveHdr

LEMMA LiveMoved ==
  ASSUME SharedOK, NEW h, HdrOK(h), Sized(h), shm' = [shm EXCEPT !.hdr[1] = h]
  PROVE  SharedOK' /\ LiveHdr' = h
  <1>1. /\ DOMAIN shm' = DOMAIN shm /\ shm'.nBackfill = shm.nBackfill
        /\ shm'.aReadMark = shm.aReadMark
        /\ shm'.hdr = [shm.hdr EXCEPT ![1] = h]
    BY DEF SharedOK
  <1>2. DOMAIN shm'.hdr = {1, 2} /\ shm'.hdr[1] = h
    BY <1>1 DEF SharedOK
  <1> QED BY <1>1, <1>2 DEF SharedOK, LiveHdr

LEMMA DbSized ==
  ASSUME NEW n \in Pages, NEW f
  PROVE  DbOK([q \in 1 .. n |-> f[q]])
  <1> DEFINE g == [q \in 1 .. n |-> f[q]]
  <1>1. n \in Nat /\ g = [q \in 1 .. n |-> g[q]]
    BY DEF Pages
  <1>2. Len(g) = n /\ IsSeq(g)
    <2> HIDE DEF g
    <2> QED BY <1>1, LenOf
  <1> QED BY <1>2 DEF DbOK

LEMMA EmptyOK == LogOK(EmptyLog) /\ Len(EmptyLog.frames) = 0
  <1>1. Len(<<>>) = 0 /\ <<>> = [n \in 1 .. 0 |-> <<>>[n]]
    OBVIOUS
  <1> QED BY <1>1 DEF LogOK, EmptyLog, IsSeq

LEMMA Zeros == HdrOK(ZeroHdr) /\ Sized(ZeroHdr) /\ ZeroHdr.mxFrame = 0 /\ <<>> \in Seq(Pages)
  <1>1. 0 \in Sizes
    BY WalAssumption DEF Sizes
  <1> QED BY <1>1 DEF HdrOK, Sized, ZeroHdr

LEMMA TypesNumbers == ASSUME LInv, Types PROVE MarkNumbers
BY DEF Types, SharedOK, Conn, ConnOf, HdrOK, MarkNumbers

LEMMA LargestPage ==
  ASSUME NEW p \in Pages, NEW q \in Pages
  PROVE  Largest({p, q}) \in Pages
  <1>1. {p, q} \subseteq 0 .. MaxPage /\ {p, q} # {} /\ MaxPage \in Nat
    BY WalAssumption DEF Pages
  <1>2. Largest({p, q}) \in {p, q}
    BY <1>1, LargestOf
  <1> QED BY <1>2

LEMMA ViewOK ==
  ASSUME LInv, NEW c \in Conns, Conn(c), FilesOK
  PROVE  Len(View(c)) \in Pages /\ DOMAIN View(c) \subseteq Pages
  <1> DEFINE n == IF tx[c].on THEN tx[c].size ELSE SizeBy(wc[c].hdr, db)
  <1>1. n \in Pages
    <2>1. CASE tx[c].on
      BY <2>1 DEF Conn, ConnOf
    <2>2. CASE ~tx[c].on
      BY <2>2, WalAssumption DEF Conn, ConnOf, HdrOK, SizeBy, FilesOK, DbOK, Sizes, Pages
    <2> QED BY <2>1, <2>2
  <1>2. \A p \in 1 .. n : p \in Pages
    BY <1>1, WalAssumption DEF Pages
  <1>3. n \in Nat
    BY <1>1 DEF Pages
  <1>4. DOMAIN View(c) = 1 .. n /\ View(c) = [p \in 1 .. n |-> View(c)[p]]
    BY DEF View
  <1>5. Len(View(c)) = n
    <2> HIDE DEF n
    <2> QED BY <1>3, <1>4, LenOf
  <1> QED BY <1>1, <1>2, <1>4, <1>5

LEMMA BeginReadConn ==
  ASSUME LInv, SharedOK, NEW c \in Conns, Conn(c), BeginRead(c)
  PROVE  Conn(c)'
  <1>0. pc[c] = "idle" /\ ~(wc[c].readLock >= 0)
    BY DEF BeginRead, Reading, Step, At
  <1>s. Shaped
    BY DEF LInv, Shaped, Local
  <1>l. Local(c)
    BY DEF LInv
  <1>c. Conn(c) /\ HdrOK(LiveHdr) /\ Sized(LiveHdr)
    BY DEF SharedOK
  <1>1. Becomes(c, "tryhdr", [NoJob EXCEPT !.kind = "read"],
             wc[c], tx[c])
    BY <1>s, BeginReadDoes
  <1> QED BY <1>0, <1>l, <1>c, <1>1, Zeros DEF Becomes, Conn, ConnOf, Local,
     ShapeOf, ControlOf, NoJob, HdrPcs, Recovery, MarkPcs, RestartPcs,
     FramePcs, CopyPcs, ScanPcs, CkptPcs, Marks

LEMMA TryHdrConn ==
  ASSUME LInv, SharedOK, NEW c \in Conns, Conn(c), TryHdr(c)
  PROVE  Conn(c)'
  <1>0. pc[c] = "tryhdr"
    BY DEF TryHdr, Step, At
  <1>s. Shaped
    BY DEF LInv, Shaped, Local
  <1>l. Local(c)
    BY DEF LInv
  <1>c. Conn(c) /\ HdrOK(LiveHdr) /\ Sized(LiveHdr)
    BY DEF SharedOK
  <1>1. Becomes(c, "tryhdr2", [job[c] EXCEPT !.h1 = LiveHdr],
             wc[c], tx[c])
    BY <1>s, TryHdrDoes
  <1> QED BY <1>0, <1>l, <1>c, <1>1, Zeros DEF Becomes, Conn, ConnOf, Local,
     ShapeOf, ControlOf, HdrPcs, Recovery, MarkPcs, RestartPcs, FramePcs,
     CopyPcs, ScanPcs, CkptPcs, Marks

LEMMA TryHdr2Conn ==
  ASSUME LInv, SharedOK, NEW c \in Conns, Conn(c), TryHdr2(c)
  PROVE  Conn(c)'
  <1>0. pc[c] = "tryhdr2"
    BY DEF TryHdr2, Step, At
  <1>s. Shaped
    BY DEF LInv, Shaped, Local
  <1>l. Local(c)
    BY DEF LInv
  <1>c. Conn(c) /\ HdrOK(LiveHdr) /\ Sized(LiveHdr)
    BY DEF SharedOK
  <1>1. CASE job[c].h1 = shm.hdr[2] /\ job[c].h1.isInit
    <2>1. Becomes(c, AfterHdr(c), [job[c] EXCEPT !.h1 = ZeroHdr, !.changed = @ \/ job[c].h1 # wc[c].hdr],
               [wc[c] EXCEPT !.hdr = job[c].h1], tx[c])
      BY <1>s, TryHdr2Does, <1>1
    <2> QED BY <1>0, <1>l, <1>c, <1>1, <2>1, Zeros DEF Becomes, Conn, ConnOf,
       Local, ShapeOf, ControlOf, HdrPcs, Recovery, MarkPcs, RestartPcs,
       FramePcs, CopyPcs, ScanPcs, CkptPcs, Marks, AfterHdr
  <1>2. CASE ~(job[c].h1 = shm.hdr[2] /\ job[c].h1.isInit)
    <2>1. Becomes(c, "badhdr", [job[c] EXCEPT !.h1 = ZeroHdr],
               wc[c], tx[c])
      BY <1>s, TryHdr2Does, <1>2
    <2> QED BY <1>0, <1>l, <1>c, <1>2, <2>1, Zeros DEF Becomes, Conn, ConnOf,
       Local, ShapeOf, ControlOf, HdrPcs, Recovery, MarkPcs, RestartPcs,
       FramePcs, CopyPcs, ScanPcs, CkptPcs, Marks, AfterHdr
  <1> QED BY <1>1, <1>2

LEMMA BadHdrConn ==
  ASSUME LInv, SharedOK, NEW c \in Conns, Conn(c), BadHdr(c)
  PROVE  Conn(c)'
  <1>0. pc[c] = "badhdr"
    BY DEF BadHdr, Step, At
  <1>s. Shaped
    BY DEF LInv, Shaped, Local
  <1>l. Local(c)
    BY DEF LInv
  <1>c. Conn(c) /\ HdrOK(LiveHdr) /\ Sized(LiveHdr)
    BY DEF SharedOK
  <1>1. CASE shm.hdr[1] = shm.hdr[2] /\ LiveHdr.isInit
    <2>1. Becomes(c, AfterHdr(c), [job[c] EXCEPT !.h1 = ZeroHdr, !.changed = @ \/ LiveHdr # wc[c].hdr],
               [wc[c] EXCEPT !.hdr = LiveHdr], tx[c])
      BY <1>s, BadHdrDoes, <1>1
    <2> QED BY <1>0, <1>l, <1>c, <1>1, <2>1, Zeros DEF Becomes, Conn, ConnOf,
       Local, ShapeOf, ControlOf, HdrPcs, Recovery, MarkPcs, RestartPcs,
       FramePcs, CopyPcs, ScanPcs, CkptPcs, Marks, AfterHdr
  <1>2. CASE ~(shm.hdr[1] = shm.hdr[2] /\ LiveHdr.isInit)
    <2>1. Becomes(c, "recover", job[c],
               wc[c], tx[c])
      BY <1>s, BadHdrDoes, <1>2
    <2> QED BY <1>0, <1>l, <1>c, <1>2, <2>1, Zeros DEF Becomes, Conn, ConnOf,
       Local, ShapeOf, ControlOf, HdrPcs, Recovery, MarkPcs, RestartPcs,
       FramePcs, CopyPcs, ScanPcs, CkptPcs, Marks, AfterHdr
  <1> QED BY <1>1, <1>2

LEMMA BadHdrBusyConn ==
  ASSUME LInv, SharedOK, NEW c \in Conns, Conn(c), BadHdrBusy(c)
  PROVE  Conn(c)'
  <1>0. pc[c] = "badhdr"
    BY DEF BadHdrBusy, Step, At
  <1>s. Shaped
    BY DEF LInv, Shaped, Local
  <1>l. Local(c)
    BY DEF LInv
  <1>c. Conn(c) /\ HdrOK(LiveHdr) /\ Sized(LiveHdr)
    BY DEF SharedOK
  <1>1. CASE job[c].kind = "ckpt"
    <2>1. Becomes(c, "ckptend", [job[c] EXCEPT !.ok = FALSE],
               wc[c], tx[c])
      BY <1>s, BadHdrBusyDoes, <1>1
    <2> QED BY <1>0, <1>l, <1>c, <1>1, <2>1, Zeros DEF Becomes, Conn, ConnOf,
       Local, ShapeOf, ControlOf, HdrPcs, Recovery, MarkPcs, RestartPcs,
       FramePcs, CopyPcs, ScanPcs, CkptPcs, Marks
  <1>2. CASE job[c].kind # "ckpt" /\ Sharable(WAL_RECOVER_LOCK)
    <2>1. Becomes(c, "tryhdr", job[c],
               wc[c], tx[c])
      BY <1>s, BadHdrBusyDoes, <1>2
    <2> QED BY <1>0, <1>l, <1>c, <1>2, <2>1, Zeros DEF Becomes, Conn, ConnOf,
       Local, ShapeOf, ControlOf, HdrPcs, Recovery, MarkPcs, RestartPcs,
       FramePcs, CopyPcs, ScanPcs, CkptPcs, Marks
  <1>3. CASE job[c].kind # "ckpt" /\ ~Sharable(WAL_RECOVER_LOCK)
    <2>1. Becomes(c, "idle", NoJob,
               wc[c], tx[c])
      BY <1>s, BadHdrBusyDoes, <1>3
    <2> QED BY <1>0, <1>l, <1>c, <1>3, <2>1, Zeros DEF Becomes, Conn, ConnOf,
       Local, ShapeOf, ControlOf, NoJob, HdrPcs, Recovery, MarkPcs,
       RestartPcs, FramePcs, CopyPcs, ScanPcs, CkptPcs, Marks
  <1> QED BY <1>1, <1>2, <1>3

LEMMA RecoverLockConn ==
  ASSUME LInv, SharedOK, NEW c \in Conns, Conn(c), RecoverLock(c)
  PROVE  Conn(c)'
  <1>0. pc[c] = "recover"
    BY DEF RecoverLock, Step, At
  <1>s. Shaped
    BY DEF LInv, Shaped, Local
  <1>l. Local(c)
    BY DEF LInv
  <1>c. Conn(c) /\ HdrOK(LiveHdr) /\ Sized(LiveHdr)
    BY DEF SharedOK
  <1>1. Becomes(c, "recover1", job[c],
             wc[c], tx[c])
    BY <1>s, RecoverLockDoes
  <1> QED BY <1>0, <1>l, <1>c, <1>1, Zeros DEF Becomes, Conn, ConnOf, Local,
     ShapeOf, ControlOf, HdrPcs, Recovery, MarkPcs, RestartPcs, FramePcs,
     CopyPcs, ScanPcs, CkptPcs, Marks

LEMMA RecoverBusyConn ==
  ASSUME LInv, SharedOK, NEW c \in Conns, Conn(c), RecoverBusy(c)
  PROVE  Conn(c)'
  <1>0. pc[c] = "recover"
    BY DEF RecoverBusy, Step, At
  <1>s. Shaped
    BY DEF LInv, Shaped, Local
  <1>l. Local(c)
    BY DEF LInv
  <1>c. Conn(c) /\ HdrOK(LiveHdr) /\ Sized(LiveHdr)
    BY DEF SharedOK
  <1>1. CASE OwnWrite(c) /\ job[c].kind = "ckpt"
    <2>1. Becomes(c, "ckptend", [job[c] EXCEPT !.changed = TRUE, !.ok = FALSE],
               wc[c], tx[c])
      BY <1>s, RecoverBusyDoes, <1>1
    <2> QED BY <1>0, <1>l, <1>c, <1>1, <2>1, Zeros DEF Becomes, Conn, ConnOf,
       Local, ShapeOf, ControlOf, HdrPcs, Recovery, MarkPcs, RestartPcs,
       FramePcs, CopyPcs, ScanPcs, CkptPcs, Marks, OwnWrite
  <1>2. CASE OwnWrite(c) /\ job[c].kind # "ckpt" /\ Sharable(WAL_RECOVER_LOCK)
    <2>1. Becomes(c, "tryhdr", [job[c] EXCEPT !.changed = TRUE],
               wc[c], tx[c])
      BY <1>s, RecoverBusyDoes, <1>2
    <2> QED BY <1>0, <1>l, <1>c, <1>2, <2>1, Zeros DEF Becomes, Conn, ConnOf,
       Local, ShapeOf, ControlOf, HdrPcs, Recovery, MarkPcs, RestartPcs,
       FramePcs, CopyPcs, ScanPcs, CkptPcs, Marks, OwnWrite
  <1>3. CASE OwnWrite(c) /\ job[c].kind # "ckpt" /\ ~Sharable(WAL_RECOVER_LOCK)
    <2>1. Becomes(c, "idle", NoJob,
               wc[c], tx[c])
      BY <1>s, RecoverBusyDoes, <1>3
    <2> QED BY <1>0, <1>l, <1>c, <1>3, <2>1, Zeros DEF Becomes, Conn, ConnOf,
       Local, ShapeOf, ControlOf, NoJob, HdrPcs, Recovery, MarkPcs,
       RestartPcs, FramePcs, CopyPcs, ScanPcs, CkptPcs, Marks, OwnWrite
  <1>4. CASE ~OwnWrite(c) /\ job[c].kind = "ckpt"
    <2>1. Becomes(c, "ckptend", [job[c] EXCEPT !.changed = TRUE, !.ok = FALSE],
               wc[c], tx[c])
      BY <1>s, RecoverBusyDoes, <1>4
    <2> QED BY <1>0, <1>l, <1>c, <1>4, <2>1, Zeros DEF Becomes, Conn, ConnOf,
       Local, ShapeOf, ControlOf, HdrPcs, Recovery, MarkPcs, RestartPcs,
       FramePcs, CopyPcs, ScanPcs, CkptPcs, Marks, OwnWrite
  <1>5. CASE ~OwnWrite(c) /\ job[c].kind # "ckpt" /\ Sharable(WAL_RECOVER_LOCK)
    <2>1. Becomes(c, "tryhdr", [job[c] EXCEPT !.changed = TRUE],
               wc[c], tx[c])
      BY <1>s, RecoverBusyDoes, <1>5
    <2> QED BY <1>0, <1>l, <1>c, <1>5, <2>1, Zeros DEF Becomes, Conn, ConnOf,
       Local, ShapeOf, ControlOf, HdrPcs, Recovery, MarkPcs, RestartPcs,
       FramePcs, CopyPcs, ScanPcs, CkptPcs, Marks, OwnWrite
  <1>6. CASE ~OwnWrite(c) /\ job[c].kind # "ckpt" /\ ~Sharable(WAL_RECOVER_LOCK)
    <2>1. Becomes(c, "idle", NoJob,
               wc[c], tx[c])
      BY <1>s, RecoverBusyDoes, <1>6
    <2> QED BY <1>0, <1>l, <1>c, <1>6, <2>1, Zeros DEF Becomes, Conn, ConnOf,
       Local, ShapeOf, ControlOf, NoJob, HdrPcs, Recovery, MarkPcs,
       RestartPcs, FramePcs, CopyPcs, ScanPcs, CkptPcs, Marks, OwnWrite
  <1> QED BY <1>1, <1>2, <1>3, <1>4, <1>5, <1>6

LEMMA RecoverLogConn ==
  ASSUME LInv, SharedOK, NEW c \in Conns, FilesOK, Conn(c), RecoverLog(c)
  PROVE  Conn(c)'
  <1>0. pc[c] = "recover1"
    BY DEF RecoverLog, Step, At
  <1>s. Shaped
    BY DEF LInv, Shaped, Local
  <1>l. Local(c)
    BY DEF LInv
  <1>c. Conn(c) /\ HdrOK(LiveHdr) /\ Sized(LiveHdr)
    BY DEF SharedOK
  <1>m. HdrOK(RecoveredHdr(wal)) /\ Sized(RecoveredHdr(wal))
    BY RecoveredOK DEF FilesOK
  <1>1. Becomes(c, "recover2", job[c],
             [wc[c] EXCEPT !.hdr = RecoveredHdr(wal), !.nCkpt = IF HasFrames(wal) THEN wal.nCkpt ELSE @], tx[c])
    BY <1>s, RecoverLogDoes
  <1> QED BY <1>0, <1>l, <1>c, <1>1, <1>m, Zeros DEF Becomes, Conn, ConnOf,
     Local, ShapeOf, ControlOf, HdrPcs, Recovery, MarkPcs, RestartPcs,
     FramePcs, CopyPcs, ScanPcs, CkptPcs, Marks

LEMMA RecoverHdr0Conn ==
  ASSUME LInv, SharedOK, NEW c \in Conns, Conn(c), RecoverHdr0(c)
  PROVE  Conn(c)'
  <1>0. pc[c] = "recover2"
    BY DEF RecoverHdr0, Step, At
  <1>s. Shaped
    BY DEF LInv, Shaped, Local
  <1>l. Local(c)
    BY DEF LInv
  <1>c. Conn(c) /\ HdrOK(LiveHdr) /\ Sized(LiveHdr)
    BY DEF SharedOK
  <1>1. Becomes(c, "recover3", job[c],
             wc[c], tx[c])
    BY <1>s, RecoverHdr0Does
  <1> QED BY <1>0, <1>l, <1>c, <1>1, Zeros DEF Becomes, Conn, ConnOf, Local,
     ShapeOf, ControlOf, HdrPcs, Recovery, MarkPcs, RestartPcs, FramePcs,
     CopyPcs, ScanPcs, CkptPcs, Marks

LEMMA RecoverInfoConn ==
  ASSUME LInv, SharedOK, NEW c \in Conns, Conn(c), RecoverInfo(c)
  PROVE  Conn(c)'
  <1>0. pc[c] = "recover3"
    BY DEF RecoverInfo, Step, At
  <1>s. Shaped
    BY DEF LInv, Shaped, Local
  <1>l. Local(c)
    BY DEF LInv
  <1>c. Conn(c) /\ HdrOK(LiveHdr) /\ Sized(LiveHdr)
    BY DEF SharedOK
  <1>1. Becomes(c, AfterHdr(c), [job[c] EXCEPT !.changed = TRUE],
             wc[c], tx[c])
    BY <1>s, RecoverInfoDoes
  <1> QED BY <1>0, <1>l, <1>c, <1>1, Zeros DEF Becomes, Conn, ConnOf, Local,
     ShapeOf, ControlOf, HdrPcs, Recovery, MarkPcs, RestartPcs, FramePcs,
     CopyPcs, ScanPcs, CkptPcs, Marks, AfterHdr, OwnWrite

LEMMA ChooseDbConn ==
  ASSUME LInv, SharedOK, NEW c \in Conns, Conn(c), ChooseDb(c)
  PROVE  Conn(c)'
  <1>0. pc[c] = "choose"
    BY DEF ChooseDb, Step, At
  <1>s. Shaped
    BY DEF LInv, Shaped, Local
  <1>l. Local(c)
    BY DEF LInv
  <1>c. Conn(c) /\ HdrOK(LiveHdr) /\ Sized(LiveHdr)
    BY DEF SharedOK
  <1>1. Becomes(c, "check0", job[c],
             wc[c], tx[c])
    BY <1>s, ChooseDbDoes
  <1> QED BY <1>0, <1>l, <1>c, <1>1, Zeros DEF Becomes, Conn, ConnOf, Local,
     ShapeOf, ControlOf, HdrPcs, Recovery, MarkPcs, RestartPcs, FramePcs,
     CopyPcs, ScanPcs, CkptPcs, Marks

LEMMA Check0Conn ==
  ASSUME LInv, SharedOK, NEW c \in Conns, Conn(c), Check0(c)
  PROVE  Conn(c)'
  <1>0. pc[c] = "check0"
    BY DEF Check0, Step, At
  <1>s. Shaped
    BY DEF LInv, Shaped, Local
  <1>l. Local(c)
    BY DEF LInv
  <1>c. Conn(c) /\ HdrOK(LiveHdr) /\ Sized(LiveHdr)
    BY DEF SharedOK
  <1>1. CASE wc[c].hdr = LiveHdr /\ job[c].useWal
    <2>1. Becomes(c, "log", [job[c] EXCEPT !.useWal = FALSE],
               [wc[c] EXCEPT !.readLock = 0], tx[c])
      BY <1>s, Check0Does, <1>1
    <2> QED BY <1>0, <1>l, <1>c, <1>1, <2>1, Zeros DEF Becomes, Conn, ConnOf,
       Local, ShapeOf, ControlOf, HdrPcs, Recovery, MarkPcs, RestartPcs,
       FramePcs, CopyPcs, ScanPcs, CkptPcs, Marks
  <1>2. CASE wc[c].hdr = LiveHdr /\ ~job[c].useWal
    <2>1. Becomes(c, "idle", NoJob,
               [wc[c] EXCEPT !.readLock = 0], tx[c])
      BY <1>s, Check0Does, <1>2
    <2> QED BY <1>0, <1>l, <1>c, <1>2, <2>1, Zeros DEF Becomes, Conn, ConnOf,
       Local, ShapeOf, ControlOf, NoJob, HdrPcs, Recovery, MarkPcs,
       RestartPcs, FramePcs, CopyPcs, ScanPcs, CkptPcs, Marks
  <1>3. CASE wc[c].hdr # LiveHdr
    <2>1. Becomes(c, IF job[c].useWal THEN "scan" ELSE "tryhdr", [job[c] EXCEPT !.mxI = 0, !.mark = 0],
               wc[c], tx[c])
      BY <1>s, Check0Does, <1>3
    <2> QED BY <1>0, <1>l, <1>c, <1>3, <2>1, Zeros DEF Becomes, Conn, ConnOf,
       Local, ShapeOf, ControlOf, HdrPcs, Recovery, MarkPcs, RestartPcs,
       FramePcs, CopyPcs, ScanPcs, CkptPcs, Marks
  <1> QED BY <1>1, <1>2, <1>3

LEMMA ScanConn ==
  ASSUME LInv, SharedOK, NEW c \in Conns, MarkNumbers, Conn(c), Scan(c)
  PROVE  Conn(c)'
  <1>0. pc[c] \in {"choose", "scan"}
    BY DEF Scan, Step, At
  <1>s. Shaped
    BY DEF LInv, Shaped, Local
  <1>l. Local(c)
    BY DEF LInv
  <1>c. Conn(c) /\ HdrOK(LiveHdr) /\ Sized(LiveHdr)
    BY DEF SharedOK
  <1>m. Usable(c) # {} => shm.aReadMark[BestMark(c)] \in Nat
    BY BestMarkUsable, WalAssumption DEF Usable, SharedOK
  <1>1. CASE Usable(c) = {}
    <2>1. Becomes(c, "setmark", job[c],
               wc[c], tx[c])
      BY <1>s, ScanDoes, <1>1
    <2> QED BY <1>0, <1>l, <1>c, <1>1, <2>1, <1>m, Zeros DEF Becomes, Conn,
       ConnOf, Local, ShapeOf, ControlOf, HdrPcs, Recovery, MarkPcs,
       RestartPcs, FramePcs, CopyPcs, ScanPcs, CkptPcs, Marks
  <1>2. CASE Usable(c) # {}
    <2>1. Becomes(c, IF shm.aReadMark[BestMark(c)] < wc[c].hdr.mxFrame THEN "setmark" ELSE "lockmark", [job[c] EXCEPT !.mxI = BestMark(c), !.mark = shm.aReadMark[BestMark(c)]],
               wc[c], tx[c])
      BY <1>s, ScanDoes, <1>2
    <2> QED BY <1>0, <1>l, <1>c, <1>2, <2>1, <1>m, Zeros DEF Becomes, Conn,
       ConnOf, Local, ShapeOf, ControlOf, HdrPcs, Recovery, MarkPcs,
       RestartPcs, FramePcs, CopyPcs, ScanPcs, CkptPcs, Marks
  <1> QED BY <1>1, <1>2

LEMMA SetMarkConn ==
  ASSUME LInv, SharedOK, NEW c \in Conns, Conn(c), SetMark(c)
  PROVE  Conn(c)'
  <1>0. pc[c] = "setmark"
    BY DEF SetMark, Step, At
  <1>s. Shaped
    BY DEF LInv, Shaped, Local
  <1>l. Local(c)
    BY DEF LInv
  <1>c. Conn(c) /\ HdrOK(LiveHdr) /\ Sized(LiveHdr)
    BY DEF SharedOK
  <1>m. wc[c].hdr.mxFrame \in Nat
    BY <1>c DEF Conn, ConnOf, HdrOK
  <1>1. CASE FreeMarks # {}
    <2>1. Becomes(c, "lockmark", [job[c] EXCEPT !.mxI = FirstFree, !.mark = wc[c].hdr.mxFrame],
               wc[c], tx[c])
      BY <1>s, SetMarkDoes, <1>1
    <2> QED BY <1>0, <1>l, <1>c, <1>1, <2>1, <1>m, Zeros DEF Becomes, Conn,
       ConnOf, Local, ShapeOf, ControlOf, HdrPcs, Recovery, MarkPcs,
       RestartPcs, FramePcs, CopyPcs, ScanPcs, CkptPcs, Marks
  <1>2. CASE FreeMarks = {} /\ job[c].mxI = 0
    <2>1. Becomes(c, IF job[c].useWal THEN "scan" ELSE "tryhdr", [job[c] EXCEPT !.mxI = 0, !.mark = 0],
               wc[c], tx[c])
      BY <1>s, SetMarkDoes, <1>2
    <2> QED BY <1>0, <1>l, <1>c, <1>2, <2>1, <1>m, Zeros DEF Becomes, Conn,
       ConnOf, Local, ShapeOf, ControlOf, HdrPcs, Recovery, MarkPcs,
       RestartPcs, FramePcs, CopyPcs, ScanPcs, CkptPcs, Marks
  <1>3. CASE FreeMarks = {} /\ job[c].mxI # 0
    <2>1. Becomes(c, "lockmark", job[c],
               wc[c], tx[c])
      BY <1>s, SetMarkDoes, <1>3
    <2> QED BY <1>0, <1>l, <1>c, <1>3, <2>1, <1>m, Zeros DEF Becomes, Conn,
       ConnOf, Local, ShapeOf, ControlOf, HdrPcs, Recovery, MarkPcs,
       RestartPcs, FramePcs, CopyPcs, ScanPcs, CkptPcs, Marks
  <1> QED BY <1>1, <1>2, <1>3

LEMMA LockMarkConn ==
  ASSUME LInv, SharedOK, NEW c \in Conns, Conn(c), LockMark(c)
  PROVE  Conn(c)'
  <1>0. pc[c] = "lockmark"
    BY DEF LockMark, Step, At
  <1>s. Shaped
    BY DEF LInv, Shaped, Local
  <1>l. Local(c)
    BY DEF LInv
  <1>c. Conn(c) /\ HdrOK(LiveHdr) /\ Sized(LiveHdr)
    BY DEF SharedOK
  <1>1. CASE Sharable(WAL_READ_LOCK(job[c].mxI))
    <2>1. Becomes(c, "minframe", job[c],
               wc[c], tx[c])
      BY <1>s, LockMarkDoes, <1>1
    <2> QED BY <1>0, <1>l, <1>c, <1>1, <2>1, Zeros DEF Becomes, Conn, ConnOf,
       Local, ShapeOf, ControlOf, HdrPcs, Recovery, MarkPcs, RestartPcs,
       FramePcs, CopyPcs, ScanPcs, CkptPcs, Marks
  <1>2. CASE ~Sharable(WAL_READ_LOCK(job[c].mxI))
    <2>1. Becomes(c, IF job[c].useWal THEN "scan" ELSE "tryhdr", [job[c] EXCEPT !.mxI = 0, !.mark = 0],
               wc[c], tx[c])
      BY <1>s, LockMarkDoes, <1>2
    <2> QED BY <1>0, <1>l, <1>c, <1>2, <2>1, Zeros DEF Becomes, Conn, ConnOf,
       Local, ShapeOf, ControlOf, HdrPcs, Recovery, MarkPcs, RestartPcs,
       FramePcs, CopyPcs, ScanPcs, CkptPcs, Marks
  <1> QED BY <1>1, <1>2

LEMMA MinFrameConn ==
  ASSUME LInv, SharedOK, NEW c \in Conns, Conn(c), MinFrame(c)
  PROVE  Conn(c)'
  <1>0. pc[c] = "minframe"
    BY DEF MinFrame, Step, At
  <1>s. Shaped
    BY DEF LInv, Shaped, Local
  <1>l. Local(c)
    BY DEF LInv
  <1>c. Conn(c) /\ HdrOK(LiveHdr) /\ Sized(LiveHdr)
    BY DEF SharedOK
  <1>m. shm.nBackfill + 1 \in Nat
    BY DEF SharedOK
  <1>1. Becomes(c, "checkmark", job[c],
             [wc[c] EXCEPT !.minFrame = shm.nBackfill + 1], tx[c])
    BY <1>s, MinFrameDoes
  <1> QED BY <1>0, <1>l, <1>c, <1>1, <1>m, Zeros DEF Becomes, Conn, ConnOf,
     Local, ShapeOf, ControlOf, HdrPcs, Recovery, MarkPcs, RestartPcs,
     FramePcs, CopyPcs, ScanPcs, CkptPcs, Marks

LEMMA CheckMarkConn ==
  ASSUME LInv, SharedOK, NEW c \in Conns, Conn(c), CheckMark(c)
  PROVE  Conn(c)'
  <1>0. pc[c] = "checkmark"
    BY DEF CheckMark, Step, At
  <1>s. Shaped
    BY DEF LInv, Shaped, Local
  <1>l. Local(c)
    BY DEF LInv
  <1>c. Conn(c) /\ HdrOK(LiveHdr) /\ Sized(LiveHdr)
    BY DEF SharedOK
  <1>1. CASE shm.aReadMark[job[c].mxI] = job[c].mark /\ Current(c) /\ job[c].useWal
    <2>1. Becomes(c, "log", [job[c] EXCEPT !.useWal = FALSE],
               [wc[c] EXCEPT !.readLock = job[c].mxI], tx[c])
      BY <1>s, CheckMarkDoes, <1>1
    <2> QED BY <1>0, <1>l, <1>c, <1>1, <2>1, Zeros DEF Becomes, Conn, ConnOf,
       Local, ShapeOf, ControlOf, HdrPcs, Recovery, MarkPcs, RestartPcs,
       FramePcs, CopyPcs, ScanPcs, CkptPcs, Marks
  <1>2. CASE shm.aReadMark[job[c].mxI] = job[c].mark /\ Current(c) /\ ~job[c].useWal
    <2>1. Becomes(c, "idle", NoJob,
               [wc[c] EXCEPT !.readLock = job[c].mxI], tx[c])
      BY <1>s, CheckMarkDoes, <1>2
    <2> QED BY <1>0, <1>l, <1>c, <1>2, <2>1, Zeros DEF Becomes, Conn, ConnOf,
       Local, ShapeOf, ControlOf, NoJob, HdrPcs, Recovery, MarkPcs,
       RestartPcs, FramePcs, CopyPcs, ScanPcs, CkptPcs, Marks
  <1>3. CASE ~(shm.aReadMark[job[c].mxI] = job[c].mark /\ Current(c))
    <2>1. Becomes(c, IF job[c].useWal THEN "scan" ELSE "tryhdr", [job[c] EXCEPT !.mxI = 0, !.mark = 0],
               wc[c], tx[c])
      BY <1>s, CheckMarkDoes, <1>3
    <2> QED BY <1>0, <1>l, <1>c, <1>3, <2>1, Zeros DEF Becomes, Conn, ConnOf,
       Local, ShapeOf, ControlOf, HdrPcs, Recovery, MarkPcs, RestartPcs,
       FramePcs, CopyPcs, ScanPcs, CkptPcs, Marks
  <1> QED BY <1>1, <1>2, <1>3

LEMMA EndReadConn ==
  ASSUME LInv, SharedOK, NEW c \in Conns, Conn(c), EndRead(c)
  PROVE  Conn(c)'
  <1>0. pc[c] = "idle" /\ wc[c].readLock >= 0 /\ ~tx[c].on
    BY DEF EndRead, Idle, Reading, Step, At
  <1>s. Shaped
    BY DEF LInv, Shaped, Local
  <1>l. Local(c)
    BY DEF LInv
  <1>c. Conn(c) /\ HdrOK(LiveHdr) /\ Sized(LiveHdr)
    BY DEF SharedOK
  <1>1. Becomes(c, pc[c], job[c],
             [wc[c] EXCEPT !.readLock = -1], tx[c])
    BY <1>s, EndReadDoes
  <1> QED BY <1>0, <1>l, <1>c, <1>1, Zeros DEF Becomes, Conn, ConnOf, Local,
     ShapeOf, ControlOf, HdrPcs, Recovery, MarkPcs, RestartPcs, FramePcs,
     CopyPcs, ScanPcs, CkptPcs, Marks

LEMMA BeginWriteConn ==
  ASSUME LInv, SharedOK, NEW c \in Conns, FilesOK, Conn(c), BeginWrite(c)
  PROVE  Conn(c)'
  <1>0. pc[c] = "idle" /\ wc[c].readLock >= 0 /\ ~tx[c].on
    BY DEF BeginWrite, Idle, Reading, Step, At
  <1>s. Shaped
    BY DEF LInv, Shaped, Local
  <1>l. Local(c)
    BY DEF LInv
  <1>c. Conn(c) /\ HdrOK(LiveHdr) /\ Sized(LiveHdr)
    BY DEF SharedOK
  <1>m. Len(View(c)) \in Pages
    BY <1>0, ViewOK
  <1>1. Becomes(c, pc[c], job[c],
             wc[c], [NoTx EXCEPT !.on = TRUE, !.size = Len(View(c))])
    BY <1>s, BeginWriteDoes
  <1> QED BY <1>0, <1>l, <1>c, <1>1, <1>m, Zeros DEF Becomes, Conn, ConnOf,
     Local, ShapeOf, ControlOf, NoTx, HdrPcs, Recovery, MarkPcs, RestartPcs,
     FramePcs, CopyPcs, ScanPcs, CkptPcs, Marks

LEMMA ModifyConn ==
  ASSUME LInv, SharedOK, NEW c \in Conns, Conn(c), NEW p \in Pages, Modify(c, p)
  PROVE  Conn(c)'
  <1>0. pc[c] = "idle" /\ tx[c].on
    BY DEF Modify, InWrite, Idle, Step, At
  <1>s. Shaped
    BY DEF LInv, Shaped, Local
  <1>l. Local(c)
    BY DEF LInv
  <1>c. Conn(c) /\ HdrOK(LiveHdr) /\ Sized(LiveHdr)
    BY DEF SharedOK
  <1>m. DOMAIN Put(tx[c].dirty, p, writes + 1) \subseteq Pages /\ Largest({tx[c].size, p}) \in Pages
    BY <1>0, <1>c, LargestPage DEF Put, Conn, ConnOf
  <1>1. Becomes(c, pc[c], job[c],
             wc[c], [tx[c] EXCEPT !.dirty = Put(tx[c].dirty, p, writes + 1), !.size = Largest({@, p})])
    BY <1>s, ModifyDoes
  <1> QED BY <1>0, <1>l, <1>c, <1>1, <1>m, Zeros DEF Becomes, Conn, ConnOf,
     Local, ShapeOf, ControlOf, HdrPcs, Recovery, MarkPcs, RestartPcs,
     FramePcs, CopyPcs, ScanPcs, CkptPcs, Marks

LEMMA ShrinkConn ==
  ASSUME LInv, SharedOK, NEW c \in Conns, Conn(c), Shrink(c)
  PROVE  Conn(c)'
  <1>0. pc[c] = "idle" /\ tx[c].on
    BY DEF Shrink, InWrite, Idle, Step, At
  <1>s. Shaped
    BY DEF LInv, Shaped, Local
  <1>l. Local(c)
    BY DEF LInv
  <1>c. Conn(c) /\ HdrOK(LiveHdr) /\ Sized(LiveHdr)
    BY DEF SharedOK
  <1>m. tx[c].size - 1 \in Pages
    <2>1. tx[c].size \in Pages /\ tx[c].size > 1
      BY <1>0, <1>c DEF Shrink, CanShrink, Conn, ConnOf
    <2> QED BY <2>1, WalAssumption DEF Pages
  <1>1. Becomes(c, pc[c], job[c],
             wc[c], [tx[c] EXCEPT !.size = @ - 1])
    BY <1>s, ShrinkDoes
  <1> QED BY <1>0, <1>l, <1>c, <1>1, <1>m, Zeros DEF Becomes, Conn, ConnOf,
     Local, ShapeOf, ControlOf, HdrPcs, Recovery, MarkPcs, RestartPcs,
     FramePcs, CopyPcs, ScanPcs, CkptPcs, Marks

LEMMA SpillConn ==
  ASSUME LInv, SharedOK, NEW c \in Conns, Conn(c), NEW p \in Pages, Spill(c, p)
  PROVE  Conn(c)'
  <1>0. pc[c] = "idle" /\ tx[c].on
    BY DEF Spill, InWrite, Idle, Step, At
  <1>s. Shaped
    BY DEF LInv, Shaped, Local
  <1>l. Local(c)
    BY DEF LInv
  <1>c. Conn(c) /\ HdrOK(LiveHdr) /\ Sized(LiveHdr)
    BY DEF SharedOK
  <1>m. <<p>> \in Seq(Pages) /\ <<p>> # <<>>
    OBVIOUS
  <1>1. Becomes(c, IF wc[c].readLock = 0 THEN "restart" ELSE "log", FramesJob(c, <<p>>, FALSE),
             wc[c], tx[c])
    BY <1>s, SpillDoes
  <1>x. /\ job'[c].kind = "write" /\ job'[c].list = <<p>> /\ job'[c].new = <<>>
        /\ job'[c].mark = 0 /\ job'[c].safe = 0 /\ job'[c].h1 = ZeroHdr
    <2>1. job'[c] = FramesJob(c, <<p>>, FALSE)
      BY <1>1 DEF Becomes
    <2> QED BY <2>1 DEF FramesJob, NoJob
  <1>y. pc'[c] \in {"restart", "log"} /\ wc'[c] = wc[c] /\ tx'[c] = tx[c]
    BY <1>1 DEF Becomes
  <1>z. <<p>> \in Seq(Pages) /\ <<p>> # <<>>
    BY <1>1, <1>m
  <1> QED BY <1>0, <1>c, <1>m, <1>x, <1>y, <1>z, Zeros DEF Conn, ConnOf,
     RestartPcs, FramePcs, CopyPcs, ScanPcs

LEMMA CommitConn ==
  ASSUME LInv, SharedOK, NEW c \in Conns, Conn(c), Commit(c)
  PROVE  Conn(c)'
  <1>0. pc[c] = "idle" /\ tx[c].on
    BY DEF Commit, InWrite, Idle, Step, At
  <1>s. Shaped
    BY DEF LInv, Shaped, Local
  <1>l. Local(c)
    BY DEF LInv
  <1>c. Conn(c) /\ HdrOK(LiveHdr) /\ Sized(LiveHdr)
    BY DEF SharedOK
  <1>m. \A list \in CommitLists(c) : list \in Seq(Pages)
    <2>1. 1 \in Pages
      BY WalAssumption DEF Pages
    <2>2. {p \in DOMAIN tx[c].dirty : p <= tx[c].size} \in SUBSET Pages
      BY <1>c DEF Conn, ConnOf
    <2>3. \A list \in Sortings({p \in DOMAIN tx[c].dirty : p <= tx[c].size}) : list \in Seq(Pages)
      BY <2>2, SortingsOK
    <2>4. <<1>> \in Seq(Pages)
      BY <2>1
    <2> QED BY <2>3, <2>4 DEF CommitLists
  <1>1. PICK list \in CommitLists(c) : list # <<>> /\ Becomes(c, IF wc[c].readLock = 0 THEN "restart" ELSE "log", FramesJob(c, list, TRUE),
             wc[c], tx[c])
    BY <1>s, CommitDoes
  <1>x. /\ job'[c].kind = "write" /\ job'[c].list = list /\ job'[c].new = <<>>
        /\ job'[c].mark = 0 /\ job'[c].safe = 0 /\ job'[c].h1 = ZeroHdr
    <2>1. job'[c] = FramesJob(c, list, TRUE)
      BY <1>1 DEF Becomes
    <2> QED BY <2>1 DEF FramesJob, NoJob
  <1>y. pc'[c] \in {"restart", "log"} /\ wc'[c] = wc[c] /\ tx'[c] = tx[c]
    BY <1>1 DEF Becomes
  <1>z. list \in Seq(Pages) /\ list # <<>>
    BY <1>1, <1>m
  <1> QED BY <1>0, <1>c, <1>m, <1>x, <1>y, <1>z, Zeros DEF Conn, ConnOf,
     RestartPcs, FramePcs, CopyPcs, ScanPcs

LEMMA RollbackConn ==
  ASSUME LInv, SharedOK, NEW c \in Conns, Conn(c), Rollback(c)
  PROVE  Conn(c)'
  <1>0. pc[c] = "idle" /\ tx[c].on
    BY DEF Rollback, Idle, Step, At
  <1>s. Shaped
    BY DEF LInv, Shaped, Local
  <1>l. Local(c)
    BY DEF LInv
  <1>c. Conn(c) /\ HdrOK(LiveHdr) /\ Sized(LiveHdr)
    BY DEF SharedOK
  <1>1. Becomes(c, pc[c], job[c],
             [wc[c] EXCEPT !.hdr = LiveHdr, !.iReCksum = 0], NoTx)
    BY <1>s, RollbackDoes
  <1> QED BY <1>0, <1>l, <1>c, <1>1, Zeros DEF Becomes, Conn, ConnOf, Local,
     ShapeOf, ControlOf, NoTx, HdrPcs, Recovery, MarkPcs, RestartPcs,
     FramePcs, CopyPcs, ScanPcs, CkptPcs, Marks

LEMMA RestartConn ==
  ASSUME LInv, SharedOK, NEW c \in Conns, CountersOK, Conn(c), Restart(c)
  PROVE  Conn(c)'
  <1>0. pc[c] = "restart"
    BY DEF Restart, Step, At
  <1>s. Shaped
    BY DEF LInv, Shaped, Local
  <1>l. Local(c)
    BY DEF LInv
  <1>c. Conn(c) /\ HdrOK(LiveHdr) /\ Sized(LiveHdr)
    BY DEF SharedOK
  <1>m. HdrOK(RestartedHdr(c)) /\ Sized(RestartedHdr(c)) /\ RestartedHdr(c).mxFrame = 0
    <2>1. HdrOK(wc[c].hdr) /\ salts + 1 \in Nat
      BY <1>c, WalAssumption DEF CountersOK, Conn, ConnOf
    <2> QED BY <2>1 DEF RestartedHdr, HdrOK, Sized
  <1>1. Becomes(c, "restart1", job[c],
             [wc[c] EXCEPT !.hdr = RestartedHdr(c), !.nCkpt = @ + 1], tx[c])
    BY <1>s, RestartDoes
  <1>x. wc'[c] = [wc[c] EXCEPT !.hdr = RestartedHdr(c), !.nCkpt = @ + 1]
    BY <1>1 DEF Becomes
  <1>y. /\ wc'[c].hdr = RestartedHdr(c) /\ wc'[c].iReCksum = wc[c].iReCksum
        /\ wc'[c].minFrame = wc[c].minFrame
    BY <1>x, <1>l DEF Local, ShapeOf
  <1>z. job'[c] = job[c] /\ tx'[c] = tx[c] /\ pc'[c] = "restart1"
    BY <1>1 DEF Becomes
  <1> QED BY <1>0, <1>c, <1>m, <1>x, <1>y, <1>z, Zeros DEF Conn, ConnOf,
     RestartPcs, FramePcs, CopyPcs, ScanPcs

LEMMA RestartHdr0Conn ==
  ASSUME LInv, SharedOK, NEW c \in Conns, Conn(c), RestartHdr0(c)
  PROVE  Conn(c)'
  <1>0. pc[c] = "restart1"
    BY DEF RestartHdr0, Step, At
  <1>s. Shaped
    BY DEF LInv, Shaped, Local
  <1>l. Local(c)
    BY DEF LInv
  <1>c. Conn(c) /\ HdrOK(LiveHdr) /\ Sized(LiveHdr)
    BY DEF SharedOK
  <1>1. Becomes(c, "restart2", job[c],
             wc[c], tx[c])
    BY <1>s, RestartHdr0Does
  <1> QED BY <1>0, <1>l, <1>c, <1>1, Zeros DEF Becomes, Conn, ConnOf, Local,
     ShapeOf, ControlOf, HdrPcs, Recovery, MarkPcs, RestartPcs, FramePcs,
     CopyPcs, ScanPcs, CkptPcs, Marks

LEMMA RestartInfoConn ==
  ASSUME LInv, SharedOK, NEW c \in Conns, Conn(c), RestartInfo(c)
  PROVE  Conn(c)'
  <1>0. pc[c] = "restart2"
    BY DEF RestartInfo, Step, At
  <1>s. Shaped
    BY DEF LInv, Shaped, Local
  <1>l. Local(c)
    BY DEF LInv
  <1>c. Conn(c) /\ HdrOK(LiveHdr) /\ Sized(LiveHdr)
    BY DEF SharedOK
  <1>1. CASE job[c].kind = "write"
    <2>1. Becomes(c, "scan", [job[c] EXCEPT !.useWal = TRUE],
               [wc[c] EXCEPT !.readLock = -1], tx[c])
      BY <1>s, RestartInfoDoes, <1>1
    <2> QED BY <1>0, <1>l, <1>c, <1>1, <2>1, Zeros DEF Becomes, Conn, ConnOf,
       Local, ShapeOf, ControlOf, HdrPcs, Recovery, MarkPcs, RestartPcs,
       FramePcs, CopyPcs, ScanPcs, CkptPcs, Marks
  <1>2. CASE job[c].kind # "write"
    <2>1. Becomes(c, "trunclog", job[c],
               wc[c], tx[c])
      BY <1>s, RestartInfoDoes, <1>2
    <2> QED BY <1>0, <1>l, <1>c, <1>2, <2>1, Zeros DEF Becomes, Conn, ConnOf,
       Local, ShapeOf, ControlOf, HdrPcs, Recovery, MarkPcs, RestartPcs,
       FramePcs, CopyPcs, ScanPcs, CkptPcs, Marks
  <1> QED BY <1>1, <1>2

LEMMA CannotRestartConn ==
  ASSUME LInv, SharedOK, NEW c \in Conns, Conn(c), CannotRestart(c)
  PROVE  Conn(c)'
  <1>0. pc[c] = "restart"
    BY DEF CannotRestart, Step, At
  <1>s. Shaped
    BY DEF LInv, Shaped, Local
  <1>l. Local(c)
    BY DEF LInv
  <1>c. Conn(c) /\ HdrOK(LiveHdr) /\ Sized(LiveHdr)
    BY DEF SharedOK
  <1>1. CASE job[c].kind = "write"
    <2>1. Becomes(c, "scan", [job[c] EXCEPT !.useWal = TRUE],
               [wc[c] EXCEPT !.readLock = -1], tx[c])
      BY <1>s, CannotRestartDoes, <1>1
    <2> QED BY <1>0, <1>l, <1>c, <1>1, <2>1, Zeros DEF Becomes, Conn, ConnOf,
       Local, ShapeOf, ControlOf, HdrPcs, Recovery, MarkPcs, RestartPcs,
       FramePcs, CopyPcs, ScanPcs, CkptPcs, Marks
  <1>2. CASE job[c].kind # "write"
    <2>1. Becomes(c, "ckptend", [job[c] EXCEPT !.ok = FALSE],
               wc[c], tx[c])
      BY <1>s, CannotRestartDoes, <1>2
    <2> QED BY <1>0, <1>l, <1>c, <1>2, <2>1, Zeros DEF Becomes, Conn, ConnOf,
       Local, ShapeOf, ControlOf, HdrPcs, Recovery, MarkPcs, RestartPcs,
       FramePcs, CopyPcs, ScanPcs, CkptPcs, Marks
  <1> QED BY <1>1, <1>2

LEMMA WriteLogHeaderConn ==
  ASSUME LInv, SharedOK, NEW c \in Conns, CountersOK, Conn(c), WriteLogHeader(c)
  PROVE  Conn(c)'
  <1>0. pc[c] = "log"
    BY DEF WriteLogHeader, Step, At
  <1>s. Shaped
    BY DEF LInv, Shaped, Local
  <1>l. Local(c)
    BY DEF LInv
  <1>c. Conn(c) /\ HdrOK(LiveHdr) /\ Sized(LiveHdr)
    BY DEF SharedOK
  <1>o. tx[c].on /\ job[c].kind = "write"
    BY <1>0, <1>l DEF Local, ControlOf, HdrPcs, Recovery, MarkPcs, RestartPcs, FramePcs, CopyPcs, ScanPcs, CkptPcs, Marks
  <1>m. /\ HdrOK([wc[c].hdr EXCEPT !.salt = NewSalt(c), !.sum = <<wc[c].nCkpt>>])
        /\ [wc[c] EXCEPT !.hdr.salt = NewSalt(c), !.hdr.sum = <<wc[c].nCkpt>>]
              = [wc[c] EXCEPT !.hdr = [wc[c].hdr EXCEPT !.salt = NewSalt(c), !.sum = <<wc[c].nCkpt>>]]
    <2>1. HdrOK(wc[c].hdr) /\ NewSalt(c) \in Nat
      BY <1>c, WalAssumption DEF CountersOK, Conn, ConnOf, NewSalt, HdrOK
    <2>2. HdrOK([wc[c].hdr EXCEPT !.salt = NewSalt(c), !.sum = <<wc[c].nCkpt>>])
      BY <2>1 DEF HdrOK
    <2>3. DOMAIN wc[c] = {"hdr", "readLock", "minFrame", "nCkpt", "iReCksum"}
      BY <1>l DEF Local, ShapeOf
    <2> QED BY <2>2, <2>3
  <1>1. Becomes(c, "synchdr", job[c],
             [wc[c] EXCEPT !.hdr.salt = NewSalt(c), !.hdr.sum = <<wc[c].nCkpt>>], tx[c])
    BY <1>s, WriteLogHeaderDoes
  <1> QED BY <1>0, <1>l, <1>c, <1>1, <1>o, <1>m, Zeros DEF Becomes, Conn,
     ConnOf, Local, ShapeOf, ControlOf, HdrPcs, Recovery, MarkPcs, RestartPcs,
     FramePcs, CopyPcs, ScanPcs, CkptPcs, Marks

LEMMA SyncHeaderConn ==
  ASSUME LInv, SharedOK, NEW c \in Conns, Conn(c), SyncHeader(c)
  PROVE  Conn(c)'
  <1>0. pc[c] = "synchdr"
    BY DEF SyncHeader, Step, At
  <1>s. Shaped
    BY DEF LInv, Shaped, Local
  <1>l. Local(c)
    BY DEF LInv
  <1>c. Conn(c) /\ HdrOK(LiveHdr) /\ Sized(LiveHdr)
    BY DEF SharedOK
  <1>1. Becomes(c, "frames", job[c],
             wc[c], tx[c])
    BY <1>s, SyncHeaderDoes
  <1> QED BY <1>0, <1>l, <1>c, <1>1, Zeros DEF Becomes, Conn, ConnOf, Local,
     ShapeOf, ControlOf, HdrPcs, Recovery, MarkPcs, RestartPcs, FramePcs,
     CopyPcs, ScanPcs, CkptPcs, Marks

LEMMA WriteFramesConn ==
  ASSUME LInv, SharedOK, NEW c \in Conns, FilesOK, LengthOf(c), Conn(c), WriteFrames(c)
  PROVE  Conn(c)'
  <1>0. pc[c] \in {"log", "frames"}
    BY DEF WriteFrames, InFrames, Step, At
  <1>s. Shaped
    BY DEF LInv, Shaped, Local
  <1>l. Local(c)
    BY DEF LInv
  <1>c. Conn(c) /\ HdrOK(LiveHdr) /\ Sized(LiveHdr)
    BY DEF SharedOK
  <1>o. tx[c].on /\ job[c].kind = "write"
    BY <1>0, <1>l DEF Local, ControlOf, HdrPcs, Recovery, MarkPcs, RestartPcs, FramePcs, CopyPcs, ScanPcs, CkptPcs, Marks
  <1>m. AllWritten(c).new \in Seq(Pages) /\ AllWritten(c).re \in Nat
    <2>1. wc[c].hdr.mxFrame <= Len(wal.frames)
      BY <1>0, <1>c, <1>o DEF LengthOf, Reached, Conn, ConnOf, HdrOK
    <2> QED BY <2>1, <1>o, AllWrittenOK
  <1>n. /\ HdrOK([wc[c].hdr EXCEPT !.sum = AllWritten(c).sum])
        /\ [wc[c] EXCEPT !.hdr.sum = AllWritten(c).sum, !.iReCksum = AllWritten(c).re]
              = [wc[c] EXCEPT !.hdr = [wc[c].hdr EXCEPT !.sum = AllWritten(c).sum],
                              !.iReCksum = AllWritten(c).re]
    <2>1. HdrOK(wc[c].hdr)
      BY <1>c DEF Conn, ConnOf
    <2>2. HdrOK([wc[c].hdr EXCEPT !.sum = AllWritten(c).sum])
      BY <2>1 DEF HdrOK
    <2>3. DOMAIN wc[c] = {"hdr", "readLock", "minFrame", "nCkpt", "iReCksum"}
      BY <1>l DEF Local, ShapeOf
    <2> QED BY <2>2, <2>3
  <1>1. Becomes(c, IF job[c].commit /\ fullSync THEN "sync" ELSE "index", [job[c] EXCEPT !.new = AllWritten(c).new],
             [wc[c] EXCEPT !.hdr.sum = AllWritten(c).sum, !.iReCksum = AllWritten(c).re], tx[c])
    BY <1>s, WriteFramesDoes
  <1> QED BY <1>0, <1>l, <1>c, <1>1, <1>o, <1>m, <1>n, Zeros DEF Becomes,
     Conn, ConnOf, Local, ShapeOf, ControlOf, HdrPcs, Recovery, MarkPcs,
     RestartPcs, FramePcs, CopyPcs, ScanPcs, CkptPcs, Marks

LEMMA SyncFramesConn ==
  ASSUME LInv, SharedOK, NEW c \in Conns, Conn(c), SyncFrames(c)
  PROVE  Conn(c)'
  <1>0. pc[c] = "sync"
    BY DEF SyncFrames, Step, At
  <1>s. Shaped
    BY DEF LInv, Shaped, Local
  <1>l. Local(c)
    BY DEF LInv
  <1>c. Conn(c) /\ HdrOK(LiveHdr) /\ Sized(LiveHdr)
    BY DEF SharedOK
  <1>1. Becomes(c, "index", job[c],
             wc[c], tx[c])
    BY <1>s, SyncFramesDoes
  <1> QED BY <1>0, <1>l, <1>c, <1>1, Zeros DEF Becomes, Conn, ConnOf, Local,
     ShapeOf, ControlOf, HdrPcs, Recovery, MarkPcs, RestartPcs, FramePcs,
     CopyPcs, ScanPcs, CkptPcs, Marks

LEMMA FailsConn ==
  ASSUME LInv, SharedOK, NEW c \in Conns, Conn(c), Fails(c)
  PROVE  Conn(c)'
  <1>0. pc[c] \in {"log", "frames", "sync"} /\ job[c].commit
    BY DEF Fails, InFrames, Step, At
  <1>s. Shaped
    BY DEF LInv, Shaped, Local
  <1>l. Local(c)
    BY DEF LInv
  <1>c. Conn(c) /\ HdrOK(LiveHdr) /\ Sized(LiveHdr)
    BY DEF SharedOK
  <1>o. tx[c].on /\ job[c].kind = "write"
    BY <1>0, <1>l DEF Local, ControlOf, HdrPcs, Recovery, MarkPcs, RestartPcs, FramePcs, CopyPcs, ScanPcs, CkptPcs, Marks
  <1>1. Becomes(c, "idle", NoJob,
             wc[c], [tx[c] EXCEPT !.failed = TRUE])
    BY <1>s, FailsDoes
  <1> QED BY <1>0, <1>l, <1>c, <1>1, <1>o, Zeros DEF Becomes, Conn, ConnOf,
     Local, ShapeOf, ControlOf, NoJob, HdrPcs, Recovery, MarkPcs, RestartPcs,
     FramePcs, CopyPcs, ScanPcs, CkptPcs, Marks

LEMMA IndexConn ==
  ASSUME LInv, SharedOK, NEW c \in Conns, Conn(c), Index(c)
  PROVE  Conn(c)'
  <1>0. pc[c] = "index"
    BY DEF Index, Step, At
  <1>s. Shaped
    BY DEF LInv, Shaped, Local
  <1>l. Local(c)
    BY DEF LInv
  <1>c. Conn(c) /\ HdrOK(LiveHdr) /\ Sized(LiveHdr)
    BY DEF SharedOK
  <1>o. tx[c].on /\ job[c].kind = "write"
    BY <1>0, <1>l DEF Local, ControlOf, HdrPcs, Recovery, MarkPcs, RestartPcs, FramePcs, CopyPcs, ScanPcs, CkptPcs, Marks
  <1>m. DOMAIN Without(tx[c].dirty, {job[c].list[1]}) \subseteq Pages
    BY <1>c DEF Without, Conn, ConnOf
  <1>n. HdrOK(IndexedHdr(c)) /\ (job[c].commit => Sized(IndexedHdr(c)))
    <2>1. HdrOK(wc[c].hdr) /\ Len(job[c].new) \in Nat /\ tx[c].size \in Pages
      BY <1>c, <1>o DEF Conn, ConnOf
    <2>2. DOMAIN IndexedHdr(c) = DOMAIN wc[c].hdr
      BY DEF IndexedHdr
    <2>3. /\ IndexedHdr(c).mxFrame = wc[c].hdr.mxFrame + Len(job[c].new)
          /\ IndexedHdr(c).salt = wc[c].hdr.salt
          /\ IndexedHdr(c).nPage = IF job[c].commit THEN tx[c].size ELSE wc[c].hdr.nPage
      BY <2>1 DEF IndexedHdr, HdrOK
    <2>4. tx[c].size \in Sizes
      BY <2>1, WalAssumption DEF Pages, Sizes
    <2> HIDE DEF IndexedHdr
    <2> QED BY <2>1, <2>2, <2>3, <2>4 DEF HdrOK, Sized
  <1>1. CASE job[c].commit
    <2>1. Becomes(c, "publish", job[c],
               [wc[c] EXCEPT !.hdr = IndexedHdr(c)], tx[c])
      BY <1>s, IndexDoes, <1>1
    <2> QED BY <1>0, <1>l, <1>c, <1>1, <2>1, <1>o, <1>m, <1>n,
       Zeros DEF Becomes, Conn, ConnOf, Local, ShapeOf, ControlOf, HdrPcs,
       Recovery, MarkPcs, RestartPcs, FramePcs, CopyPcs, ScanPcs, CkptPcs,
       Marks
  <1>2. CASE ~job[c].commit
    <2>1. Becomes(c, "idle", NoJob,
               [wc[c] EXCEPT !.hdr = IndexedHdr(c)], [tx[c] EXCEPT !.dirty = Without(tx[c].dirty, {job[c].list[1]})])
      BY <1>s, IndexDoes, <1>2
    <2>x. /\ wc'[c].hdr = IndexedHdr(c) /\ wc'[c].iReCksum = wc[c].iReCksum
          /\ wc'[c].minFrame = wc[c].minFrame /\ pc'[c] = "idle"
          /\ job'[c].kind = "none" /\ job'[c].h1 = ZeroHdr /\ job'[c].mark = 0
          /\ job'[c].safe = 0 /\ job'[c].list = <<>> /\ job'[c].new = <<>>
      BY <2>1, <1>l, <1>o DEF Becomes, Local, ShapeOf, NoJob
    <2>y. tx'[c] = [tx[c] EXCEPT !.dirty = Without(tx[c].dirty, {job[c].list[1]})]
      BY <2>1 DEF Becomes
    <2>z. /\ tx'[c].on /\ tx'[c].size = tx[c].size
          /\ tx'[c].dirty = Without(tx[c].dirty, {job[c].list[1]})
      BY <2>y, <1>l, <1>o DEF Local, ShapeOf
    <2>u. /\ DOMAIN tx'[c].dirty \subseteq Pages /\ HdrOK(wc'[c].hdr) /\ tx'[c].size \in Pages
          /\ wc'[c].iReCksum \in Nat /\ wc'[c].minFrame \in Nat
      BY <2>x, <2>z, <1>m, <1>n, <1>c, <1>o DEF Conn, ConnOf
    <2>a. HdrOK(wc'[c].hdr) /\ HdrOK(job'[c].h1) /\ Sized(job'[c].h1)
      BY <2>x, <2>u, Zeros
    <2>b. ~tx'[c].on \/ pc'[c] = "publish" => Sized(wc'[c].hdr)
      BY <2>x, <2>z
    <2>c. ~(pc'[c] \in ScanPcs \cup CopyPcs) /\ ~(pc'[c] \in {"restart1", "restart2", "trunclog"})
      BY <2>x DEF ScanPcs, CopyPcs
    <2>d. tx'[c].on => tx'[c].size \in Pages
      BY <2>u
    <2>e. job'[c].list \in Seq(Pages) /\ job'[c].new \in Seq(Pages)
      BY <2>x, Zeros
    <2>f. job'[c].kind = "write" => job'[c].list # <<>>
      BY <2>x
    <2>g. job'[c].mark \in Nat /\ job'[c].safe \in Nat
      BY <2>x
    <2> QED BY <2>a, <2>b, <2>c, <2>d, <2>e, <2>f, <2>g, <2>u DEF Conn, ConnOf
  <1> QED BY <1>1, <1>2

LEMMA PublishConn ==
  ASSUME LInv, SharedOK, NEW c \in Conns, Conn(c), Publish(c)
  PROVE  Conn(c)'
  <1>0. pc[c] = "publish"
    BY DEF Publish, Step, At
  <1>s. Shaped
    BY DEF LInv, Shaped, Local
  <1>l. Local(c)
    BY DEF LInv
  <1>c. Conn(c) /\ HdrOK(LiveHdr) /\ Sized(LiveHdr)
    BY DEF SharedOK
  <1>o. tx[c].on /\ job[c].kind = "write"
    BY <1>0, <1>l DEF Local, ControlOf, HdrPcs, Recovery, MarkPcs, RestartPcs, FramePcs, CopyPcs, ScanPcs, CkptPcs, Marks
  <1>1. Becomes(c, "idle", NoJob,
             wc[c], NoTx)
    BY <1>s, PublishDoes
  <1> QED BY <1>0, <1>l, <1>c, <1>1, <1>o, Zeros DEF Becomes, Conn, ConnOf,
     Local, ShapeOf, ControlOf, NoJob, NoTx, HdrPcs, Recovery, MarkPcs,
     RestartPcs, FramePcs, CopyPcs, ScanPcs, CkptPcs, Marks

LEMMA StartCkptConn ==
  ASSUME LInv, SharedOK, NEW c \in Conns, Conn(c), NEW mode \in Modes, StartCkpt(c, mode)
  PROVE  Conn(c)'
  <1>0. pc[c] = "idle" /\ ~(wc[c].readLock >= 0)
    BY DEF StartCkpt, Idle, Reading, Step, At
  <1>s. Shaped
    BY DEF LInv, Shaped, Local
  <1>l. Local(c)
    BY DEF LInv
  <1>c. Conn(c) /\ HdrOK(LiveHdr) /\ Sized(LiveHdr)
    BY DEF SharedOK
  <1>1. Becomes(c, IF mode \in {"full", "truncate"} THEN "ckptwrite" ELSE "tryhdr", [NoJob EXCEPT !.kind = "ckpt", !.mode = mode],
             wc[c], tx[c])
    BY <1>s, StartCkptDoes
  <1> QED BY <1>0, <1>l, <1>c, <1>1, Zeros DEF Becomes, Conn, ConnOf, Local,
     ShapeOf, ControlOf, NoJob, HdrPcs, Recovery, MarkPcs, RestartPcs,
     FramePcs, CopyPcs, ScanPcs, CkptPcs, Marks

LEMMA CkptWriteConn ==
  ASSUME LInv, SharedOK, NEW c \in Conns, Conn(c), CkptWrite(c)
  PROVE  Conn(c)'
  <1>0. pc[c] = "ckptwrite"
    BY DEF CkptWrite, Step, At
  <1>s. Shaped
    BY DEF LInv, Shaped, Local
  <1>l. Local(c)
    BY DEF LInv
  <1>c. Conn(c) /\ HdrOK(LiveHdr) /\ Sized(LiveHdr)
    BY DEF SharedOK
  <1>1. CASE Lockable({WAL_WRITE_LOCK})
    <2>1. Becomes(c, "tryhdr", job[c],
               wc[c], tx[c])
      BY <1>s, CkptWriteDoes, <1>1
    <2> QED BY <1>0, <1>l, <1>c, <1>1, <2>1, Zeros DEF Becomes, Conn, ConnOf,
       Local, ShapeOf, ControlOf, HdrPcs, Recovery, MarkPcs, RestartPcs,
       FramePcs, CopyPcs, ScanPcs, CkptPcs, Marks
  <1>2. CASE ~Lockable({WAL_WRITE_LOCK})
    <2>1. Becomes(c, "tryhdr", [job[c] EXCEPT !.mode = "passive"],
               wc[c], tx[c])
      BY <1>s, CkptWriteDoes, <1>2
    <2> QED BY <1>0, <1>l, <1>c, <1>2, <2>1, Zeros DEF Becomes, Conn, ConnOf,
       Local, ShapeOf, ControlOf, HdrPcs, Recovery, MarkPcs, RestartPcs,
       FramePcs, CopyPcs, ScanPcs, CkptPcs, Marks
  <1> QED BY <1>1, <1>2

LEMMA CkptStartConn ==
  ASSUME LInv, SharedOK, NEW c \in Conns, Conn(c), CkptStart(c)
  PROVE  Conn(c)'
  <1>0. pc[c] = "ckpt"
    BY DEF CkptStart, Step, At
  <1>s. Shaped
    BY DEF LInv, Shaped, Local
  <1>l. Local(c)
    BY DEF LInv
  <1>c. Conn(c) /\ HdrOK(LiveHdr) /\ Sized(LiveHdr)
    BY DEF SharedOK
  <1>m. wc[c].hdr.mxFrame \in Nat /\ shm.nBackfill \in Nat
    BY <1>c DEF SharedOK, Conn, ConnOf, HdrOK
  <1>1. CASE shm.nBackfill < wc[c].hdr.mxFrame
    <2>1. Becomes(c, "mark", [job[c] EXCEPT !.i = 1, !.safe = wc[c].hdr.mxFrame],
               wc[c], tx[c])
      BY <1>s, CkptStartDoes, <1>1
    <2> QED BY <1>0, <1>l, <1>c, <1>1, <2>1, <1>m, Zeros DEF Becomes, Conn,
       ConnOf, Local, ShapeOf, ControlOf, HdrPcs, Recovery, MarkPcs,
       RestartPcs, FramePcs, CopyPcs, ScanPcs, CkptPcs, Marks, AfterCopy
  <1>2. CASE ~(shm.nBackfill < wc[c].hdr.mxFrame)
    <2>1. Becomes(c, AfterCopy(c), job[c],
               wc[c], tx[c])
      BY <1>s, CkptStartDoes, <1>2
    <2> QED BY <1>0, <1>l, <1>c, <1>2, <2>1, <1>m, Zeros DEF Becomes, Conn,
       ConnOf, Local, ShapeOf, ControlOf, HdrPcs, Recovery, MarkPcs,
       RestartPcs, FramePcs, CopyPcs, ScanPcs, CkptPcs, Marks, AfterCopy
  <1> QED BY <1>1, <1>2

LEMMA CkptReadMarkConn ==
  ASSUME LInv, SharedOK, NEW c \in Conns, Conn(c), CkptReadMark(c)
  PROVE  Conn(c)'
  <1>0. pc[c] = "mark"
    BY DEF CkptReadMark, Step, At
  <1>s. Shaped
    BY DEF LInv, Shaped, Local
  <1>l. Local(c)
    BY DEF LInv
  <1>c. Conn(c) /\ HdrOK(LiveHdr) /\ Sized(LiveHdr)
    BY DEF SharedOK
  <1>m. shm.aReadMark[job[c].i] \in Nat
    BY <1>0, <1>l, WalAssumption DEF SharedOK, Local, ControlOf, Marks
  <1>1. CASE job[c].safe > shm.aReadMark[job[c].i]
    <2>1. Becomes(c, "lockmk", [job[c] EXCEPT !.mark = shm.aReadMark[job[c].i]],
               wc[c], tx[c])
      BY <1>s, CkptReadMarkDoes, <1>1
    <2> QED BY <1>0, <1>l, <1>c, <1>1, <2>1, <1>m, Zeros DEF Becomes, Conn,
       ConnOf, Local, ShapeOf, ControlOf, HdrPcs, Recovery, MarkPcs,
       RestartPcs, FramePcs, CopyPcs, ScanPcs, CkptPcs, Marks
  <1>2. CASE ~(job[c].safe > shm.aReadMark[job[c].i])
    <2>1. Becomes(c, IF job[c].i = WAL_NREADER - 1 THEN "lock0" ELSE "mark", [job[c] EXCEPT !.i = @ + 1, !.safe = job[c].safe, !.mark = 0],
               wc[c], tx[c])
      BY <1>s, CkptReadMarkDoes, <1>2
    <2> QED BY <1>0, <1>l, <1>c, <1>2, <2>1, <1>m, Zeros DEF Becomes, Conn,
       ConnOf, Local, ShapeOf, ControlOf, HdrPcs, Recovery, MarkPcs,
       RestartPcs, FramePcs, CopyPcs, ScanPcs, CkptPcs, Marks
  <1> QED BY <1>1, <1>2

LEMMA CkptLockMarkConn ==
  ASSUME LInv, SharedOK, NEW c \in Conns, Conn(c), CkptLockMark(c)
  PROVE  Conn(c)'
  <1>0. pc[c] = "lockmk"
    BY DEF CkptLockMark, Step, At
  <1>s. Shaped
    BY DEF LInv, Shaped, Local
  <1>l. Local(c)
    BY DEF LInv
  <1>c. Conn(c) /\ HdrOK(LiveHdr) /\ Sized(LiveHdr)
    BY DEF SharedOK
  <1>1. CASE Lockable({WAL_READ_LOCK(job[c].i)})
    <2>1. Becomes(c, IF job[c].i = WAL_NREADER - 1 THEN "lock0" ELSE "mark", [job[c] EXCEPT !.i = @ + 1, !.safe = job[c].safe, !.mark = 0],
               wc[c], tx[c])
      BY <1>s, CkptLockMarkDoes, <1>1
    <2> QED BY <1>0, <1>l, <1>c, <1>1, <2>1, Zeros DEF Becomes, Conn, ConnOf,
       Local, ShapeOf, ControlOf, HdrPcs, Recovery, MarkPcs, RestartPcs,
       FramePcs, CopyPcs, ScanPcs, CkptPcs, Marks
  <1>2. CASE ~Lockable({WAL_READ_LOCK(job[c].i)})
    <2>1. Becomes(c, IF job[c].i = WAL_NREADER - 1 THEN "lock0" ELSE "mark", [job[c] EXCEPT !.i = @ + 1, !.safe = job[c].mark, !.mark = 0],
               wc[c], tx[c])
      BY <1>s, CkptLockMarkDoes, <1>2
    <2> QED BY <1>0, <1>l, <1>c, <1>2, <2>1, Zeros DEF Becomes, Conn, ConnOf,
       Local, ShapeOf, ControlOf, HdrPcs, Recovery, MarkPcs, RestartPcs,
       FramePcs, CopyPcs, ScanPcs, CkptPcs, Marks
  <1> QED BY <1>1, <1>2

LEMMA CkptLock0Conn ==
  ASSUME LInv, SharedOK, NEW c \in Conns, Conn(c), CkptLock0(c)
  PROVE  Conn(c)'
  <1>0. pc[c] = "lock0"
    BY DEF CkptLock0, Step, At
  <1>s. Shaped
    BY DEF LInv, Shaped, Local
  <1>l. Local(c)
    BY DEF LInv
  <1>c. Conn(c) /\ HdrOK(LiveHdr) /\ Sized(LiveHdr)
    BY DEF SharedOK
  <1>m. \A list \in ToCopy(c) : list \in Seq(Pages)
    <2>0. wc[c].hdr.nPage \in Sizes
      BY <1>c DEF Conn, ConnOf, HdrOK
    <2>m. MaxPage \in Nat
      BY WalAssumption
    <2>1. 1 .. wc[c].hdr.nPage \subseteq Pages
      BY <2>0, <2>m DEF Sizes, Pages
    <2> QED BY <2>1, SortingsOK DEF ToCopy
  <1>1. CASE shm.nBackfill < job[c].safe /\ Lockable({WAL_READ_LOCK(0)}) /\ LiveHdr.salt = wc[c].hdr.salt
    <2>1. PICK list \in ToCopy(c) : Becomes(c, "synclog", [job[c] EXCEPT !.list = list],
               wc[c], tx[c])
      BY <1>s, CkptLock0Does, <1>1
    <2> QED BY <1>0, <1>l, <1>c, <1>1, <2>1, <1>m, Zeros DEF Becomes, Conn,
       ConnOf, Local, ShapeOf, ControlOf, HdrPcs, Recovery, MarkPcs,
       RestartPcs, FramePcs, CopyPcs, ScanPcs, CkptPcs, Marks, AfterCopy
  <1>2. CASE ~(shm.nBackfill < job[c].safe /\ Lockable({WAL_READ_LOCK(0)}) /\ LiveHdr.salt = wc[c].hdr.salt)
    <2>1. Becomes(c, AfterCopy(c), job[c],
               wc[c], tx[c])
      BY <1>s, CkptLock0Does, <1>2
    <2> QED BY <1>0, <1>l, <1>c, <1>2, <2>1, <1>m, Zeros DEF Becomes, Conn,
       ConnOf, Local, ShapeOf, ControlOf, HdrPcs, Recovery, MarkPcs,
       RestartPcs, FramePcs, CopyPcs, ScanPcs, CkptPcs, Marks, AfterCopy
  <1> QED BY <1>1, <1>2

LEMMA CkptSyncConn ==
  ASSUME LInv, SharedOK, NEW c \in Conns, Conn(c), CkptSync(c)
  PROVE  Conn(c)'
  <1>0. pc[c] = "synclog"
    BY DEF CkptSync, Step, At
  <1>s. Shaped
    BY DEF LInv, Shaped, Local
  <1>l. Local(c)
    BY DEF LInv
  <1>c. Conn(c) /\ HdrOK(LiveHdr) /\ Sized(LiveHdr)
    BY DEF SharedOK
  <1>1. Becomes(c, "copy", job[c],
             wc[c], tx[c])
    BY <1>s, CkptSyncDoes
  <1> QED BY <1>0, <1>l, <1>c, <1>1, Zeros DEF Becomes, Conn, ConnOf, Local,
     ShapeOf, ControlOf, HdrPcs, Recovery, MarkPcs, RestartPcs, FramePcs,
     CopyPcs, ScanPcs, CkptPcs, Marks

LEMMA CkptCopyConn ==
  ASSUME LInv, SharedOK, NEW c \in Conns, Conn(c), CkptCopy(c)
  PROVE  Conn(c)'
  <1>0. pc[c] = "copy"
    BY DEF CkptCopy, Step, At
  <1>s. Shaped
    BY DEF LInv, Shaped, Local
  <1>l. Local(c)
    BY DEF LInv
  <1>c. Conn(c) /\ HdrOK(LiveHdr) /\ Sized(LiveHdr)
    BY DEF SharedOK
  <1>m. Tail(job[c].list) \in Seq(Pages)
    BY <1>c DEF CkptCopy, Conn, ConnOf
  <1>1. Becomes(c, pc[c], [job[c] EXCEPT !.list = Tail(@)],
             wc[c], tx[c])
    BY <1>s, CkptCopyDoes
  <1> QED BY <1>0, <1>l, <1>c, <1>1, <1>m, Zeros DEF Becomes, Conn, ConnOf,
     Local, ShapeOf, ControlOf, HdrPcs, Recovery, MarkPcs, RestartPcs,
     FramePcs, CopyPcs, ScanPcs, CkptPcs, Marks

LEMMA CkptTruncateConn ==
  ASSUME LInv, SharedOK, NEW c \in Conns, Conn(c), CkptTruncate(c)
  PROVE  Conn(c)'
  <1>0. pc[c] = "copy"
    BY DEF CkptTruncate, Step, At
  <1>s. Shaped
    BY DEF LInv, Shaped, Local
  <1>l. Local(c)
    BY DEF LInv
  <1>c. Conn(c) /\ HdrOK(LiveHdr) /\ Sized(LiveHdr)
    BY DEF SharedOK
  <1>1. Becomes(c, IF job[c].safe = LiveHdr.mxFrame THEN "syncdb" ELSE "backfill", job[c],
             wc[c], tx[c])
    BY <1>s, CkptTruncateDoes
  <1> QED BY <1>0, <1>l, <1>c, <1>1, Zeros DEF Becomes, Conn, ConnOf, Local,
     ShapeOf, ControlOf, HdrPcs, Recovery, MarkPcs, RestartPcs, FramePcs,
     CopyPcs, ScanPcs, CkptPcs, Marks

LEMMA CkptSyncDbConn ==
  ASSUME LInv, SharedOK, NEW c \in Conns, Conn(c), CkptSyncDb(c)
  PROVE  Conn(c)'
  <1>0. pc[c] = "syncdb"
    BY DEF CkptSyncDb, Step, At
  <1>s. Shaped
    BY DEF LInv, Shaped, Local
  <1>l. Local(c)
    BY DEF LInv
  <1>c. Conn(c) /\ HdrOK(LiveHdr) /\ Sized(LiveHdr)
    BY DEF SharedOK
  <1>1. Becomes(c, "backfill", job[c],
             wc[c], tx[c])
    BY <1>s, CkptSyncDbDoes
  <1> QED BY <1>0, <1>l, <1>c, <1>1, Zeros DEF Becomes, Conn, ConnOf, Local,
     ShapeOf, ControlOf, HdrPcs, Recovery, MarkPcs, RestartPcs, FramePcs,
     CopyPcs, ScanPcs, CkptPcs, Marks

LEMMA CkptBackfillConn ==
  ASSUME LInv, SharedOK, NEW c \in Conns, Conn(c), CkptBackfill(c)
  PROVE  Conn(c)'
  <1>0. pc[c] = "backfill"
    BY DEF CkptBackfill, Step, At
  <1>s. Shaped
    BY DEF LInv, Shaped, Local
  <1>l. Local(c)
    BY DEF LInv
  <1>c. Conn(c) /\ HdrOK(LiveHdr) /\ Sized(LiveHdr)
    BY DEF SharedOK
  <1>1. Becomes(c, AfterCopy(c), job[c],
             wc[c], tx[c])
    BY <1>s, CkptBackfillDoes
  <1> QED BY <1>0, <1>l, <1>c, <1>1, Zeros DEF Becomes, Conn, ConnOf, Local,
     ShapeOf, ControlOf, HdrPcs, Recovery, MarkPcs, RestartPcs, FramePcs,
     CopyPcs, ScanPcs, CkptPcs, Marks, AfterCopy

LEMMA CkptFailsConn ==
  ASSUME LInv, SharedOK, NEW c \in Conns, Conn(c), CkptFails(c)
  PROVE  Conn(c)'
  <1>0. pc[c] \in {"synclog", "copy", "syncdb"}
    BY DEF CkptFails, Step, At
  <1>s. Shaped
    BY DEF LInv, Shaped, Local
  <1>l. Local(c)
    BY DEF LInv
  <1>c. Conn(c) /\ HdrOK(LiveHdr) /\ Sized(LiveHdr)
    BY DEF SharedOK
  <1>1. Becomes(c, "ckptend", [job[c] EXCEPT !.ok = FALSE],
             wc[c], tx[c])
    BY <1>s, CkptFailsDoes
  <1> QED BY <1>0, <1>l, <1>c, <1>1, Zeros DEF Becomes, Conn, ConnOf, Local,
     ShapeOf, ControlOf, HdrPcs, Recovery, MarkPcs, RestartPcs, FramePcs,
     CopyPcs, ScanPcs, CkptPcs, Marks

LEMMA CkptDoneConn ==
  ASSUME LInv, SharedOK, NEW c \in Conns, Conn(c), CkptDone(c)
  PROVE  Conn(c)'
  <1>0. pc[c] = "ckptdone"
    BY DEF CkptDone, Step, At
  <1>s. Shaped
    BY DEF LInv, Shaped, Local
  <1>l. Local(c)
    BY DEF LInv
  <1>c. Conn(c) /\ HdrOK(LiveHdr) /\ Sized(LiveHdr)
    BY DEF SharedOK
  <1>1. Becomes(c, IF shm.nBackfill >= wc[c].hdr.mxFrame THEN "restart" ELSE "ckptend", job[c],
             wc[c], tx[c])
    BY <1>s, CkptDoneDoes
  <1> QED BY <1>0, <1>l, <1>c, <1>1, Zeros DEF Becomes, Conn, ConnOf, Local,
     ShapeOf, ControlOf, HdrPcs, Recovery, MarkPcs, RestartPcs, FramePcs,
     CopyPcs, ScanPcs, CkptPcs, Marks

LEMMA TruncateLogConn ==
  ASSUME LInv, SharedOK, NEW c \in Conns, Conn(c), TruncateLog(c)
  PROVE  Conn(c)'
  <1>0. pc[c] = "trunclog"
    BY DEF TruncateLog, Step, At
  <1>s. Shaped
    BY DEF LInv, Shaped, Local
  <1>l. Local(c)
    BY DEF LInv
  <1>c. Conn(c) /\ HdrOK(LiveHdr) /\ Sized(LiveHdr)
    BY DEF SharedOK
  <1>1. Becomes(c, "ckptend", job[c],
             wc[c], tx[c])
    BY <1>s, TruncateLogDoes
  <1> QED BY <1>0, <1>l, <1>c, <1>1, Zeros DEF Becomes, Conn, ConnOf, Local,
     ShapeOf, ControlOf, HdrPcs, Recovery, MarkPcs, RestartPcs, FramePcs,
     CopyPcs, ScanPcs, CkptPcs, Marks

LEMMA CkptEndConn ==
  ASSUME LInv, SharedOK, NEW c \in Conns, Conn(c), CkptEnd(c)
  PROVE  Conn(c)'
  <1>0. pc[c] = "ckptend"
    BY DEF CkptEnd, Step, At
  <1>s. Shaped
    BY DEF LInv, Shaped, Local
  <1>l. Local(c)
    BY DEF LInv
  <1>c. Conn(c) /\ HdrOK(LiveHdr) /\ Sized(LiveHdr)
    BY DEF SharedOK
  <1>1. CASE Closing(c)
    <2>1. Becomes(c, "closewal", job[c],
               IF job[c].changed THEN [wc[c] EXCEPT !.hdr = ZeroHdr] ELSE wc[c], tx[c])
      BY <1>s, CkptEndDoes, <1>1
    <2> QED BY <1>0, <1>l, <1>c, <1>1, <2>1, Zeros DEF Becomes, Conn, ConnOf,
       Local, ShapeOf, ControlOf, HdrPcs, Recovery, MarkPcs, RestartPcs,
       FramePcs, CopyPcs, ScanPcs, CkptPcs, Marks, Closing, OwnWrite
  <1>2. CASE ~Closing(c)
    <2>1. Becomes(c, "idle", NoJob,
               IF job[c].changed THEN [wc[c] EXCEPT !.hdr = ZeroHdr] ELSE wc[c], tx[c])
      BY <1>s, CkptEndDoes, <1>2
    <2> QED BY <1>0, <1>l, <1>c, <1>2, <2>1, Zeros DEF Becomes, Conn, ConnOf,
       Local, ShapeOf, ControlOf, NoJob, HdrPcs, Recovery, MarkPcs,
       RestartPcs, FramePcs, CopyPcs, ScanPcs, CkptPcs, Marks, Closing,
       OwnWrite
  <1> QED BY <1>1, <1>2

LEMMA OpenConn ==
  ASSUME LInv, SharedOK, NEW c \in Conns, Conn(c), Open(c)
  PROVE  Conn(c)'
  <1>0. pc[c] = "closed"
    BY DEF Open, Step, At
  <1>s. Shaped
    BY DEF LInv, Shaped, Local
  <1>l. Local(c)
    BY DEF LInv
  <1>c. Conn(c) /\ HdrOK(LiveHdr) /\ Sized(LiveHdr)
    BY DEF SharedOK
  <1>1. Becomes(c, "idle", job[c],
             wc[c], tx[c])
    BY <1>s, OpenDoes
  <1> QED BY <1>0, <1>l, <1>c, <1>1, Zeros DEF Becomes, Conn, ConnOf, Local,
     ShapeOf, ControlOf, HdrPcs, Recovery, MarkPcs, RestartPcs, FramePcs,
     CopyPcs, ScanPcs, CkptPcs, Marks

-----------------------------------------------------------------------------
(* What each step keeps of the types, of the closing connection and of the *)
(* frames that are counted.                                                *)
LEMMA BeginReadTypes ==
  ASSUME TInv, NEW c \in Conns, BeginRead(c)
  PROVE  Types' /\ ClosingsOK' /\ LengthsOK'
  <1> USE DEF TInv
  <1>0. pc[c] = "idle" /\ ~(wc[c].readLock >= 0)
    BY DEF BeginRead, Reading, Step, At
  <1>s. Shaped
    BY DEF LInv, Shaped, Local
  <1>l. Local(c)
    BY DEF LInv
  <1>c. Conn(c) /\ SharedOK /\ FilesOK /\ CountersOK /\ CacheOK
    BY DEF Types
  <1>g. LengthOf(c) /\ LiveHdr.mxFrame <= Len(wal.frames)
    BY DEF LengthsOK
  <1>v. UNCHANGED <<db, dbDisk, wal, walDisk, shm, cache, writes, salts, setting>>
    BY DEF BeginRead, files, private, rest
  <1>k. Conn(c)'
    BY <1>c, BeginReadConn
  <1>S. SharedOK'
    BY <1>c, <1>v DEF SharedOK, LiveHdr
  <1>F. FilesOK'
    BY <1>c, <1>v DEF FilesOK
  <1>N. CountersOK'
    BY <1>c, <1>v DEF CountersOK
  <1>C. CacheOK'
    BY <1>c, <1>v DEF CacheOK
  <1>1. Becomes(c, "tryhdr", [NoJob EXCEPT !.kind = "read"],
             wc[c], tx[c])
    BY <1>s, BeginReadDoes
  <1>u. Unmoved(c) /\ (Closing(c)' => Closing(c))
    BY <1>1, <1>l DEF Becomes, Unmoved, Closing, Local, ShapeOf, NoJob
  <1>n. LengthOf(c)'
    BY <1>0, <1>l, <1>c, <1>v, <1>g, <1>1, LogLengths DEF Becomes, LengthOf,
       Reached, Local, ShapeOf, ControlOf, HdrOK, NoJob, HdrPcs, Recovery,
       MarkPcs, RestartPcs, FramePcs, CopyPcs, ScanPcs, CkptPcs, Marks
  <1>m. LengthsOK'
    BY <1>u, <1>n, <1>v, LogLengths, LengthsKept DEF LiveHdr
  <1>z. pc[c] = "closed" => \A d \in Others(c) : ~Closing(d)
    BY <1>0
  <1> QED BY <1>k, <1>S, <1>F, <1>N, <1>C, <1>u, <1>m, <1>z, StepParts

LEMMA TryHdrTypes ==
  ASSUME TInv, NEW c \in Conns, TryHdr(c)
  PROVE  Types' /\ ClosingsOK' /\ LengthsOK'
  <1> USE DEF TInv
  <1>0. pc[c] = "tryhdr"
    BY DEF TryHdr, Step, At
  <1>s. Shaped
    BY DEF LInv, Shaped, Local
  <1>l. Local(c)
    BY DEF LInv
  <1>c. Conn(c) /\ SharedOK /\ FilesOK /\ CountersOK /\ CacheOK
    BY DEF Types
  <1>g. LengthOf(c) /\ LiveHdr.mxFrame <= Len(wal.frames)
    BY DEF LengthsOK
  <1>v. UNCHANGED <<db, dbDisk, wal, walDisk, shm, cache, writes, salts, setting>>
    BY DEF TryHdr, files, private, rest
  <1>k. Conn(c)'
    BY <1>c, TryHdrConn
  <1>S. SharedOK'
    BY <1>c, <1>v DEF SharedOK, LiveHdr
  <1>F. FilesOK'
    BY <1>c, <1>v DEF FilesOK
  <1>N. CountersOK'
    BY <1>c, <1>v DEF CountersOK
  <1>C. CacheOK'
    BY <1>c, <1>v DEF CacheOK
  <1>1. Becomes(c, "tryhdr2", [job[c] EXCEPT !.h1 = LiveHdr],
             wc[c], tx[c])
    BY <1>s, TryHdrDoes
  <1>u. Unmoved(c) /\ (Closing(c)' => Closing(c))
    BY <1>1, <1>l DEF Becomes, Unmoved, Closing, Local, ShapeOf
  <1>n. LengthOf(c)'
    BY <1>0, <1>l, <1>c, <1>v, <1>g, <1>1, LogLengths DEF Becomes, LengthOf,
       Reached, Local, ShapeOf, ControlOf, HdrOK, HdrPcs, Recovery, MarkPcs,
       RestartPcs, FramePcs, CopyPcs, ScanPcs, CkptPcs, Marks
  <1>m. LengthsOK'
    BY <1>u, <1>n, <1>v, LogLengths, LengthsKept DEF LiveHdr
  <1>z. pc[c] = "closed" => \A d \in Others(c) : ~Closing(d)
    BY <1>0
  <1> QED BY <1>k, <1>S, <1>F, <1>N, <1>C, <1>u, <1>m, <1>z, StepParts

LEMMA TryHdr2Types ==
  ASSUME TInv, NEW c \in Conns, TryHdr2(c)
  PROVE  Types' /\ ClosingsOK' /\ LengthsOK'
  <1> USE DEF TInv
  <1>0. pc[c] = "tryhdr2"
    BY DEF TryHdr2, Step, At
  <1>s. Shaped
    BY DEF LInv, Shaped, Local
  <1>l. Local(c)
    BY DEF LInv
  <1>c. Conn(c) /\ SharedOK /\ FilesOK /\ CountersOK /\ CacheOK
    BY DEF Types
  <1>g. LengthOf(c) /\ LiveHdr.mxFrame <= Len(wal.frames)
    BY DEF LengthsOK
  <1>v. UNCHANGED <<db, dbDisk, wal, walDisk, shm, cache, writes, salts, setting>>
    BY DEF TryHdr2, Accept, files, private, rest
  <1>k. Conn(c)'
    BY <1>c, TryHdr2Conn
  <1>S. SharedOK'
    BY <1>c, <1>v DEF SharedOK, LiveHdr
  <1>F. FilesOK'
    BY <1>c, <1>v DEF FilesOK
  <1>N. CountersOK'
    BY <1>c, <1>v DEF CountersOK
  <1>C. CacheOK'
    BY <1>c, <1>v DEF CacheOK
  <1>1. CASE job[c].h1 = shm.hdr[2] /\ job[c].h1.isInit
    <2>1. Becomes(c, AfterHdr(c), [job[c] EXCEPT !.h1 = ZeroHdr, !.changed = @ \/ job[c].h1 # wc[c].hdr],
               [wc[c] EXCEPT !.hdr = job[c].h1], tx[c])
      BY <1>s, TryHdr2Does, <1>1
    <2>u. Unmoved(c) /\ (Closing(c)' => Closing(c))
      BY <2>1, <1>l DEF Becomes, Unmoved, Closing, Local, ShapeOf
    <2>n. LengthOf(c)'
      BY <1>0, <1>l, <1>c, <1>v, <1>g, <1>1, <2>1, LogLengths DEF Becomes,
         LengthOf, Reached, Local, ShapeOf, ControlOf, HdrOK, HdrPcs,
         Recovery, MarkPcs, RestartPcs, FramePcs, CopyPcs, ScanPcs, CkptPcs,
         Marks, AfterHdr
    <2>m. LengthsOK'
      BY <2>u, <2>n, <1>v, LogLengths, LengthsKept DEF LiveHdr
    <2>z. pc[c] = "closed" => \A d \in Others(c) : ~Closing(d)
      BY <1>0
    <2> QED BY <1>k, <1>S, <1>F, <1>N, <1>C, <2>u, <2>m, <2>z, StepParts
  <1>2. CASE ~(job[c].h1 = shm.hdr[2] /\ job[c].h1.isInit)
    <2>1. Becomes(c, "badhdr", [job[c] EXCEPT !.h1 = ZeroHdr],
               wc[c], tx[c])
      BY <1>s, TryHdr2Does, <1>2
    <2>u. Unmoved(c) /\ (Closing(c)' => Closing(c))
      BY <2>1, <1>l DEF Becomes, Unmoved, Closing, Local, ShapeOf
    <2>n. LengthOf(c)'
      BY <1>0, <1>l, <1>c, <1>v, <1>g, <1>2, <2>1, LogLengths DEF Becomes,
         LengthOf, Reached, Local, ShapeOf, ControlOf, HdrOK, HdrPcs,
         Recovery, MarkPcs, RestartPcs, FramePcs, CopyPcs, ScanPcs, CkptPcs,
         Marks, AfterHdr
    <2>m. LengthsOK'
      BY <2>u, <2>n, <1>v, LogLengths, LengthsKept DEF LiveHdr
    <2>z. pc[c] = "closed" => \A d \in Others(c) : ~Closing(d)
      BY <1>0
    <2> QED BY <1>k, <1>S, <1>F, <1>N, <1>C, <2>u, <2>m, <2>z, StepParts
  <1> QED BY <1>1, <1>2

LEMMA BadHdrTypes ==
  ASSUME TInv, NEW c \in Conns, BadHdr(c)
  PROVE  Types' /\ ClosingsOK' /\ LengthsOK'
  <1> USE DEF TInv
  <1>0. pc[c] = "badhdr"
    BY DEF BadHdr, Step, At
  <1>s. Shaped
    BY DEF LInv, Shaped, Local
  <1>l. Local(c)
    BY DEF LInv
  <1>c. Conn(c) /\ SharedOK /\ FilesOK /\ CountersOK /\ CacheOK
    BY DEF Types
  <1>g. LengthOf(c) /\ LiveHdr.mxFrame <= Len(wal.frames)
    BY DEF LengthsOK
  <1>v. UNCHANGED <<db, dbDisk, wal, walDisk, shm, cache, writes, salts, setting>>
    BY DEF BadHdr, Accept, files, private, rest
  <1>k. Conn(c)'
    BY <1>c, BadHdrConn
  <1>S. SharedOK'
    BY <1>c, <1>v DEF SharedOK, LiveHdr
  <1>F. FilesOK'
    BY <1>c, <1>v DEF FilesOK
  <1>N. CountersOK'
    BY <1>c, <1>v DEF CountersOK
  <1>C. CacheOK'
    BY <1>c, <1>v DEF CacheOK
  <1>1. CASE shm.hdr[1] = shm.hdr[2] /\ LiveHdr.isInit
    <2>1. Becomes(c, AfterHdr(c), [job[c] EXCEPT !.h1 = ZeroHdr, !.changed = @ \/ LiveHdr # wc[c].hdr],
               [wc[c] EXCEPT !.hdr = LiveHdr], tx[c])
      BY <1>s, BadHdrDoes, <1>1
    <2>u. Unmoved(c) /\ (Closing(c)' => Closing(c))
      BY <2>1, <1>l DEF Becomes, Unmoved, Closing, Local, ShapeOf
    <2>n. LengthOf(c)'
      BY <1>0, <1>l, <1>c, <1>v, <1>g, <1>1, <2>1, LogLengths DEF Becomes,
         LengthOf, Reached, Local, ShapeOf, ControlOf, HdrOK, HdrPcs,
         Recovery, MarkPcs, RestartPcs, FramePcs, CopyPcs, ScanPcs, CkptPcs,
         Marks, AfterHdr
    <2>m. LengthsOK'
      BY <2>u, <2>n, <1>v, LogLengths, LengthsKept DEF LiveHdr
    <2>z. pc[c] = "closed" => \A d \in Others(c) : ~Closing(d)
      BY <1>0
    <2> QED BY <1>k, <1>S, <1>F, <1>N, <1>C, <2>u, <2>m, <2>z, StepParts
  <1>2. CASE ~(shm.hdr[1] = shm.hdr[2] /\ LiveHdr.isInit)
    <2>1. Becomes(c, "recover", job[c],
               wc[c], tx[c])
      BY <1>s, BadHdrDoes, <1>2
    <2>u. Unmoved(c) /\ (Closing(c)' => Closing(c))
      BY <2>1, <1>l DEF Becomes, Unmoved, Closing, Local, ShapeOf
    <2>n. LengthOf(c)'
      BY <1>0, <1>l, <1>c, <1>v, <1>g, <1>2, <2>1, LogLengths DEF Becomes,
         LengthOf, Reached, Local, ShapeOf, ControlOf, HdrOK, HdrPcs,
         Recovery, MarkPcs, RestartPcs, FramePcs, CopyPcs, ScanPcs, CkptPcs,
         Marks, AfterHdr
    <2>m. LengthsOK'
      BY <2>u, <2>n, <1>v, LogLengths, LengthsKept DEF LiveHdr
    <2>z. pc[c] = "closed" => \A d \in Others(c) : ~Closing(d)
      BY <1>0
    <2> QED BY <1>k, <1>S, <1>F, <1>N, <1>C, <2>u, <2>m, <2>z, StepParts
  <1> QED BY <1>1, <1>2

LEMMA BadHdrBusyTypes ==
  ASSUME TInv, NEW c \in Conns, BadHdrBusy(c)
  PROVE  Types' /\ ClosingsOK' /\ LengthsOK'
  <1> USE DEF TInv
  <1>0. pc[c] = "badhdr"
    BY DEF BadHdrBusy, Step, At
  <1>s. Shaped
    BY DEF LInv, Shaped, Local
  <1>l. Local(c)
    BY DEF LInv
  <1>c. Conn(c) /\ SharedOK /\ FilesOK /\ CountersOK /\ CacheOK
    BY DEF Types
  <1>g. LengthOf(c) /\ LiveHdr.mxFrame <= Len(wal.frames)
    BY DEF LengthsOK
  <1>v. UNCHANGED <<db, dbDisk, wal, walDisk, shm, writes, salts, setting>>
    BY DEF BadHdrBusy, ReadBusy, files, private, rest
  <1>k. Conn(c)'
    BY <1>c, BadHdrBusyConn
  <1>S. SharedOK'
    BY <1>c, <1>v DEF SharedOK, LiveHdr
  <1>F. FilesOK'
    BY <1>c, <1>v DEF FilesOK
  <1>N. CountersOK'
    BY <1>c, <1>v DEF CountersOK
  <1>C. CacheOK'
    BY <1>c, <1>v DEF CacheOK, BadHdrBusy, ReadBusy
  <1>1. CASE job[c].kind = "ckpt"
    <2>1. Becomes(c, "ckptend", [job[c] EXCEPT !.ok = FALSE],
               wc[c], tx[c])
      BY <1>s, BadHdrBusyDoes, <1>1
    <2>u. Unmoved(c) /\ (Closing(c)' => Closing(c))
      BY <2>1, <1>l DEF Becomes, Unmoved, Closing, Local, ShapeOf
    <2>n. LengthOf(c)'
      BY <1>0, <1>l, <1>c, <1>v, <1>g, <1>1, <2>1, LogLengths DEF Becomes,
         LengthOf, Reached, Local, ShapeOf, ControlOf, HdrOK, HdrPcs,
         Recovery, MarkPcs, RestartPcs, FramePcs, CopyPcs, ScanPcs, CkptPcs,
         Marks
    <2>m. LengthsOK'
      BY <2>u, <2>n, <1>v, LogLengths, LengthsKept DEF LiveHdr
    <2>z. pc[c] = "closed" => \A d \in Others(c) : ~Closing(d)
      BY <1>0
    <2> QED BY <1>k, <1>S, <1>F, <1>N, <1>C, <2>u, <2>m, <2>z, StepParts
  <1>2. CASE job[c].kind # "ckpt" /\ Sharable(WAL_RECOVER_LOCK)
    <2>1. Becomes(c, "tryhdr", job[c],
               wc[c], tx[c])
      BY <1>s, BadHdrBusyDoes, <1>2
    <2>u. Unmoved(c) /\ (Closing(c)' => Closing(c))
      BY <2>1, <1>l DEF Becomes, Unmoved, Closing, Local, ShapeOf
    <2>n. LengthOf(c)'
      BY <1>0, <1>l, <1>c, <1>v, <1>g, <1>2, <2>1, LogLengths DEF Becomes,
         LengthOf, Reached, Local, ShapeOf, ControlOf, HdrOK, HdrPcs,
         Recovery, MarkPcs, RestartPcs, FramePcs, CopyPcs, ScanPcs, CkptPcs,
         Marks
    <2>m. LengthsOK'
      BY <2>u, <2>n, <1>v, LogLengths, LengthsKept DEF LiveHdr
    <2>z. pc[c] = "closed" => \A d \in Others(c) : ~Closing(d)
      BY <1>0
    <2> QED BY <1>k, <1>S, <1>F, <1>N, <1>C, <2>u, <2>m, <2>z, StepParts
  <1>3. CASE job[c].kind # "ckpt" /\ ~Sharable(WAL_RECOVER_LOCK)
    <2>1. Becomes(c, "idle", NoJob,
               wc[c], tx[c])
      BY <1>s, BadHdrBusyDoes, <1>3
    <2>u. Unmoved(c) /\ (Closing(c)' => Closing(c))
      BY <2>1, <1>l DEF Becomes, Unmoved, Closing, Local, ShapeOf, NoJob
    <2>n. LengthOf(c)'
      BY <1>0, <1>l, <1>c, <1>v, <1>g, <1>3, <2>1, LogLengths DEF Becomes,
         LengthOf, Reached, Local, ShapeOf, ControlOf, HdrOK, NoJob, HdrPcs,
         Recovery, MarkPcs, RestartPcs, FramePcs, CopyPcs, ScanPcs, CkptPcs,
         Marks
    <2>m. LengthsOK'
      BY <2>u, <2>n, <1>v, LogLengths, LengthsKept DEF LiveHdr
    <2>z. pc[c] = "closed" => \A d \in Others(c) : ~Closing(d)
      BY <1>0
    <2> QED BY <1>k, <1>S, <1>F, <1>N, <1>C, <2>u, <2>m, <2>z, StepParts
  <1> QED BY <1>1, <1>2, <1>3

LEMMA RecoverLockTypes ==
  ASSUME TInv, NEW c \in Conns, RecoverLock(c)
  PROVE  Types' /\ ClosingsOK' /\ LengthsOK'
  <1> USE DEF TInv
  <1>0. pc[c] = "recover"
    BY DEF RecoverLock, Step, At
  <1>s. Shaped
    BY DEF LInv, Shaped, Local
  <1>l. Local(c)
    BY DEF LInv
  <1>c. Conn(c) /\ SharedOK /\ FilesOK /\ CountersOK /\ CacheOK
    BY DEF Types
  <1>g. LengthOf(c) /\ LiveHdr.mxFrame <= Len(wal.frames)
    BY DEF LengthsOK
  <1>v. UNCHANGED <<db, dbDisk, wal, walDisk, shm, cache, writes, salts, setting>>
    BY DEF RecoverLock, files, private, rest
  <1>k. Conn(c)'
    BY <1>c, RecoverLockConn
  <1>S. SharedOK'
    BY <1>c, <1>v DEF SharedOK, LiveHdr
  <1>F. FilesOK'
    BY <1>c, <1>v DEF FilesOK
  <1>N. CountersOK'
    BY <1>c, <1>v DEF CountersOK
  <1>C. CacheOK'
    BY <1>c, <1>v DEF CacheOK
  <1>1. Becomes(c, "recover1", job[c],
             wc[c], tx[c])
    BY <1>s, RecoverLockDoes
  <1>u. Unmoved(c) /\ (Closing(c)' => Closing(c))
    BY <1>1, <1>l DEF Becomes, Unmoved, Closing, Local, ShapeOf
  <1>n. LengthOf(c)'
    BY <1>0, <1>l, <1>c, <1>v, <1>g, <1>1, LogLengths DEF Becomes, LengthOf,
       Reached, Local, ShapeOf, ControlOf, HdrOK, HdrPcs, Recovery, MarkPcs,
       RestartPcs, FramePcs, CopyPcs, ScanPcs, CkptPcs, Marks
  <1>m. LengthsOK'
    BY <1>u, <1>n, <1>v, LogLengths, LengthsKept DEF LiveHdr
  <1>z. pc[c] = "closed" => \A d \in Others(c) : ~Closing(d)
    BY <1>0
  <1> QED BY <1>k, <1>S, <1>F, <1>N, <1>C, <1>u, <1>m, <1>z, StepParts

LEMMA RecoverBusyTypes ==
  ASSUME TInv, NEW c \in Conns, RecoverBusy(c)
  PROVE  Types' /\ ClosingsOK' /\ LengthsOK'
  <1> USE DEF TInv
  <1>0. pc[c] = "recover"
    BY DEF RecoverBusy, Step, At
  <1>s. Shaped
    BY DEF LInv, Shaped, Local
  <1>l. Local(c)
    BY DEF LInv
  <1>c. Conn(c) /\ SharedOK /\ FilesOK /\ CountersOK /\ CacheOK
    BY DEF Types
  <1>g. LengthOf(c) /\ LiveHdr.mxFrame <= Len(wal.frames)
    BY DEF LengthsOK
  <1>v. UNCHANGED <<db, dbDisk, wal, walDisk, shm, writes, salts, setting>>
    BY DEF RecoverBusy, ReadBusy, files, private, rest
  <1>k. Conn(c)'
    BY <1>c, RecoverBusyConn
  <1>S. SharedOK'
    BY <1>c, <1>v DEF SharedOK, LiveHdr
  <1>F. FilesOK'
    BY <1>c, <1>v DEF FilesOK
  <1>N. CountersOK'
    BY <1>c, <1>v DEF CountersOK
  <1>C. CacheOK'
    BY <1>c, <1>v DEF CacheOK, RecoverBusy, ReadBusy
  <1>1. CASE OwnWrite(c) /\ job[c].kind = "ckpt"
    <2>1. Becomes(c, "ckptend", [job[c] EXCEPT !.changed = TRUE, !.ok = FALSE],
               wc[c], tx[c])
      BY <1>s, RecoverBusyDoes, <1>1
    <2>u. Unmoved(c) /\ (Closing(c)' => Closing(c))
      BY <2>1, <1>l DEF Becomes, Unmoved, Closing, Local, ShapeOf
    <2>n. LengthOf(c)'
      BY <1>0, <1>l, <1>c, <1>v, <1>g, <1>1, <2>1, LogLengths DEF Becomes,
         LengthOf, Reached, Local, ShapeOf, ControlOf, HdrOK, HdrPcs,
         Recovery, MarkPcs, RestartPcs, FramePcs, CopyPcs, ScanPcs, CkptPcs,
         Marks, OwnWrite
    <2>m. LengthsOK'
      BY <2>u, <2>n, <1>v, LogLengths, LengthsKept DEF LiveHdr
    <2>z. pc[c] = "closed" => \A d \in Others(c) : ~Closing(d)
      BY <1>0
    <2> QED BY <1>k, <1>S, <1>F, <1>N, <1>C, <2>u, <2>m, <2>z, StepParts
  <1>2. CASE OwnWrite(c) /\ job[c].kind # "ckpt" /\ Sharable(WAL_RECOVER_LOCK)
    <2>1. Becomes(c, "tryhdr", [job[c] EXCEPT !.changed = TRUE],
               wc[c], tx[c])
      BY <1>s, RecoverBusyDoes, <1>2
    <2>u. Unmoved(c) /\ (Closing(c)' => Closing(c))
      BY <2>1, <1>l DEF Becomes, Unmoved, Closing, Local, ShapeOf
    <2>n. LengthOf(c)'
      BY <1>0, <1>l, <1>c, <1>v, <1>g, <1>2, <2>1, LogLengths DEF Becomes,
         LengthOf, Reached, Local, ShapeOf, ControlOf, HdrOK, HdrPcs,
         Recovery, MarkPcs, RestartPcs, FramePcs, CopyPcs, ScanPcs, CkptPcs,
         Marks, OwnWrite
    <2>m. LengthsOK'
      BY <2>u, <2>n, <1>v, LogLengths, LengthsKept DEF LiveHdr
    <2>z. pc[c] = "closed" => \A d \in Others(c) : ~Closing(d)
      BY <1>0
    <2> QED BY <1>k, <1>S, <1>F, <1>N, <1>C, <2>u, <2>m, <2>z, StepParts
  <1>3. CASE OwnWrite(c) /\ job[c].kind # "ckpt" /\ ~Sharable(WAL_RECOVER_LOCK)
    <2>1. Becomes(c, "idle", NoJob,
               wc[c], tx[c])
      BY <1>s, RecoverBusyDoes, <1>3
    <2>u. Unmoved(c) /\ (Closing(c)' => Closing(c))
      BY <2>1, <1>l DEF Becomes, Unmoved, Closing, Local, ShapeOf, NoJob
    <2>n. LengthOf(c)'
      BY <1>0, <1>l, <1>c, <1>v, <1>g, <1>3, <2>1, LogLengths DEF Becomes,
         LengthOf, Reached, Local, ShapeOf, ControlOf, HdrOK, NoJob, HdrPcs,
         Recovery, MarkPcs, RestartPcs, FramePcs, CopyPcs, ScanPcs, CkptPcs,
         Marks, OwnWrite
    <2>m. LengthsOK'
      BY <2>u, <2>n, <1>v, LogLengths, LengthsKept DEF LiveHdr
    <2>z. pc[c] = "closed" => \A d \in Others(c) : ~Closing(d)
      BY <1>0
    <2> QED BY <1>k, <1>S, <1>F, <1>N, <1>C, <2>u, <2>m, <2>z, StepParts
  <1>4. CASE ~OwnWrite(c) /\ job[c].kind = "ckpt"
    <2>1. Becomes(c, "ckptend", [job[c] EXCEPT !.changed = TRUE, !.ok = FALSE],
               wc[c], tx[c])
      BY <1>s, RecoverBusyDoes, <1>4
    <2>u. Unmoved(c) /\ (Closing(c)' => Closing(c))
      BY <2>1, <1>l DEF Becomes, Unmoved, Closing, Local, ShapeOf
    <2>n. LengthOf(c)'
      BY <1>0, <1>l, <1>c, <1>v, <1>g, <1>4, <2>1, LogLengths DEF Becomes,
         LengthOf, Reached, Local, ShapeOf, ControlOf, HdrOK, HdrPcs,
         Recovery, MarkPcs, RestartPcs, FramePcs, CopyPcs, ScanPcs, CkptPcs,
         Marks, OwnWrite
    <2>m. LengthsOK'
      BY <2>u, <2>n, <1>v, LogLengths, LengthsKept DEF LiveHdr
    <2>z. pc[c] = "closed" => \A d \in Others(c) : ~Closing(d)
      BY <1>0
    <2> QED BY <1>k, <1>S, <1>F, <1>N, <1>C, <2>u, <2>m, <2>z, StepParts
  <1>5. CASE ~OwnWrite(c) /\ job[c].kind # "ckpt" /\ Sharable(WAL_RECOVER_LOCK)
    <2>1. Becomes(c, "tryhdr", [job[c] EXCEPT !.changed = TRUE],
               wc[c], tx[c])
      BY <1>s, RecoverBusyDoes, <1>5
    <2>u. Unmoved(c) /\ (Closing(c)' => Closing(c))
      BY <2>1, <1>l DEF Becomes, Unmoved, Closing, Local, ShapeOf
    <2>n. LengthOf(c)'
      BY <1>0, <1>l, <1>c, <1>v, <1>g, <1>5, <2>1, LogLengths DEF Becomes,
         LengthOf, Reached, Local, ShapeOf, ControlOf, HdrOK, HdrPcs,
         Recovery, MarkPcs, RestartPcs, FramePcs, CopyPcs, ScanPcs, CkptPcs,
         Marks, OwnWrite
    <2>m. LengthsOK'
      BY <2>u, <2>n, <1>v, LogLengths, LengthsKept DEF LiveHdr
    <2>z. pc[c] = "closed" => \A d \in Others(c) : ~Closing(d)
      BY <1>0
    <2> QED BY <1>k, <1>S, <1>F, <1>N, <1>C, <2>u, <2>m, <2>z, StepParts
  <1>6. CASE ~OwnWrite(c) /\ job[c].kind # "ckpt" /\ ~Sharable(WAL_RECOVER_LOCK)
    <2>1. Becomes(c, "idle", NoJob,
               wc[c], tx[c])
      BY <1>s, RecoverBusyDoes, <1>6
    <2>u. Unmoved(c) /\ (Closing(c)' => Closing(c))
      BY <2>1, <1>l DEF Becomes, Unmoved, Closing, Local, ShapeOf, NoJob
    <2>n. LengthOf(c)'
      BY <1>0, <1>l, <1>c, <1>v, <1>g, <1>6, <2>1, LogLengths DEF Becomes,
         LengthOf, Reached, Local, ShapeOf, ControlOf, HdrOK, NoJob, HdrPcs,
         Recovery, MarkPcs, RestartPcs, FramePcs, CopyPcs, ScanPcs, CkptPcs,
         Marks, OwnWrite
    <2>m. LengthsOK'
      BY <2>u, <2>n, <1>v, LogLengths, LengthsKept DEF LiveHdr
    <2>z. pc[c] = "closed" => \A d \in Others(c) : ~Closing(d)
      BY <1>0
    <2> QED BY <1>k, <1>S, <1>F, <1>N, <1>C, <2>u, <2>m, <2>z, StepParts
  <1> QED BY <1>1, <1>2, <1>3, <1>4, <1>5, <1>6

LEMMA RecoverLogTypes ==
  ASSUME TInv, NEW c \in Conns, RecoverLog(c)
  PROVE  Types' /\ ClosingsOK' /\ LengthsOK'
  <1> USE DEF TInv
  <1>0. pc[c] = "recover1"
    BY DEF RecoverLog, Step, At
  <1>s. Shaped
    BY DEF LInv, Shaped, Local
  <1>l. Local(c)
    BY DEF LInv
  <1>c. Conn(c) /\ SharedOK /\ FilesOK /\ CountersOK /\ CacheOK
    BY DEF Types
  <1>g. LengthOf(c) /\ LiveHdr.mxFrame <= Len(wal.frames)
    BY DEF LengthsOK
  <1>v. UNCHANGED <<db, dbDisk, wal, walDisk, cache, writes, salts, setting>>
    BY DEF RecoverLog, files, private, rest
  <1>k. Conn(c)'
    BY <1>c, RecoverLogConn
  <1>h. LiveHdr' = LiveHdr
    BY <1>c DEF RecoverLog, SharedOK, LiveHdr
  <1>S. SharedOK'
    BY <1>c, <1>v DEF SharedOK, LiveHdr, RecoverLog
  <1>F. FilesOK'
    BY <1>c, <1>v DEF FilesOK
  <1>N. CountersOK'
    BY <1>c, <1>v DEF CountersOK
  <1>C. CacheOK'
    BY <1>c, <1>v DEF CacheOK
  <1>1. Becomes(c, "recover2", job[c],
             [wc[c] EXCEPT !.hdr = RecoveredHdr(wal), !.nCkpt = IF HasFrames(wal) THEN wal.nCkpt ELSE @], tx[c])
    BY <1>s, RecoverLogDoes
  <1>u. Unmoved(c) /\ (Closing(c)' => Closing(c))
    BY <1>1, <1>l DEF Becomes, Unmoved, Closing, Local, ShapeOf
  <1>n. LengthOf(c)'
    <2>1. /\ pc'[c] = "recover2" /\ wc'[c].hdr = RecoveredHdr(wal)
      BY <1>1, <1>l DEF Becomes, Local, ShapeOf
    <2>2. ~tx'[c].on /\ wal' = wal
      BY <1>0, <1>1, <1>l, <1>v DEF Becomes, Local, ControlOf, HdrPcs, Recovery, MarkPcs, RestartPcs,
                               FramePcs
    <2>3. RecoveredHdr(wal).mxFrame = LastCommit(wal) /\ LastCommit(wal) \in 0 .. Len(wal.frames)
      BY <1>c, RecoveredOK, RecoveredFacts DEF FilesOK
    <2>4. RecoveredHdr(wal).mxFrame + 0 <= Len(wal.frames)
      BY <2>3
    <2> QED BY <2>1, <2>2, <2>4 DEF LengthOf, Reached
  <1>m. LengthsOK'
    BY <1>u, <1>n, <1>v, <1>h, LogLengths, LengthsKept DEF LiveHdr
  <1>z. pc[c] = "closed" => \A d \in Others(c) : ~Closing(d)
    BY <1>0
  <1> QED BY <1>k, <1>S, <1>F, <1>N, <1>C, <1>u, <1>m, <1>z, StepParts

LEMMA RecoverHdr0Types ==
  ASSUME TInv, NEW c \in Conns, RecoverHdr0(c)
  PROVE  Types' /\ ClosingsOK' /\ LengthsOK'
  <1> USE DEF TInv
  <1>0. pc[c] = "recover2"
    BY DEF RecoverHdr0, Step, At
  <1>s. Shaped
    BY DEF LInv, Shaped, Local
  <1>l. Local(c)
    BY DEF LInv
  <1>c. Conn(c) /\ SharedOK /\ FilesOK /\ CountersOK /\ CacheOK
    BY DEF Types
  <1>g. LengthOf(c) /\ LiveHdr.mxFrame <= Len(wal.frames)
    BY DEF LengthsOK
  <1>v. UNCHANGED <<db, dbDisk, wal, walDisk, cache, writes, salts, setting>>
    BY DEF RecoverHdr0, files, private, rest
  <1>k. Conn(c)'
    BY <1>c, RecoverHdr0Conn
  <1>a. HdrOK(wc[c].hdr) /\ Sized(wc[c].hdr)
    BY <1>0, <1>l, <1>c DEF Conn, ConnOf, Local, ControlOf, HdrPcs, Recovery, MarkPcs, RestartPcs,
                            FramePcs
  <1>h. SharedOK' /\ LiveHdr' = wc[c].hdr
    BY <1>a, <1>c, LiveMoved DEF RecoverHdr0
  <1>S. SharedOK'
    BY <1>h
  <1>F. FilesOK'
    BY <1>c, <1>v DEF FilesOK
  <1>N. CountersOK'
    BY <1>c, <1>v DEF CountersOK
  <1>C. CacheOK'
    BY <1>c, <1>v DEF CacheOK
  <1>1. Becomes(c, "recover3", job[c],
             wc[c], tx[c])
    BY <1>s, RecoverHdr0Does
  <1>u. Unmoved(c) /\ (Closing(c)' => Closing(c))
    BY <1>1, <1>l DEF Becomes, Unmoved, Closing, Local, ShapeOf
  <1>n. LengthOf(c)'
    BY <1>0, <1>l, <1>c, <1>v, <1>g, <1>1, LogLengths DEF Becomes, LengthOf,
       Reached, Local, ShapeOf, ControlOf, HdrOK, HdrPcs, Recovery, MarkPcs,
       RestartPcs, FramePcs, CopyPcs, ScanPcs, CkptPcs, Marks
  <1>m. LengthsOK'
    <2>1. LiveHdr'.mxFrame <= Len(wal'.frames)
      BY <1>0, <1>h, <1>g, <1>v, LogLengths DEF LengthOf, Reached
    <2>2. Excl(c, WAL_WRITE_LOCK)
      BY <1>0 DEF Excl, ExclOf, Recovery
    <2> QED BY <1>u, <1>n, <2>1, <2>2, LengthsMoved
  <1>z. pc[c] = "closed" => \A d \in Others(c) : ~Closing(d)
    BY <1>0
  <1> QED BY <1>k, <1>S, <1>F, <1>N, <1>C, <1>u, <1>m, <1>z, StepParts

LEMMA RecoverInfoTypes ==
  ASSUME TInv, NEW c \in Conns, RecoverInfo(c)
  PROVE  Types' /\ ClosingsOK' /\ LengthsOK'
  <1> USE DEF TInv
  <1>0. pc[c] = "recover3"
    BY DEF RecoverInfo, Step, At
  <1>s. Shaped
    BY DEF LInv, Shaped, Local
  <1>l. Local(c)
    BY DEF LInv
  <1>c. Conn(c) /\ SharedOK /\ FilesOK /\ CountersOK /\ CacheOK
    BY DEF Types
  <1>g. LengthOf(c) /\ LiveHdr.mxFrame <= Len(wal.frames)
    BY DEF LengthsOK
  <1>v. UNCHANGED <<db, dbDisk, wal, walDisk, cache, writes, salts, setting>>
    BY DEF RecoverInfo, files, private, rest
  <1>k. Conn(c)'
    BY <1>c, RecoverInfoConn
  <1>h. LiveHdr' = LiveHdr
    BY <1>c DEF RecoverInfo, SharedOK, LiveHdr
  <1>S. SharedOK'
    <2> DEFINE n == wc[c].hdr.mxFrame
               free(i) == Lockable({WAL_READ_LOCK(i)})
               m == [i \in 0 .. WAL_NREADER - 1 |->
                       IF i = 0 THEN 0
                       ELSE IF ~free(i) THEN shm.aReadMark[i]
                       ELSE IF i = 1 /\ n > 0 THEN n ELSE READMARK_NOT_USED]
    <2>1. DOMAIN shm = {"hdr", "nBackfill", "aReadMark", "aPgno"}
      BY <1>c DEF SharedOK
    <2>2. n \in Nat /\ shm.aReadMark \in [0 .. WAL_NREADER - 1 -> Nat]
      BY <1>c DEF SharedOK, Conn, ConnOf, HdrOK
    <2>3. shm' = [shm EXCEPT !.nBackfill = 0, !.aReadMark = m]
      BY DEF RecoverInfo
    <2>4. m \in [0 .. WAL_NREADER - 1 -> Nat]
      <3>1. READMARK_NOT_USED \in Nat
        BY SMT DEF READMARK_NOT_USED
      <3> HIDE DEF n, free
      <3> QED BY <2>2, <3>1
    <2> HIDE DEF m
    <2>5. /\ DOMAIN shm' = DOMAIN shm /\ shm'.hdr = shm.hdr /\ shm'.nBackfill = 0
          /\ shm'.aReadMark = m
      BY <2>1, <2>3
    <2> QED BY <1>c, <2>4, <2>5, SharedKept
  <1>F. FilesOK'
    BY <1>c, <1>v DEF FilesOK
  <1>N. CountersOK'
    BY <1>c, <1>v DEF CountersOK
  <1>C. CacheOK'
    BY <1>c, <1>v DEF CacheOK
  <1>1. Becomes(c, AfterHdr(c), [job[c] EXCEPT !.changed = TRUE],
             wc[c], tx[c])
    BY <1>s, RecoverInfoDoes
  <1>u. Unmoved(c) /\ (Closing(c)' => Closing(c))
    BY <1>1, <1>l DEF Becomes, Unmoved, Closing, Local, ShapeOf
  <1>n. LengthOf(c)'
    BY <1>0, <1>l, <1>c, <1>v, <1>g, <1>1, LogLengths DEF Becomes, LengthOf,
       Reached, Local, ShapeOf, ControlOf, HdrOK, HdrPcs, Recovery, MarkPcs,
       RestartPcs, FramePcs, CopyPcs, ScanPcs, CkptPcs, Marks, AfterHdr,
       OwnWrite
  <1>m. LengthsOK'
    BY <1>u, <1>n, <1>v, <1>h, LogLengths, LengthsKept DEF LiveHdr
  <1>z. pc[c] = "closed" => \A d \in Others(c) : ~Closing(d)
    BY <1>0
  <1> QED BY <1>k, <1>S, <1>F, <1>N, <1>C, <1>u, <1>m, <1>z, StepParts

LEMMA ChooseDbTypes ==
  ASSUME TInv, NEW c \in Conns, ChooseDb(c)
  PROVE  Types' /\ ClosingsOK' /\ LengthsOK'
  <1> USE DEF TInv
  <1>0. pc[c] = "choose"
    BY DEF ChooseDb, Step, At
  <1>s. Shaped
    BY DEF LInv, Shaped, Local
  <1>l. Local(c)
    BY DEF LInv
  <1>c. Conn(c) /\ SharedOK /\ FilesOK /\ CountersOK /\ CacheOK
    BY DEF Types
  <1>g. LengthOf(c) /\ LiveHdr.mxFrame <= Len(wal.frames)
    BY DEF LengthsOK
  <1>v. UNCHANGED <<db, dbDisk, wal, walDisk, shm, cache, writes, salts, setting>>
    BY DEF ChooseDb, files, private, rest
  <1>k. Conn(c)'
    BY <1>c, ChooseDbConn
  <1>S. SharedOK'
    BY <1>c, <1>v DEF SharedOK, LiveHdr
  <1>F. FilesOK'
    BY <1>c, <1>v DEF FilesOK
  <1>N. CountersOK'
    BY <1>c, <1>v DEF CountersOK
  <1>C. CacheOK'
    BY <1>c, <1>v DEF CacheOK
  <1>1. Becomes(c, "check0", job[c],
             wc[c], tx[c])
    BY <1>s, ChooseDbDoes
  <1>u. Unmoved(c) /\ (Closing(c)' => Closing(c))
    BY <1>1, <1>l DEF Becomes, Unmoved, Closing, Local, ShapeOf
  <1>n. LengthOf(c)'
    BY <1>0, <1>l, <1>c, <1>v, <1>g, <1>1, LogLengths DEF Becomes, LengthOf,
       Reached, Local, ShapeOf, ControlOf, HdrOK, HdrPcs, Recovery, MarkPcs,
       RestartPcs, FramePcs, CopyPcs, ScanPcs, CkptPcs, Marks
  <1>m. LengthsOK'
    BY <1>u, <1>n, <1>v, LogLengths, LengthsKept DEF LiveHdr
  <1>z. pc[c] = "closed" => \A d \in Others(c) : ~Closing(d)
    BY <1>0
  <1> QED BY <1>k, <1>S, <1>F, <1>N, <1>C, <1>u, <1>m, <1>z, StepParts

LEMMA Check0Types ==
  ASSUME TInv, NEW c \in Conns, Check0(c)
  PROVE  Types' /\ ClosingsOK' /\ LengthsOK'
  <1> USE DEF TInv
  <1>0. pc[c] = "check0"
    BY DEF Check0, Step, At
  <1>s. Shaped
    BY DEF LInv, Shaped, Local
  <1>l. Local(c)
    BY DEF LInv
  <1>c. Conn(c) /\ SharedOK /\ FilesOK /\ CountersOK /\ CacheOK
    BY DEF Types
  <1>g. LengthOf(c) /\ LiveHdr.mxFrame <= Len(wal.frames)
    BY DEF LengthsOK
  <1>v. UNCHANGED <<db, dbDisk, wal, walDisk, shm, writes, salts, setting>>
    BY DEF Check0, ReadBegun, Retry, files, private, rest
  <1>k. Conn(c)'
    BY <1>c, Check0Conn
  <1>S. SharedOK'
    BY <1>c, <1>v DEF SharedOK, LiveHdr
  <1>F. FilesOK'
    BY <1>c, <1>v DEF FilesOK
  <1>N. CountersOK'
    BY <1>c, <1>v DEF CountersOK
  <1>C. CacheOK'
    BY <1>c, CacheLost DEF Check0, ReadBegun, Retry
  <1>1. CASE wc[c].hdr = LiveHdr /\ job[c].useWal
    <2>1. Becomes(c, "log", [job[c] EXCEPT !.useWal = FALSE],
               [wc[c] EXCEPT !.readLock = 0], tx[c])
      BY <1>s, Check0Does, <1>1
    <2>u. Unmoved(c) /\ (Closing(c)' => Closing(c))
      BY <2>1, <1>l DEF Becomes, Unmoved, Closing, Local, ShapeOf
    <2>n. LengthOf(c)'
      BY <1>0, <1>l, <1>c, <1>v, <1>g, <1>1, <2>1, LogLengths DEF Becomes,
         LengthOf, Reached, Local, ShapeOf, ControlOf, HdrOK, HdrPcs,
         Recovery, MarkPcs, RestartPcs, FramePcs, CopyPcs, ScanPcs, CkptPcs,
         Marks
    <2>m. LengthsOK'
      BY <2>u, <2>n, <1>v, LogLengths, LengthsKept DEF LiveHdr
    <2>z. pc[c] = "closed" => \A d \in Others(c) : ~Closing(d)
      BY <1>0
    <2> QED BY <1>k, <1>S, <1>F, <1>N, <1>C, <2>u, <2>m, <2>z, StepParts
  <1>2. CASE wc[c].hdr = LiveHdr /\ ~job[c].useWal
    <2>1. Becomes(c, "idle", NoJob,
               [wc[c] EXCEPT !.readLock = 0], tx[c])
      BY <1>s, Check0Does, <1>2
    <2>u. Unmoved(c) /\ (Closing(c)' => Closing(c))
      BY <2>1, <1>l DEF Becomes, Unmoved, Closing, Local, ShapeOf, NoJob
    <2>n. LengthOf(c)'
      BY <1>0, <1>l, <1>c, <1>v, <1>g, <1>2, <2>1, LogLengths DEF Becomes,
         LengthOf, Reached, Local, ShapeOf, ControlOf, HdrOK, NoJob, HdrPcs,
         Recovery, MarkPcs, RestartPcs, FramePcs, CopyPcs, ScanPcs, CkptPcs,
         Marks
    <2>m. LengthsOK'
      BY <2>u, <2>n, <1>v, LogLengths, LengthsKept DEF LiveHdr
    <2>z. pc[c] = "closed" => \A d \in Others(c) : ~Closing(d)
      BY <1>0
    <2> QED BY <1>k, <1>S, <1>F, <1>N, <1>C, <2>u, <2>m, <2>z, StepParts
  <1>3. CASE wc[c].hdr # LiveHdr
    <2>1. Becomes(c, IF job[c].useWal THEN "scan" ELSE "tryhdr", [job[c] EXCEPT !.mxI = 0, !.mark = 0],
               wc[c], tx[c])
      BY <1>s, Check0Does, <1>3
    <2>u. Unmoved(c) /\ (Closing(c)' => Closing(c))
      BY <2>1, <1>l DEF Becomes, Unmoved, Closing, Local, ShapeOf
    <2>n. LengthOf(c)'
      BY <1>0, <1>l, <1>c, <1>v, <1>g, <1>3, <2>1, LogLengths DEF Becomes,
         LengthOf, Reached, Local, ShapeOf, ControlOf, HdrOK, HdrPcs,
         Recovery, MarkPcs, RestartPcs, FramePcs, CopyPcs, ScanPcs, CkptPcs,
         Marks
    <2>m. LengthsOK'
      BY <2>u, <2>n, <1>v, LogLengths, LengthsKept DEF LiveHdr
    <2>z. pc[c] = "closed" => \A d \in Others(c) : ~Closing(d)
      BY <1>0
    <2> QED BY <1>k, <1>S, <1>F, <1>N, <1>C, <2>u, <2>m, <2>z, StepParts
  <1> QED BY <1>1, <1>2, <1>3

LEMMA ScanTypes ==
  ASSUME TInv, NEW c \in Conns, Scan(c)
  PROVE  Types' /\ ClosingsOK' /\ LengthsOK'
  <1> USE DEF TInv
  <1>0. pc[c] \in {"choose", "scan"}
    BY DEF Scan, Step, At
  <1>s. Shaped
    BY DEF LInv, Shaped, Local
  <1>l. Local(c)
    BY DEF LInv
  <1>c. Conn(c) /\ SharedOK /\ FilesOK /\ CountersOK /\ CacheOK
    BY DEF Types
  <1>g. LengthOf(c) /\ LiveHdr.mxFrame <= Len(wal.frames)
    BY DEF LengthsOK
  <1>v. UNCHANGED <<db, dbDisk, wal, walDisk, shm, cache, writes, salts, setting>>
    BY DEF Scan, files, private, rest
  <1>k. Conn(c)'
    BY <1>c, ScanConn, TypesNumbers
  <1>S. SharedOK'
    BY <1>c, <1>v DEF SharedOK, LiveHdr
  <1>F. FilesOK'
    BY <1>c, <1>v DEF FilesOK
  <1>N. CountersOK'
    BY <1>c, <1>v DEF CountersOK
  <1>C. CacheOK'
    BY <1>c, <1>v DEF CacheOK
  <1>1. CASE Usable(c) = {}
    <2>1. Becomes(c, "setmark", job[c],
               wc[c], tx[c])
      BY <1>s, ScanDoes, <1>1
    <2>u. Unmoved(c) /\ (Closing(c)' => Closing(c))
      BY <2>1, <1>l DEF Becomes, Unmoved, Closing, Local, ShapeOf
    <2>n. LengthOf(c)'
      BY <1>0, <1>l, <1>c, <1>v, <1>g, <1>1, <2>1, LogLengths DEF Becomes,
         LengthOf, Reached, Local, ShapeOf, ControlOf, HdrOK, HdrPcs,
         Recovery, MarkPcs, RestartPcs, FramePcs, CopyPcs, ScanPcs, CkptPcs,
         Marks
    <2>m. LengthsOK'
      BY <2>u, <2>n, <1>v, LogLengths, LengthsKept DEF LiveHdr
    <2>z. pc[c] = "closed" => \A d \in Others(c) : ~Closing(d)
      BY <1>0
    <2> QED BY <1>k, <1>S, <1>F, <1>N, <1>C, <2>u, <2>m, <2>z, StepParts
  <1>2. CASE Usable(c) # {}
    <2>1. Becomes(c, IF shm.aReadMark[BestMark(c)] < wc[c].hdr.mxFrame THEN "setmark" ELSE "lockmark", [job[c] EXCEPT !.mxI = BestMark(c), !.mark = shm.aReadMark[BestMark(c)]],
               wc[c], tx[c])
      BY <1>s, ScanDoes, <1>2
    <2>u. Unmoved(c) /\ (Closing(c)' => Closing(c))
      BY <2>1, <1>l DEF Becomes, Unmoved, Closing, Local, ShapeOf
    <2>n. LengthOf(c)'
      BY <1>0, <1>l, <1>c, <1>v, <1>g, <1>2, <2>1, LogLengths DEF Becomes,
         LengthOf, Reached, Local, ShapeOf, ControlOf, HdrOK, HdrPcs,
         Recovery, MarkPcs, RestartPcs, FramePcs, CopyPcs, ScanPcs, CkptPcs,
         Marks
    <2>m. LengthsOK'
      BY <2>u, <2>n, <1>v, LogLengths, LengthsKept DEF LiveHdr
    <2>z. pc[c] = "closed" => \A d \in Others(c) : ~Closing(d)
      BY <1>0
    <2> QED BY <1>k, <1>S, <1>F, <1>N, <1>C, <2>u, <2>m, <2>z, StepParts
  <1> QED BY <1>1, <1>2

LEMMA SetMarkTypes ==
  ASSUME TInv, NEW c \in Conns, SetMark(c)
  PROVE  Types' /\ ClosingsOK' /\ LengthsOK'
  <1> USE DEF TInv
  <1>0. pc[c] = "setmark"
    BY DEF SetMark, Step, At
  <1>s. Shaped
    BY DEF LInv, Shaped, Local
  <1>l. Local(c)
    BY DEF LInv
  <1>c. Conn(c) /\ SharedOK /\ FilesOK /\ CountersOK /\ CacheOK
    BY DEF Types
  <1>g. LengthOf(c) /\ LiveHdr.mxFrame <= Len(wal.frames)
    BY DEF LengthsOK
  <1>v. UNCHANGED <<db, dbDisk, wal, walDisk, cache, writes, salts, setting>>
    BY DEF SetMark, Retry, files, private, rest
  <1>k. Conn(c)'
    BY <1>c, SetMarkConn
  <1>h. LiveHdr' = LiveHdr
    BY <1>c DEF SetMark, Retry, SharedOK, LiveHdr
  <1>S. SharedOK'
    <2>1. shm' = shm \/ \E i : shm' = [shm EXCEPT !.aReadMark[i] = wc[c].hdr.mxFrame]
      BY DEF SetMark
    <2>2. wc[c].hdr.mxFrame \in Nat
      BY LogLengths
    <2>3. ASSUME NEW i, shm' = [shm EXCEPT !.aReadMark[i] = wc[c].hdr.mxFrame] PROVE SharedOK'
      BY <1>c, <2>2, <2>3, SharedKept DEF SharedOK
    <2>4. CASE shm' = shm
      BY <1>c, <2>4 DEF SharedOK, LiveHdr
    <2> QED BY <2>1, <2>3, <2>4
  <1>F. FilesOK'
    BY <1>c, <1>v DEF FilesOK
  <1>N. CountersOK'
    BY <1>c, <1>v DEF CountersOK
  <1>C. CacheOK'
    BY <1>c, <1>v DEF CacheOK
  <1>1. CASE FreeMarks # {}
    <2>1. Becomes(c, "lockmark", [job[c] EXCEPT !.mxI = FirstFree, !.mark = wc[c].hdr.mxFrame],
               wc[c], tx[c])
      BY <1>s, SetMarkDoes, <1>1
    <2>u. Unmoved(c) /\ (Closing(c)' => Closing(c))
      BY <2>1, <1>l DEF Becomes, Unmoved, Closing, Local, ShapeOf
    <2>n. LengthOf(c)'
      BY <1>0, <1>l, <1>c, <1>v, <1>g, <1>1, <2>1, LogLengths DEF Becomes,
         LengthOf, Reached, Local, ShapeOf, ControlOf, HdrOK, HdrPcs,
         Recovery, MarkPcs, RestartPcs, FramePcs, CopyPcs, ScanPcs, CkptPcs,
         Marks
    <2>m. LengthsOK'
      BY <2>u, <2>n, <1>v, <1>h, LogLengths, LengthsKept DEF LiveHdr
    <2>z. pc[c] = "closed" => \A d \in Others(c) : ~Closing(d)
      BY <1>0
    <2> QED BY <1>k, <1>S, <1>F, <1>N, <1>C, <2>u, <2>m, <2>z, StepParts
  <1>2. CASE FreeMarks = {} /\ job[c].mxI = 0
    <2>1. Becomes(c, IF job[c].useWal THEN "scan" ELSE "tryhdr", [job[c] EXCEPT !.mxI = 0, !.mark = 0],
               wc[c], tx[c])
      BY <1>s, SetMarkDoes, <1>2
    <2>u. Unmoved(c) /\ (Closing(c)' => Closing(c))
      BY <2>1, <1>l DEF Becomes, Unmoved, Closing, Local, ShapeOf
    <2>n. LengthOf(c)'
      BY <1>0, <1>l, <1>c, <1>v, <1>g, <1>2, <2>1, LogLengths DEF Becomes,
         LengthOf, Reached, Local, ShapeOf, ControlOf, HdrOK, HdrPcs,
         Recovery, MarkPcs, RestartPcs, FramePcs, CopyPcs, ScanPcs, CkptPcs,
         Marks
    <2>m. LengthsOK'
      BY <2>u, <2>n, <1>v, <1>h, LogLengths, LengthsKept DEF LiveHdr
    <2>z. pc[c] = "closed" => \A d \in Others(c) : ~Closing(d)
      BY <1>0
    <2> QED BY <1>k, <1>S, <1>F, <1>N, <1>C, <2>u, <2>m, <2>z, StepParts
  <1>3. CASE FreeMarks = {} /\ job[c].mxI # 0
    <2>1. Becomes(c, "lockmark", job[c],
               wc[c], tx[c])
      BY <1>s, SetMarkDoes, <1>3
    <2>u. Unmoved(c) /\ (Closing(c)' => Closing(c))
      BY <2>1, <1>l DEF Becomes, Unmoved, Closing, Local, ShapeOf
    <2>n. LengthOf(c)'
      BY <1>0, <1>l, <1>c, <1>v, <1>g, <1>3, <2>1, LogLengths DEF Becomes,
         LengthOf, Reached, Local, ShapeOf, ControlOf, HdrOK, HdrPcs,
         Recovery, MarkPcs, RestartPcs, FramePcs, CopyPcs, ScanPcs, CkptPcs,
         Marks
    <2>m. LengthsOK'
      BY <2>u, <2>n, <1>v, <1>h, LogLengths, LengthsKept DEF LiveHdr
    <2>z. pc[c] = "closed" => \A d \in Others(c) : ~Closing(d)
      BY <1>0
    <2> QED BY <1>k, <1>S, <1>F, <1>N, <1>C, <2>u, <2>m, <2>z, StepParts
  <1> QED BY <1>1, <1>2, <1>3

LEMMA LockMarkTypes ==
  ASSUME TInv, NEW c \in Conns, LockMark(c)
  PROVE  Types' /\ ClosingsOK' /\ LengthsOK'
  <1> USE DEF TInv
  <1>0. pc[c] = "lockmark"
    BY DEF LockMark, Step, At
  <1>s. Shaped
    BY DEF LInv, Shaped, Local
  <1>l. Local(c)
    BY DEF LInv
  <1>c. Conn(c) /\ SharedOK /\ FilesOK /\ CountersOK /\ CacheOK
    BY DEF Types
  <1>g. LengthOf(c) /\ LiveHdr.mxFrame <= Len(wal.frames)
    BY DEF LengthsOK
  <1>v. UNCHANGED <<db, dbDisk, wal, walDisk, shm, cache, writes, salts, setting>>
    BY DEF LockMark, Retry, files, private, rest
  <1>k. Conn(c)'
    BY <1>c, LockMarkConn
  <1>S. SharedOK'
    BY <1>c, <1>v DEF SharedOK, LiveHdr
  <1>F. FilesOK'
    BY <1>c, <1>v DEF FilesOK
  <1>N. CountersOK'
    BY <1>c, <1>v DEF CountersOK
  <1>C. CacheOK'
    BY <1>c, <1>v DEF CacheOK
  <1>1. CASE Sharable(WAL_READ_LOCK(job[c].mxI))
    <2>1. Becomes(c, "minframe", job[c],
               wc[c], tx[c])
      BY <1>s, LockMarkDoes, <1>1
    <2>u. Unmoved(c) /\ (Closing(c)' => Closing(c))
      BY <2>1, <1>l DEF Becomes, Unmoved, Closing, Local, ShapeOf
    <2>n. LengthOf(c)'
      BY <1>0, <1>l, <1>c, <1>v, <1>g, <1>1, <2>1, LogLengths DEF Becomes,
         LengthOf, Reached, Local, ShapeOf, ControlOf, HdrOK, HdrPcs,
         Recovery, MarkPcs, RestartPcs, FramePcs, CopyPcs, ScanPcs, CkptPcs,
         Marks
    <2>m. LengthsOK'
      BY <2>u, <2>n, <1>v, LogLengths, LengthsKept DEF LiveHdr
    <2>z. pc[c] = "closed" => \A d \in Others(c) : ~Closing(d)
      BY <1>0
    <2> QED BY <1>k, <1>S, <1>F, <1>N, <1>C, <2>u, <2>m, <2>z, StepParts
  <1>2. CASE ~Sharable(WAL_READ_LOCK(job[c].mxI))
    <2>1. Becomes(c, IF job[c].useWal THEN "scan" ELSE "tryhdr", [job[c] EXCEPT !.mxI = 0, !.mark = 0],
               wc[c], tx[c])
      BY <1>s, LockMarkDoes, <1>2
    <2>u. Unmoved(c) /\ (Closing(c)' => Closing(c))
      BY <2>1, <1>l DEF Becomes, Unmoved, Closing, Local, ShapeOf
    <2>n. LengthOf(c)'
      BY <1>0, <1>l, <1>c, <1>v, <1>g, <1>2, <2>1, LogLengths DEF Becomes,
         LengthOf, Reached, Local, ShapeOf, ControlOf, HdrOK, HdrPcs,
         Recovery, MarkPcs, RestartPcs, FramePcs, CopyPcs, ScanPcs, CkptPcs,
         Marks
    <2>m. LengthsOK'
      BY <2>u, <2>n, <1>v, LogLengths, LengthsKept DEF LiveHdr
    <2>z. pc[c] = "closed" => \A d \in Others(c) : ~Closing(d)
      BY <1>0
    <2> QED BY <1>k, <1>S, <1>F, <1>N, <1>C, <2>u, <2>m, <2>z, StepParts
  <1> QED BY <1>1, <1>2

LEMMA MinFrameTypes ==
  ASSUME TInv, NEW c \in Conns, MinFrame(c)
  PROVE  Types' /\ ClosingsOK' /\ LengthsOK'
  <1> USE DEF TInv
  <1>0. pc[c] = "minframe"
    BY DEF MinFrame, Step, At
  <1>s. Shaped
    BY DEF LInv, Shaped, Local
  <1>l. Local(c)
    BY DEF LInv
  <1>c. Conn(c) /\ SharedOK /\ FilesOK /\ CountersOK /\ CacheOK
    BY DEF Types
  <1>g. LengthOf(c) /\ LiveHdr.mxFrame <= Len(wal.frames)
    BY DEF LengthsOK
  <1>v. UNCHANGED <<db, dbDisk, wal, walDisk, shm, cache, writes, salts, setting>>
    BY DEF MinFrame, files, private, rest
  <1>k. Conn(c)'
    BY <1>c, MinFrameConn
  <1>S. SharedOK'
    BY <1>c, <1>v DEF SharedOK, LiveHdr
  <1>F. FilesOK'
    BY <1>c, <1>v DEF FilesOK
  <1>N. CountersOK'
    BY <1>c, <1>v DEF CountersOK
  <1>C. CacheOK'
    BY <1>c, <1>v DEF CacheOK
  <1>1. Becomes(c, "checkmark", job[c],
             [wc[c] EXCEPT !.minFrame = shm.nBackfill + 1], tx[c])
    BY <1>s, MinFrameDoes
  <1>u. Unmoved(c) /\ (Closing(c)' => Closing(c))
    BY <1>1, <1>l DEF Becomes, Unmoved, Closing, Local, ShapeOf
  <1>n. LengthOf(c)'
    BY <1>0, <1>l, <1>c, <1>v, <1>g, <1>1, LogLengths DEF Becomes, LengthOf,
       Reached, Local, ShapeOf, ControlOf, HdrOK, HdrPcs, Recovery, MarkPcs,
       RestartPcs, FramePcs, CopyPcs, ScanPcs, CkptPcs, Marks
  <1>m. LengthsOK'
    BY <1>u, <1>n, <1>v, LogLengths, LengthsKept DEF LiveHdr
  <1>z. pc[c] = "closed" => \A d \in Others(c) : ~Closing(d)
    BY <1>0
  <1> QED BY <1>k, <1>S, <1>F, <1>N, <1>C, <1>u, <1>m, <1>z, StepParts

LEMMA CheckMarkTypes ==
  ASSUME TInv, NEW c \in Conns, CheckMark(c)
  PROVE  Types' /\ ClosingsOK' /\ LengthsOK'
  <1> USE DEF TInv
  <1>0. pc[c] = "checkmark"
    BY DEF CheckMark, Step, At
  <1>s. Shaped
    BY DEF LInv, Shaped, Local
  <1>l. Local(c)
    BY DEF LInv
  <1>c. Conn(c) /\ SharedOK /\ FilesOK /\ CountersOK /\ CacheOK
    BY DEF Types
  <1>g. LengthOf(c) /\ LiveHdr.mxFrame <= Len(wal.frames)
    BY DEF LengthsOK
  <1>v. UNCHANGED <<db, dbDisk, wal, walDisk, shm, writes, salts, setting>>
    BY DEF CheckMark, ReadBegun, Retry, files, private, rest
  <1>k. Conn(c)'
    BY <1>c, CheckMarkConn
  <1>S. SharedOK'
    BY <1>c, <1>v DEF SharedOK, LiveHdr
  <1>F. FilesOK'
    BY <1>c, <1>v DEF FilesOK
  <1>N. CountersOK'
    BY <1>c, <1>v DEF CountersOK
  <1>C. CacheOK'
    BY <1>c, CacheLost DEF CheckMark, ReadBegun, Retry
  <1>1. CASE shm.aReadMark[job[c].mxI] = job[c].mark /\ Current(c) /\ job[c].useWal
    <2>1. Becomes(c, "log", [job[c] EXCEPT !.useWal = FALSE],
               [wc[c] EXCEPT !.readLock = job[c].mxI], tx[c])
      BY <1>s, CheckMarkDoes, <1>1
    <2>u. Unmoved(c) /\ (Closing(c)' => Closing(c))
      BY <2>1, <1>l DEF Becomes, Unmoved, Closing, Local, ShapeOf
    <2>n. LengthOf(c)'
      BY <1>0, <1>l, <1>c, <1>v, <1>g, <1>1, <2>1, LogLengths DEF Becomes,
         LengthOf, Reached, Local, ShapeOf, ControlOf, HdrOK, HdrPcs,
         Recovery, MarkPcs, RestartPcs, FramePcs, CopyPcs, ScanPcs, CkptPcs,
         Marks
    <2>m. LengthsOK'
      BY <2>u, <2>n, <1>v, LogLengths, LengthsKept DEF LiveHdr
    <2>z. pc[c] = "closed" => \A d \in Others(c) : ~Closing(d)
      BY <1>0
    <2> QED BY <1>k, <1>S, <1>F, <1>N, <1>C, <2>u, <2>m, <2>z, StepParts
  <1>2. CASE shm.aReadMark[job[c].mxI] = job[c].mark /\ Current(c) /\ ~job[c].useWal
    <2>1. Becomes(c, "idle", NoJob,
               [wc[c] EXCEPT !.readLock = job[c].mxI], tx[c])
      BY <1>s, CheckMarkDoes, <1>2
    <2>u. Unmoved(c) /\ (Closing(c)' => Closing(c))
      BY <2>1, <1>l DEF Becomes, Unmoved, Closing, Local, ShapeOf, NoJob
    <2>n. LengthOf(c)'
      BY <1>0, <1>l, <1>c, <1>v, <1>g, <1>2, <2>1, LogLengths DEF Becomes,
         LengthOf, Reached, Local, ShapeOf, ControlOf, HdrOK, NoJob, HdrPcs,
         Recovery, MarkPcs, RestartPcs, FramePcs, CopyPcs, ScanPcs, CkptPcs,
         Marks
    <2>m. LengthsOK'
      BY <2>u, <2>n, <1>v, LogLengths, LengthsKept DEF LiveHdr
    <2>z. pc[c] = "closed" => \A d \in Others(c) : ~Closing(d)
      BY <1>0
    <2> QED BY <1>k, <1>S, <1>F, <1>N, <1>C, <2>u, <2>m, <2>z, StepParts
  <1>3. CASE ~(shm.aReadMark[job[c].mxI] = job[c].mark /\ Current(c))
    <2>1. Becomes(c, IF job[c].useWal THEN "scan" ELSE "tryhdr", [job[c] EXCEPT !.mxI = 0, !.mark = 0],
               wc[c], tx[c])
      BY <1>s, CheckMarkDoes, <1>3
    <2>u. Unmoved(c) /\ (Closing(c)' => Closing(c))
      BY <2>1, <1>l DEF Becomes, Unmoved, Closing, Local, ShapeOf
    <2>n. LengthOf(c)'
      BY <1>0, <1>l, <1>c, <1>v, <1>g, <1>3, <2>1, LogLengths DEF Becomes,
         LengthOf, Reached, Local, ShapeOf, ControlOf, HdrOK, HdrPcs,
         Recovery, MarkPcs, RestartPcs, FramePcs, CopyPcs, ScanPcs, CkptPcs,
         Marks
    <2>m. LengthsOK'
      BY <2>u, <2>n, <1>v, LogLengths, LengthsKept DEF LiveHdr
    <2>z. pc[c] = "closed" => \A d \in Others(c) : ~Closing(d)
      BY <1>0
    <2> QED BY <1>k, <1>S, <1>F, <1>N, <1>C, <2>u, <2>m, <2>z, StepParts
  <1> QED BY <1>1, <1>2, <1>3

LEMMA EndReadTypes ==
  ASSUME TInv, NEW c \in Conns, EndRead(c)
  PROVE  Types' /\ ClosingsOK' /\ LengthsOK'
  <1> USE DEF TInv
  <1>0. pc[c] = "idle" /\ wc[c].readLock >= 0 /\ ~tx[c].on
    BY DEF EndRead, Idle, Reading, Step, At
  <1>s. Shaped
    BY DEF LInv, Shaped, Local
  <1>l. Local(c)
    BY DEF LInv
  <1>c. Conn(c) /\ SharedOK /\ FilesOK /\ CountersOK /\ CacheOK
    BY DEF Types
  <1>g. LengthOf(c) /\ LiveHdr.mxFrame <= Len(wal.frames)
    BY DEF LengthsOK
  <1>v. UNCHANGED <<db, dbDisk, wal, walDisk, shm, writes, salts, setting>>
    BY DEF EndRead, Idle, Reading, files, private, rest
  <1>k. Conn(c)'
    BY <1>c, EndReadConn
  <1>S. SharedOK'
    BY <1>c, <1>v DEF SharedOK, LiveHdr
  <1>F. FilesOK'
    BY <1>c, <1>v DEF FilesOK
  <1>N. CountersOK'
    BY <1>c, <1>v DEF CountersOK
  <1>C. CacheOK'
    <2>1. DOMAIN View(c) \subseteq Pages
      BY <1>c, ViewOK
    <2> QED BY <1>c, <2>1, CacheKept DEF EndRead
  <1>1. Becomes(c, pc[c], job[c],
             [wc[c] EXCEPT !.readLock = -1], tx[c])
    BY <1>s, EndReadDoes
  <1>u. Unmoved(c) /\ (Closing(c)' => Closing(c))
    BY <1>1, <1>l DEF Becomes, Unmoved, Closing, Local, ShapeOf
  <1>n. LengthOf(c)'
    BY <1>0, <1>l, <1>c, <1>v, <1>g, <1>1, LogLengths DEF Becomes, LengthOf,
       Reached, Local, ShapeOf, ControlOf, HdrOK, HdrPcs, Recovery, MarkPcs,
       RestartPcs, FramePcs, CopyPcs, ScanPcs, CkptPcs, Marks
  <1>m. LengthsOK'
    BY <1>u, <1>n, <1>v, LogLengths, LengthsKept DEF LiveHdr
  <1>z. pc[c] = "closed" => \A d \in Others(c) : ~Closing(d)
    BY <1>0
  <1> QED BY <1>k, <1>S, <1>F, <1>N, <1>C, <1>u, <1>m, <1>z, StepParts

LEMMA BeginWriteTypes ==
  ASSUME TInv, NEW c \in Conns, BeginWrite(c)
  PROVE  Types' /\ ClosingsOK' /\ LengthsOK'
  <1> USE DEF TInv
  <1>0. pc[c] = "idle" /\ wc[c].readLock >= 0 /\ ~tx[c].on
    BY DEF BeginWrite, Idle, Reading, Step, At
  <1>s. Shaped
    BY DEF LInv, Shaped, Local
  <1>l. Local(c)
    BY DEF LInv
  <1>c. Conn(c) /\ SharedOK /\ FilesOK /\ CountersOK /\ CacheOK
    BY DEF Types
  <1>g. LengthOf(c) /\ LiveHdr.mxFrame <= Len(wal.frames)
    BY DEF LengthsOK
  <1>v. UNCHANGED <<db, dbDisk, wal, walDisk, shm, cache, writes, salts, setting>>
    BY DEF BeginWrite, Idle, Reading, files, private, rest
  <1>k. Conn(c)'
    BY <1>c, BeginWriteConn
  <1>S. SharedOK'
    BY <1>c, <1>v DEF SharedOK, LiveHdr
  <1>F. FilesOK'
    BY <1>c, <1>v DEF FilesOK
  <1>N. CountersOK'
    BY <1>c, <1>v DEF CountersOK
  <1>C. CacheOK'
    BY <1>c, <1>v DEF CacheOK
  <1>1. Becomes(c, pc[c], job[c],
             wc[c], [NoTx EXCEPT !.on = TRUE, !.size = Len(View(c))])
    BY <1>s, BeginWriteDoes
  <1>u. Unmoved(c) /\ (Closing(c)' => Closing(c))
    BY <1>1, <1>l DEF Becomes, Unmoved, Closing, Local, ShapeOf
  <1>n. LengthOf(c)'
    <2>1. wc'[c].hdr = LiveHdr /\ pc'[c] = "idle" /\ wal' = wal /\ LiveHdr' = LiveHdr
      BY <1>0, <1>1, <1>v DEF Becomes, BeginWrite, LiveHdr
    <2> QED BY <2>1, <1>g, LogLengths DEF LengthOf, Reached
  <1>m. LengthsOK'
    BY <1>u, <1>n, <1>v, LogLengths, LengthsKept DEF LiveHdr
  <1>z. pc[c] = "closed" => \A d \in Others(c) : ~Closing(d)
    BY <1>0
  <1> QED BY <1>k, <1>S, <1>F, <1>N, <1>C, <1>u, <1>m, <1>z, StepParts

LEMMA ModifyTypes ==
  ASSUME TInv, NEW c \in Conns, NEW p \in Pages, Modify(c, p)
  PROVE  Types' /\ ClosingsOK' /\ LengthsOK'
  <1> USE DEF TInv
  <1>0. pc[c] = "idle" /\ tx[c].on
    BY DEF Modify, InWrite, Idle, Step, At
  <1>s. Shaped
    BY DEF LInv, Shaped, Local
  <1>l. Local(c)
    BY DEF LInv
  <1>c. Conn(c) /\ SharedOK /\ FilesOK /\ CountersOK /\ CacheOK
    BY DEF Types
  <1>g. LengthOf(c) /\ LiveHdr.mxFrame <= Len(wal.frames)
    BY DEF LengthsOK
  <1>v. UNCHANGED <<db, dbDisk, wal, walDisk, shm, salts, setting>>
    BY DEF Modify, InWrite, Idle, files, private, rest
  <1>k. Conn(c)'
    BY <1>c, ModifyConn
  <1>S. SharedOK'
    BY <1>c, <1>v DEF SharedOK, LiveHdr
  <1>F. FilesOK'
    BY <1>c, <1>v DEF FilesOK
  <1>N. CountersOK'
    <2>1. setting.writes \in Nat /\ writes < setting.writes /\ writes' = writes + 1
      BY WalAssumption DEF LInv, Shapes, Modify
    <2> QED BY <1>c, <1>v, <2>1 DEF CountersOK
  <1>C. CacheOK'
    <2>1. DOMAIN Without(cache[c], {p}) \subseteq Pages
      BY <1>c DEF Without, CacheOK
    <2> QED BY <1>c, <2>1, CacheKept DEF Modify
  <1>1. Becomes(c, pc[c], job[c],
             wc[c], [tx[c] EXCEPT !.dirty = Put(tx[c].dirty, p, writes + 1), !.size = Largest({@, p})])
    BY <1>s, ModifyDoes
  <1>u. Unmoved(c) /\ (Closing(c)' => Closing(c))
    BY <1>1, <1>l DEF Becomes, Unmoved, Closing, Local, ShapeOf
  <1>n. LengthOf(c)'
    BY <1>0, <1>l, <1>c, <1>v, <1>g, <1>1, LogLengths DEF Becomes, LengthOf,
       Reached, Local, ShapeOf, ControlOf, HdrOK, HdrPcs, Recovery, MarkPcs,
       RestartPcs, FramePcs, CopyPcs, ScanPcs, CkptPcs, Marks
  <1>m. LengthsOK'
    BY <1>u, <1>n, <1>v, LogLengths, LengthsKept DEF LiveHdr
  <1>z. pc[c] = "closed" => \A d \in Others(c) : ~Closing(d)
    BY <1>0
  <1> QED BY <1>k, <1>S, <1>F, <1>N, <1>C, <1>u, <1>m, <1>z, StepParts

LEMMA ShrinkTypes ==
  ASSUME TInv, NEW c \in Conns, Shrink(c)
  PROVE  Types' /\ ClosingsOK' /\ LengthsOK'
  <1> USE DEF TInv
  <1>0. pc[c] = "idle" /\ tx[c].on
    BY DEF Shrink, InWrite, Idle, Step, At
  <1>s. Shaped
    BY DEF LInv, Shaped, Local
  <1>l. Local(c)
    BY DEF LInv
  <1>c. Conn(c) /\ SharedOK /\ FilesOK /\ CountersOK /\ CacheOK
    BY DEF Types
  <1>g. LengthOf(c) /\ LiveHdr.mxFrame <= Len(wal.frames)
    BY DEF LengthsOK
  <1>v. UNCHANGED <<db, dbDisk, wal, walDisk, shm, cache, writes, salts, setting>>
    BY DEF Shrink, InWrite, Idle, files, private, rest
  <1>k. Conn(c)'
    BY <1>c, ShrinkConn
  <1>S. SharedOK'
    BY <1>c, <1>v DEF SharedOK, LiveHdr
  <1>F. FilesOK'
    BY <1>c, <1>v DEF FilesOK
  <1>N. CountersOK'
    BY <1>c, <1>v DEF CountersOK
  <1>C. CacheOK'
    BY <1>c, <1>v DEF CacheOK
  <1>1. Becomes(c, pc[c], job[c],
             wc[c], [tx[c] EXCEPT !.size = @ - 1])
    BY <1>s, ShrinkDoes
  <1>u. Unmoved(c) /\ (Closing(c)' => Closing(c))
    BY <1>1, <1>l DEF Becomes, Unmoved, Closing, Local, ShapeOf
  <1>n. LengthOf(c)'
    BY <1>0, <1>l, <1>c, <1>v, <1>g, <1>1, LogLengths DEF Becomes, LengthOf,
       Reached, Local, ShapeOf, ControlOf, HdrOK, HdrPcs, Recovery, MarkPcs,
       RestartPcs, FramePcs, CopyPcs, ScanPcs, CkptPcs, Marks
  <1>m. LengthsOK'
    BY <1>u, <1>n, <1>v, LogLengths, LengthsKept DEF LiveHdr
  <1>z. pc[c] = "closed" => \A d \in Others(c) : ~Closing(d)
    BY <1>0
  <1> QED BY <1>k, <1>S, <1>F, <1>N, <1>C, <1>u, <1>m, <1>z, StepParts

LEMMA SpillTypes ==
  ASSUME TInv, NEW c \in Conns, NEW p \in Pages, Spill(c, p)
  PROVE  Types' /\ ClosingsOK' /\ LengthsOK'
  <1> USE DEF TInv
  <1>0. pc[c] = "idle" /\ tx[c].on
    BY DEF Spill, InWrite, Idle, Step, At
  <1>s. Shaped
    BY DEF LInv, Shaped, Local
  <1>l. Local(c)
    BY DEF LInv
  <1>c. Conn(c) /\ SharedOK /\ FilesOK /\ CountersOK /\ CacheOK
    BY DEF Types
  <1>g. LengthOf(c) /\ LiveHdr.mxFrame <= Len(wal.frames)
    BY DEF LengthsOK
  <1>v. UNCHANGED <<db, dbDisk, wal, walDisk, shm, cache, writes, salts, setting>>
    BY DEF Spill, InWrite, Idle, FramesStart, files, private, rest
  <1>k. Conn(c)'
    BY <1>c, SpillConn
  <1>S. SharedOK'
    BY <1>c, <1>v DEF SharedOK, LiveHdr
  <1>F. FilesOK'
    BY <1>c, <1>v DEF FilesOK
  <1>N. CountersOK'
    BY <1>c, <1>v DEF CountersOK
  <1>C. CacheOK'
    BY <1>c, <1>v DEF CacheOK
  <1>1. Becomes(c, IF wc[c].readLock = 0 THEN "restart" ELSE "log", FramesJob(c, <<p>>, FALSE),
             wc[c], tx[c])
    BY <1>s, SpillDoes
  <1>u. Unmoved(c) /\ (Closing(c)' => Closing(c))
    BY <1>1, <1>l DEF Becomes, Unmoved, Closing, Local, ShapeOf, FramesJob,
       NoJob
  <1>n. LengthOf(c)'
    BY <1>0, <1>l, <1>c, <1>v, <1>g, <1>1, LogLengths DEF Becomes, LengthOf,
       Reached, Local, ShapeOf, ControlOf, HdrOK, FramesJob, NoJob, HdrPcs,
       Recovery, MarkPcs, RestartPcs, FramePcs, CopyPcs, ScanPcs, CkptPcs,
       Marks
  <1>m. LengthsOK'
    BY <1>u, <1>n, <1>v, LogLengths, LengthsKept DEF LiveHdr
  <1>z. pc[c] = "closed" => \A d \in Others(c) : ~Closing(d)
    BY <1>0
  <1> QED BY <1>k, <1>S, <1>F, <1>N, <1>C, <1>u, <1>m, <1>z, StepParts

LEMMA CommitTypes ==
  ASSUME TInv, NEW c \in Conns, Commit(c)
  PROVE  Types' /\ ClosingsOK' /\ LengthsOK'
  <1> USE DEF TInv
  <1>0. pc[c] = "idle" /\ tx[c].on
    BY DEF Commit, InWrite, Idle, Step, At
  <1>s. Shaped
    BY DEF LInv, Shaped, Local
  <1>l. Local(c)
    BY DEF LInv
  <1>c. Conn(c) /\ SharedOK /\ FilesOK /\ CountersOK /\ CacheOK
    BY DEF Types
  <1>g. LengthOf(c) /\ LiveHdr.mxFrame <= Len(wal.frames)
    BY DEF LengthsOK
  <1>v. UNCHANGED <<db, dbDisk, wal, walDisk, shm, cache, writes, salts, setting>>
    BY DEF Commit, InWrite, Idle, FramesStart, files, private, rest
  <1>k. Conn(c)'
    BY <1>c, CommitConn
  <1>S. SharedOK'
    BY <1>c, <1>v DEF SharedOK, LiveHdr
  <1>F. FilesOK'
    BY <1>c, <1>v DEF FilesOK
  <1>N. CountersOK'
    BY <1>c, <1>v DEF CountersOK
  <1>C. CacheOK'
    BY <1>c, <1>v DEF CacheOK
  <1>1. PICK list \in CommitLists(c) : list # <<>> /\ Becomes(c, IF wc[c].readLock = 0 THEN "restart" ELSE "log", FramesJob(c, list, TRUE),
             wc[c], tx[c])
    BY <1>s, CommitDoes
  <1>u. Unmoved(c) /\ (Closing(c)' => Closing(c))
    BY <1>1, <1>l DEF Becomes, Unmoved, Closing, Local, ShapeOf, FramesJob,
       NoJob
  <1>n. LengthOf(c)'
    BY <1>0, <1>l, <1>c, <1>v, <1>g, <1>1, LogLengths DEF Becomes, LengthOf,
       Reached, Local, ShapeOf, ControlOf, HdrOK, FramesJob, NoJob, HdrPcs,
       Recovery, MarkPcs, RestartPcs, FramePcs, CopyPcs, ScanPcs, CkptPcs,
       Marks
  <1>m. LengthsOK'
    BY <1>u, <1>n, <1>v, LogLengths, LengthsKept DEF LiveHdr
  <1>z. pc[c] = "closed" => \A d \in Others(c) : ~Closing(d)
    BY <1>0
  <1> QED BY <1>k, <1>S, <1>F, <1>N, <1>C, <1>u, <1>m, <1>z, StepParts

LEMMA RollbackTypes ==
  ASSUME TInv, NEW c \in Conns, Rollback(c)
  PROVE  Types' /\ ClosingsOK' /\ LengthsOK'
  <1> USE DEF TInv
  <1>0. pc[c] = "idle" /\ tx[c].on
    BY DEF Rollback, Idle, Step, At
  <1>s. Shaped
    BY DEF LInv, Shaped, Local
  <1>l. Local(c)
    BY DEF LInv
  <1>c. Conn(c) /\ SharedOK /\ FilesOK /\ CountersOK /\ CacheOK
    BY DEF Types
  <1>g. LengthOf(c) /\ LiveHdr.mxFrame <= Len(wal.frames)
    BY DEF LengthsOK
  <1>v. UNCHANGED <<db, dbDisk, wal, walDisk, writes, salts, setting>>
    BY DEF Rollback, Idle, files, private, rest
  <1>k. Conn(c)'
    BY <1>c, RollbackConn
  <1>h. LiveHdr' = LiveHdr
    BY <1>c DEF Rollback, SharedOK, LiveHdr
  <1>S. SharedOK'
    BY <1>c, <1>v DEF SharedOK, LiveHdr, Rollback, Idle
  <1>F. FilesOK'
    BY <1>c, <1>v DEF FilesOK
  <1>N. CountersOK'
    BY <1>c, <1>v DEF CountersOK
  <1>C. CacheOK'
    <2>1. DOMAIN Without(cache[c], Undone(c)) \subseteq Pages
      BY <1>c DEF Without, CacheOK
    <2> QED BY <1>c, <2>1, CacheKept DEF Rollback
  <1>1. Becomes(c, pc[c], job[c],
             [wc[c] EXCEPT !.hdr = LiveHdr, !.iReCksum = 0], NoTx)
    BY <1>s, RollbackDoes
  <1>u. Unmoved(c) /\ (Closing(c)' => Closing(c))
    BY <1>1, <1>l DEF Becomes, Unmoved, Closing, Local, ShapeOf
  <1>n. LengthOf(c)'
    BY <1>0, <1>l, <1>c, <1>v, <1>g, <1>1, LogLengths DEF Becomes, LengthOf,
       Reached, Local, ShapeOf, ControlOf, HdrOK, NoTx, HdrPcs, Recovery,
       MarkPcs, RestartPcs, FramePcs, CopyPcs, ScanPcs, CkptPcs, Marks
  <1>m. LengthsOK'
    BY <1>u, <1>n, <1>v, <1>h, LogLengths, LengthsKept DEF LiveHdr
  <1>z. pc[c] = "closed" => \A d \in Others(c) : ~Closing(d)
    BY <1>0
  <1> QED BY <1>k, <1>S, <1>F, <1>N, <1>C, <1>u, <1>m, <1>z, StepParts

LEMMA RestartTypes ==
  ASSUME TInv, NEW c \in Conns, Restart(c)
  PROVE  Types' /\ ClosingsOK' /\ LengthsOK'
  <1> USE DEF TInv
  <1>0. pc[c] = "restart"
    BY DEF Restart, Step, At
  <1>s. Shaped
    BY DEF LInv, Shaped, Local
  <1>l. Local(c)
    BY DEF LInv
  <1>c. Conn(c) /\ SharedOK /\ FilesOK /\ CountersOK /\ CacheOK
    BY DEF Types
  <1>g. LengthOf(c) /\ LiveHdr.mxFrame <= Len(wal.frames)
    BY DEF LengthsOK
  <1>v. UNCHANGED <<db, dbDisk, wal, walDisk, cache, writes, setting>>
    BY DEF Restart, RestartHdr, files, private, rest
  <1>k. Conn(c)'
    BY <1>c, RestartConn
  <1>h. LiveHdr' = LiveHdr
    BY <1>c DEF Restart, RestartHdr, SharedOK, LiveHdr
  <1>S. SharedOK'
    BY <1>c, <1>v DEF SharedOK, LiveHdr, Restart, RestartHdr
  <1>F. FilesOK'
    BY <1>c, <1>v DEF FilesOK
  <1>N. CountersOK'
    BY <1>c, <1>v, WalAssumption DEF CountersOK, Restart
  <1>C. CacheOK'
    BY <1>c, <1>v DEF CacheOK
  <1>1. Becomes(c, "restart1", job[c],
             [wc[c] EXCEPT !.hdr = RestartedHdr(c), !.nCkpt = @ + 1], tx[c])
    BY <1>s, RestartDoes
  <1>u. Unmoved(c) /\ (Closing(c)' => Closing(c))
    BY <1>1, <1>l DEF Becomes, Unmoved, Closing, Local, ShapeOf
  <1>n. LengthOf(c)'
    <2>1. wc'[c].hdr = RestartedHdr(c) /\ pc'[c] = "restart1" /\ wal' = wal
      BY <1>1, <1>l, <1>v DEF Becomes, Local, ShapeOf
    <2>2. RestartedHdr(c).mxFrame = 0
      BY <1>c DEF RestartedHdr, Conn, ConnOf, HdrOK
    <2> QED BY <2>1, <2>2, LogLengths DEF LengthOf, Reached
  <1>m. LengthsOK'
    BY <1>u, <1>n, <1>v, <1>h, LogLengths, LengthsKept DEF LiveHdr
  <1>z. pc[c] = "closed" => \A d \in Others(c) : ~Closing(d)
    BY <1>0
  <1> QED BY <1>k, <1>S, <1>F, <1>N, <1>C, <1>u, <1>m, <1>z, StepParts

LEMMA RestartHdr0Types ==
  ASSUME TInv, NEW c \in Conns, RestartHdr0(c)
  PROVE  Types' /\ ClosingsOK' /\ LengthsOK'
  <1> USE DEF TInv
  <1>0. pc[c] = "restart1"
    BY DEF RestartHdr0, Step, At
  <1>s. Shaped
    BY DEF LInv, Shaped, Local
  <1>l. Local(c)
    BY DEF LInv
  <1>c. Conn(c) /\ SharedOK /\ FilesOK /\ CountersOK /\ CacheOK
    BY DEF Types
  <1>g. LengthOf(c) /\ LiveHdr.mxFrame <= Len(wal.frames)
    BY DEF LengthsOK
  <1>v. UNCHANGED <<db, dbDisk, wal, walDisk, cache, writes, salts, setting>>
    BY DEF RestartHdr0, files, private, rest
  <1>k. Conn(c)'
    BY <1>c, RestartHdr0Conn
  <1>a. HdrOK(wc[c].hdr) /\ Sized(wc[c].hdr) /\ wc[c].hdr.mxFrame = 0
    BY <1>0, <1>c DEF Conn, ConnOf, Sized
  <1>h. SharedOK' /\ LiveHdr' = wc[c].hdr
    BY <1>a, <1>c, LiveMoved DEF RestartHdr0
  <1>S. SharedOK'
    BY <1>h
  <1>F. FilesOK'
    BY <1>c, <1>v DEF FilesOK
  <1>N. CountersOK'
    BY <1>c, <1>v DEF CountersOK
  <1>C. CacheOK'
    BY <1>c, <1>v DEF CacheOK
  <1>1. Becomes(c, "restart2", job[c],
             wc[c], tx[c])
    BY <1>s, RestartHdr0Does
  <1>u. Unmoved(c) /\ (Closing(c)' => Closing(c))
    BY <1>1, <1>l DEF Becomes, Unmoved, Closing, Local, ShapeOf
  <1>n. LengthOf(c)'
    <2>1. wc'[c] = wc[c] /\ pc'[c] = "restart2" /\ wal' = wal
      BY <1>1, <1>v DEF Becomes
    <2> QED BY <2>1, <1>a, <1>h, LogLengths DEF LengthOf, Reached
  <1>m. LengthsOK'
    <2>1. LiveHdr'.mxFrame <= Len(wal'.frames)
      BY <1>a, <1>h, <1>v, LogLengths
    <2>2. Excl(c, WAL_WRITE_LOCK)
      BY <1>0, <1>l DEF Excl, ExclOf, Local, ControlOf, RestartPcs
    <2> QED BY <1>u, <1>n, <2>1, <2>2, LengthsMoved
  <1>z. pc[c] = "closed" => \A d \in Others(c) : ~Closing(d)
    BY <1>0
  <1> QED BY <1>k, <1>S, <1>F, <1>N, <1>C, <1>u, <1>m, <1>z, StepParts

LEMMA RestartInfoTypes ==
  ASSUME TInv, NEW c \in Conns, RestartInfo(c)
  PROVE  Types' /\ ClosingsOK' /\ LengthsOK'
  <1> USE DEF TInv
  <1>0. pc[c] = "restart2"
    BY DEF RestartInfo, Step, At
  <1>s. Shaped
    BY DEF LInv, Shaped, Local
  <1>l. Local(c)
    BY DEF LInv
  <1>c. Conn(c) /\ SharedOK /\ FilesOK /\ CountersOK /\ CacheOK
    BY DEF Types
  <1>g. LengthOf(c) /\ LiveHdr.mxFrame <= Len(wal.frames)
    BY DEF LengthsOK
  <1>v. UNCHANGED <<db, dbDisk, wal, walDisk, cache, writes, salts, setting>>
    BY DEF RestartInfo, LeaveRead0, files, private, rest
  <1>k. Conn(c)'
    BY <1>c, RestartInfoConn
  <1>h. LiveHdr' = LiveHdr
    BY <1>c DEF RestartInfo, SharedOK, LiveHdr
  <1>S. SharedOK'
    <2>1. /\ DOMAIN shm' = DOMAIN shm /\ shm'.hdr = shm.hdr /\ shm'.nBackfill \in Nat
          /\ shm'.aReadMark \in [0 .. WAL_NREADER - 1 -> Nat]
      BY <1>c DEF RestartInfo, RestartedMarks, READMARK_NOT_USED, SharedOK
    <2> QED BY <1>c, <2>1, SharedKept
  <1>F. FilesOK'
    BY <1>c, <1>v DEF FilesOK
  <1>N. CountersOK'
    BY <1>c, <1>v DEF CountersOK
  <1>C. CacheOK'
    BY <1>c, <1>v DEF CacheOK
  <1>1. CASE job[c].kind = "write"
    <2>1. Becomes(c, "scan", [job[c] EXCEPT !.useWal = TRUE],
               [wc[c] EXCEPT !.readLock = -1], tx[c])
      BY <1>s, RestartInfoDoes, <1>1
    <2>u. Unmoved(c) /\ (Closing(c)' => Closing(c))
      BY <2>1, <1>l DEF Becomes, Unmoved, Closing, Local, ShapeOf
    <2>n. LengthOf(c)'
      BY <1>0, <1>l, <1>c, <1>v, <1>g, <1>1, <2>1, LogLengths DEF Becomes,
         LengthOf, Reached, Local, ShapeOf, ControlOf, HdrOK, HdrPcs,
         Recovery, MarkPcs, RestartPcs, FramePcs, CopyPcs, ScanPcs, CkptPcs,
         Marks
    <2>m. LengthsOK'
      BY <2>u, <2>n, <1>v, <1>h, LogLengths, LengthsKept DEF LiveHdr
    <2>z. pc[c] = "closed" => \A d \in Others(c) : ~Closing(d)
      BY <1>0
    <2> QED BY <1>k, <1>S, <1>F, <1>N, <1>C, <2>u, <2>m, <2>z, StepParts
  <1>2. CASE job[c].kind # "write"
    <2>1. Becomes(c, "trunclog", job[c],
               wc[c], tx[c])
      BY <1>s, RestartInfoDoes, <1>2
    <2>u. Unmoved(c) /\ (Closing(c)' => Closing(c))
      BY <2>1, <1>l DEF Becomes, Unmoved, Closing, Local, ShapeOf
    <2>n. LengthOf(c)'
      BY <1>0, <1>l, <1>v, <1>g, <1>2, <2>1, <1>h, LogLengths
         DEF Becomes, LengthOf, Reached
    <2>m. LengthsOK'
      BY <2>u, <2>n, <1>v, <1>h, LogLengths, LengthsKept DEF LiveHdr
    <2>z. pc[c] = "closed" => \A d \in Others(c) : ~Closing(d)
      BY <1>0
    <2> QED BY <1>k, <1>S, <1>F, <1>N, <1>C, <2>u, <2>m, <2>z, StepParts
  <1> QED BY <1>1, <1>2

LEMMA CannotRestartTypes ==
  ASSUME TInv, NEW c \in Conns, CannotRestart(c)
  PROVE  Types' /\ ClosingsOK' /\ LengthsOK'
  <1> USE DEF TInv
  <1>0. pc[c] = "restart"
    BY DEF CannotRestart, Step, At
  <1>s. Shaped
    BY DEF LInv, Shaped, Local
  <1>l. Local(c)
    BY DEF LInv
  <1>c. Conn(c) /\ SharedOK /\ FilesOK /\ CountersOK /\ CacheOK
    BY DEF Types
  <1>g. LengthOf(c) /\ LiveHdr.mxFrame <= Len(wal.frames)
    BY DEF LengthsOK
  <1>v. UNCHANGED <<db, dbDisk, wal, walDisk, shm, cache, writes, salts, setting>>
    BY DEF CannotRestart, LeaveRead0, files, private, rest
  <1>k. Conn(c)'
    BY <1>c, CannotRestartConn
  <1>S. SharedOK'
    BY <1>c, <1>v DEF SharedOK, LiveHdr
  <1>F. FilesOK'
    BY <1>c, <1>v DEF FilesOK
  <1>N. CountersOK'
    BY <1>c, <1>v DEF CountersOK
  <1>C. CacheOK'
    BY <1>c, <1>v DEF CacheOK
  <1>1. CASE job[c].kind = "write"
    <2>1. Becomes(c, "scan", [job[c] EXCEPT !.useWal = TRUE],
               [wc[c] EXCEPT !.readLock = -1], tx[c])
      BY <1>s, CannotRestartDoes, <1>1
    <2>u. Unmoved(c) /\ (Closing(c)' => Closing(c))
      BY <2>1, <1>l DEF Becomes, Unmoved, Closing, Local, ShapeOf
    <2>n. LengthOf(c)'
      BY <1>0, <1>l, <1>c, <1>v, <1>g, <1>1, <2>1, LogLengths DEF Becomes,
         LengthOf, Reached, Local, ShapeOf, ControlOf, HdrOK, HdrPcs,
         Recovery, MarkPcs, RestartPcs, FramePcs, CopyPcs, ScanPcs, CkptPcs,
         Marks
    <2>m. LengthsOK'
      BY <2>u, <2>n, <1>v, LogLengths, LengthsKept DEF LiveHdr
    <2>z. pc[c] = "closed" => \A d \in Others(c) : ~Closing(d)
      BY <1>0
    <2> QED BY <1>k, <1>S, <1>F, <1>N, <1>C, <2>u, <2>m, <2>z, StepParts
  <1>2. CASE job[c].kind # "write"
    <2>1. Becomes(c, "ckptend", [job[c] EXCEPT !.ok = FALSE],
               wc[c], tx[c])
      BY <1>s, CannotRestartDoes, <1>2
    <2>u. Unmoved(c) /\ (Closing(c)' => Closing(c))
      BY <2>1, <1>l DEF Becomes, Unmoved, Closing, Local, ShapeOf
    <2>n. LengthOf(c)'
      BY <1>0, <1>l, <1>c, <1>v, <1>g, <1>2, <2>1, LogLengths DEF Becomes,
         LengthOf, Reached, Local, ShapeOf, ControlOf, HdrOK, HdrPcs,
         Recovery, MarkPcs, RestartPcs, FramePcs, CopyPcs, ScanPcs, CkptPcs,
         Marks
    <2>m. LengthsOK'
      BY <2>u, <2>n, <1>v, LogLengths, LengthsKept DEF LiveHdr
    <2>z. pc[c] = "closed" => \A d \in Others(c) : ~Closing(d)
      BY <1>0
    <2> QED BY <1>k, <1>S, <1>F, <1>N, <1>C, <2>u, <2>m, <2>z, StepParts
  <1> QED BY <1>1, <1>2

LEMMA WriteLogHeaderTypes ==
  ASSUME TInv, NEW c \in Conns, WriteLogHeader(c)
  PROVE  Types' /\ ClosingsOK' /\ LengthsOK'
  <1> USE DEF TInv
  <1>0. pc[c] = "log"
    BY DEF WriteLogHeader, Step, At
  <1>s. Shaped
    BY DEF LInv, Shaped, Local
  <1>l. Local(c)
    BY DEF LInv
  <1>c. Conn(c) /\ SharedOK /\ FilesOK /\ CountersOK /\ CacheOK
    BY DEF Types
  <1>g. LengthOf(c) /\ LiveHdr.mxFrame <= Len(wal.frames)
    BY DEF LengthsOK
  <1>v. UNCHANGED <<db, dbDisk, walDisk, shm, cache, writes, setting>>
    BY DEF WriteLogHeader, files, private, rest
  <1>k. Conn(c)'
    BY <1>c, WriteLogHeaderConn
  <1>o. tx[c].on /\ job[c].kind = "write"
    BY <1>0, <1>l DEF Local, ControlOf, HdrPcs, Recovery, MarkPcs, RestartPcs, FramePcs, CopyPcs, ScanPcs, CkptPcs, Marks
  <1>w. wal' = [wal EXCEPT !.salt = NewSalt(c), !.nCkpt = wc[c].nCkpt]
    BY DEF WriteLogHeader, NewSalt
  <1>a. /\ DOMAIN wal' = DOMAIN wal /\ wal'.salt = NewSalt(c) /\ wal'.frames = wal.frames
    BY <1>w, <1>c DEF FilesOK, LogOK
  <1>S. SharedOK'
    BY <1>c, <1>v DEF SharedOK, LiveHdr
  <1>F. FilesOK'
    <2>1. NewSalt(c) \in Nat
      BY <1>c, WalAssumption DEF NewSalt, CountersOK, Conn, ConnOf, HdrOK
    <2>2. LogOK(wal')
      BY <1>c, <1>a, <2>1 DEF FilesOK, LogOK
    <2> QED BY <1>c, <1>v, <2>2 DEF FilesOK
  <1>N. CountersOK'
    BY <1>c, <1>v, WalAssumption DEF CountersOK, WriteLogHeader
  <1>C. CacheOK'
    BY <1>c, <1>v DEF CacheOK
  <1>1. Becomes(c, "synchdr", job[c],
             [wc[c] EXCEPT !.hdr.salt = NewSalt(c), !.hdr.sum = <<wc[c].nCkpt>>], tx[c])
    BY <1>s, WriteLogHeaderDoes
  <1>u. Unmoved(c) /\ (Closing(c)' => Closing(c))
    BY <1>1, <1>l DEF Becomes, Unmoved, Closing, Local, ShapeOf
  <1>n. LengthOf(c)'
    <2>1. wc'[c].hdr.mxFrame = wc[c].hdr.mxFrame /\ pc'[c] = "synchdr"
      <3>1. "hdr" \in DOMAIN wc[c] /\ "mxFrame" \in DOMAIN wc[c].hdr
        BY <1>l, <1>c DEF Local, ShapeOf, Conn, ConnOf, HdrOK
      <3>2. /\ wc'[c] = [wc[c] EXCEPT !.hdr.salt = NewSalt(c), !.hdr.sum = <<wc[c].nCkpt>>]
            /\ pc'[c] = "synchdr"
        BY <1>1 DEF Becomes
      <3> QED BY <3>1, <3>2
    <2> QED BY <2>1, <1>0, <1>g, <1>o, <1>a, LogLengths DEF LengthOf, Reached
  <1>m. LengthsOK'
    <2>1. LiveHdr'.mxFrame <= Len(wal'.frames)
      BY <1>g, <1>v, <1>a, LogLengths DEF LiveHdr
    <2>2. Excl(c, WAL_WRITE_LOCK)
      BY <1>o DEF Excl, ExclOf
    <2> QED BY <1>u, <1>n, <2>1, <2>2, LengthsMoved
  <1>z. pc[c] = "closed" => \A d \in Others(c) : ~Closing(d)
    BY <1>0
  <1> QED BY <1>k, <1>S, <1>F, <1>N, <1>C, <1>u, <1>m, <1>z, StepParts

LEMMA SyncHeaderTypes ==
  ASSUME TInv, NEW c \in Conns, SyncHeader(c)
  PROVE  Types' /\ ClosingsOK' /\ LengthsOK'
  <1> USE DEF TInv
  <1>0. pc[c] = "synchdr"
    BY DEF SyncHeader, Step, At
  <1>s. Shaped
    BY DEF LInv, Shaped, Local
  <1>l. Local(c)
    BY DEF LInv
  <1>c. Conn(c) /\ SharedOK /\ FilesOK /\ CountersOK /\ CacheOK
    BY DEF Types
  <1>g. LengthOf(c) /\ LiveHdr.mxFrame <= Len(wal.frames)
    BY DEF LengthsOK
  <1>v. UNCHANGED <<db, dbDisk, wal, shm, cache, writes, salts, setting>>
    BY DEF SyncHeader, files, private, rest
  <1>k. Conn(c)'
    BY <1>c, SyncHeaderConn
  <1>S. SharedOK'
    BY <1>c, <1>v DEF SharedOK, LiveHdr
  <1>F. FilesOK'
    BY <1>c, <1>v DEF FilesOK, SyncHeader
  <1>N. CountersOK'
    BY <1>c, <1>v DEF CountersOK
  <1>C. CacheOK'
    BY <1>c, <1>v DEF CacheOK
  <1>1. Becomes(c, "frames", job[c],
             wc[c], tx[c])
    BY <1>s, SyncHeaderDoes
  <1>u. Unmoved(c) /\ (Closing(c)' => Closing(c))
    BY <1>1, <1>l DEF Becomes, Unmoved, Closing, Local, ShapeOf
  <1>n. LengthOf(c)'
    BY <1>0, <1>l, <1>c, <1>v, <1>g, <1>1, LogLengths DEF Becomes, LengthOf,
       Reached, Local, ShapeOf, ControlOf, HdrOK, HdrPcs, Recovery, MarkPcs,
       RestartPcs, FramePcs, CopyPcs, ScanPcs, CkptPcs, Marks
  <1>m. LengthsOK'
    BY <1>u, <1>n, <1>v, LogLengths, LengthsKept DEF LiveHdr
  <1>z. pc[c] = "closed" => \A d \in Others(c) : ~Closing(d)
    BY <1>0
  <1> QED BY <1>k, <1>S, <1>F, <1>N, <1>C, <1>u, <1>m, <1>z, StepParts

LEMMA WriteFramesTypes ==
  ASSUME TInv, NEW c \in Conns, WriteFrames(c)
  PROVE  Types' /\ ClosingsOK' /\ LengthsOK'
  <1> USE DEF TInv
  <1>0. pc[c] \in {"log", "frames"}
    BY DEF WriteFrames, InFrames, Step, At
  <1>s. Shaped
    BY DEF LInv, Shaped, Local
  <1>l. Local(c)
    BY DEF LInv
  <1>c. Conn(c) /\ SharedOK /\ FilesOK /\ CountersOK /\ CacheOK
    BY DEF Types
  <1>g. LengthOf(c) /\ LiveHdr.mxFrame <= Len(wal.frames)
    BY DEF LengthsOK
  <1>v. UNCHANGED <<db, dbDisk, walDisk, shm, cache, writes, salts, setting>>
    BY DEF WriteFrames, InFrames, files, private, rest
  <1>k. Conn(c)'
    BY <1>c, WriteFramesConn, <1>g
  <1>o. tx[c].on /\ job[c].kind = "write"
    BY <1>0, <1>l DEF Local, ControlOf, HdrPcs, Recovery, MarkPcs, RestartPcs, FramePcs, CopyPcs, ScanPcs, CkptPcs, Marks
  <1>w. wal' = [wal EXCEPT !.frames = AllWritten(c).frames]
    BY DEF WriteFrames, AllWritten
  <1>b. Grown(c, AllWritten(c))
    <2>1. wc[c].hdr.mxFrame <= Len(wal.frames)
      BY <1>g, <1>o, LogLengths DEF LengthOf
    <2> QED BY <1>c, <1>o, <2>1, AllWrittenGrows
  <1>a. /\ DOMAIN wal' = DOMAIN wal /\ wal'.salt = wal.salt /\ wal'.frames = AllWritten(c).frames
        /\ Len(wal.frames) <= Len(wal'.frames) /\ Len(wal'.frames) \in Nat
    BY <1>w, <1>b, <1>c DEF FilesOK, LogOK, Grown, IsSeq
  <1>S. SharedOK'
    BY <1>c, <1>v DEF SharedOK, LiveHdr
  <1>F. FilesOK'
    <2>2. LogOK(wal')
      BY <1>c, <1>a, <1>b DEF FilesOK, LogOK, Grown
    <2> QED BY <1>c, <1>v, <2>2 DEF FilesOK
  <1>N. CountersOK'
    BY <1>c, <1>v DEF CountersOK
  <1>C. CacheOK'
    BY <1>c, <1>v DEF CacheOK
  <1>1. Becomes(c, IF job[c].commit /\ fullSync THEN "sync" ELSE "index", [job[c] EXCEPT !.new = AllWritten(c).new],
             [wc[c] EXCEPT !.hdr.sum = AllWritten(c).sum, !.iReCksum = AllWritten(c).re], tx[c])
    BY <1>s, WriteFramesDoes
  <1>u. Unmoved(c) /\ (Closing(c)' => Closing(c))
    BY <1>1, <1>l DEF Becomes, Unmoved, Closing, Local, ShapeOf
  <1>n. LengthOf(c)'
    <2>1. /\ wc'[c].hdr.mxFrame = wc[c].hdr.mxFrame /\ job'[c].new = AllWritten(c).new
          /\ pc'[c] \in {"sync", "index"}
      BY <1>1, <1>l, <1>c DEF Becomes, Local, ShapeOf, Conn, ConnOf, HdrOK
    <2>2. wc[c].hdr.mxFrame + Len(AllWritten(c).new) <= Len(wal'.frames)
      BY <1>a, <1>b DEF Grown
    <2> QED BY <2>1, <2>2 DEF LengthOf, Reached
  <1>m. LengthsOK'
    <2>1. LiveHdr'.mxFrame <= Len(wal'.frames)
      BY <1>g, <1>v, <1>a, LogLengths DEF LiveHdr
    <2>2. Excl(c, WAL_WRITE_LOCK)
      BY <1>o DEF Excl, ExclOf
    <2> QED BY <1>u, <1>n, <2>1, <2>2, LengthsMoved
  <1>z. pc[c] = "closed" => \A d \in Others(c) : ~Closing(d)
    BY <1>0
  <1> QED BY <1>k, <1>S, <1>F, <1>N, <1>C, <1>u, <1>m, <1>z, StepParts

LEMMA SyncFramesTypes ==
  ASSUME TInv, NEW c \in Conns, SyncFrames(c)
  PROVE  Types' /\ ClosingsOK' /\ LengthsOK'
  <1> USE DEF TInv
  <1>0. pc[c] = "sync"
    BY DEF SyncFrames, Step, At
  <1>s. Shaped
    BY DEF LInv, Shaped, Local
  <1>l. Local(c)
    BY DEF LInv
  <1>c. Conn(c) /\ SharedOK /\ FilesOK /\ CountersOK /\ CacheOK
    BY DEF Types
  <1>g. LengthOf(c) /\ LiveHdr.mxFrame <= Len(wal.frames)
    BY DEF LengthsOK
  <1>v. UNCHANGED <<db, dbDisk, wal, shm, cache, writes, salts, setting>>
    BY DEF SyncFrames, files, private, rest
  <1>k. Conn(c)'
    BY <1>c, SyncFramesConn
  <1>S. SharedOK'
    BY <1>c, <1>v DEF SharedOK, LiveHdr
  <1>F. FilesOK'
    BY <1>c, <1>v DEF FilesOK, SyncFrames
  <1>N. CountersOK'
    BY <1>c, <1>v DEF CountersOK
  <1>C. CacheOK'
    BY <1>c, <1>v DEF CacheOK
  <1>1. Becomes(c, "index", job[c],
             wc[c], tx[c])
    BY <1>s, SyncFramesDoes
  <1>u. Unmoved(c) /\ (Closing(c)' => Closing(c))
    BY <1>1, <1>l DEF Becomes, Unmoved, Closing, Local, ShapeOf
  <1>n. LengthOf(c)'
    BY <1>0, <1>l, <1>c, <1>v, <1>g, <1>1, LogLengths DEF Becomes, LengthOf,
       Reached, Local, ShapeOf, ControlOf, HdrOK, HdrPcs, Recovery, MarkPcs,
       RestartPcs, FramePcs, CopyPcs, ScanPcs, CkptPcs, Marks
  <1>m. LengthsOK'
    BY <1>u, <1>n, <1>v, LogLengths, LengthsKept DEF LiveHdr
  <1>z. pc[c] = "closed" => \A d \in Others(c) : ~Closing(d)
    BY <1>0
  <1> QED BY <1>k, <1>S, <1>F, <1>N, <1>C, <1>u, <1>m, <1>z, StepParts

LEMMA FailsTypes ==
  ASSUME TInv, NEW c \in Conns, Fails(c)
  PROVE  Types' /\ ClosingsOK' /\ LengthsOK'
  <1> USE DEF TInv
  <1>0. pc[c] \in {"log", "frames", "sync"} /\ job[c].commit
    BY DEF Fails, InFrames, Step, At
  <1>s. Shaped
    BY DEF LInv, Shaped, Local
  <1>l. Local(c)
    BY DEF LInv
  <1>c. Conn(c) /\ SharedOK /\ FilesOK /\ CountersOK /\ CacheOK
    BY DEF Types
  <1>g. LengthOf(c) /\ LiveHdr.mxFrame <= Len(wal.frames)
    BY DEF LengthsOK
  <1>v. UNCHANGED <<db, dbDisk, walDisk, shm, cache, writes, salts, setting>>
    BY DEF Fails, InFrames, files, private, rest
  <1>k. Conn(c)'
    BY <1>c, FailsConn
  <1>o. tx[c].on /\ job[c].kind = "write"
    BY <1>0, <1>l DEF Local, ControlOf, HdrPcs, Recovery, MarkPcs, RestartPcs, FramePcs, CopyPcs, ScanPcs, CkptPcs, Marks
  <1>a. /\ LogOK(wal') /\ Len(wal.frames) <= Len(wal'.frames) /\ Len(wal'.frames) \in Nat
    <2>1. wal' = wal \/ \E k \in 0 .. Len(job[c].list) - 1 :
                          wal' = [wal EXCEPT !.frames = Written(c)[k].frames]
      BY DEF Fails
    <2>2. CASE wal' = wal
      BY <1>c, <2>2 DEF FilesOK, LogOK, IsSeq
    <2>3. ASSUME NEW k \in 0 .. Len(job[c].list) - 1,
                 wal' = [wal EXCEPT !.frames = Written(c)[k].frames]
          PROVE  LogOK(wal') /\ Len(wal.frames) <= Len(wal'.frames) /\ Len(wal'.frames) \in Nat
      <3>1. wc[c].hdr.mxFrame <= Len(wal.frames)
        BY <1>g, <1>o, LogLengths DEF LengthOf
      <3>2. Grown(c, Written(c)[k])
        <4>1. k \in 0 .. Len(job[c].list)
          BY <1>c DEF Conn, ConnOf
        <4> QED BY <4>1, <1>c, <1>o, <3>1, WrittenGrows
      <3> QED BY <1>c, <2>3, <3>2 DEF FilesOK, LogOK, Grown, IsSeq
    <2> QED BY <2>1, <2>2, <2>3
  <1>S. SharedOK'
    BY <1>c, <1>v DEF SharedOK, LiveHdr
  <1>F. FilesOK'
    BY <1>c, <1>v, <1>a DEF FilesOK
  <1>N. CountersOK'
    BY <1>c, <1>v DEF CountersOK
  <1>C. CacheOK'
    BY <1>c, <1>v DEF CacheOK
  <1>1. Becomes(c, "idle", NoJob,
             wc[c], [tx[c] EXCEPT !.failed = TRUE])
    BY <1>s, FailsDoes
  <1>u. Unmoved(c) /\ (Closing(c)' => Closing(c))
    BY <1>1, <1>l DEF Becomes, Unmoved, Closing, Local, ShapeOf, NoJob
  <1>n. LengthOf(c)'
    <2>1. wc'[c] = wc[c] /\ pc'[c] = "idle"
      BY <1>1 DEF Becomes
    <2> QED BY <2>1, <1>g, <1>o, <1>a, LogLengths DEF LengthOf, Reached
  <1>m. LengthsOK'
    <2>1. LiveHdr'.mxFrame <= Len(wal'.frames)
      BY <1>g, <1>v, <1>a, LogLengths DEF LiveHdr
    <2>2. Excl(c, WAL_WRITE_LOCK)
      BY <1>o DEF Excl, ExclOf
    <2> QED BY <1>u, <1>n, <2>1, <2>2, LengthsMoved
  <1>z. pc[c] = "closed" => \A d \in Others(c) : ~Closing(d)
    BY <1>0
  <1> QED BY <1>k, <1>S, <1>F, <1>N, <1>C, <1>u, <1>m, <1>z, StepParts

LEMMA IndexTypes ==
  ASSUME TInv, NEW c \in Conns, Index(c)
  PROVE  Types' /\ ClosingsOK' /\ LengthsOK'
  <1> USE DEF TInv
  <1>0. pc[c] = "index"
    BY DEF Index, Step, At
  <1>s. Shaped
    BY DEF LInv, Shaped, Local
  <1>l. Local(c)
    BY DEF LInv
  <1>c. Conn(c) /\ SharedOK /\ FilesOK /\ CountersOK /\ CacheOK
    BY DEF Types
  <1>g. LengthOf(c) /\ LiveHdr.mxFrame <= Len(wal.frames)
    BY DEF LengthsOK
  <1>v. UNCHANGED <<db, dbDisk, wal, walDisk, writes, salts, setting>>
    BY DEF Index, files, private, rest
  <1>k. Conn(c)'
    BY <1>c, IndexConn
  <1>o. tx[c].on /\ job[c].kind = "write"
    BY <1>0, <1>l DEF Local, ControlOf, HdrPcs, Recovery, MarkPcs, RestartPcs, FramePcs, CopyPcs, ScanPcs, CkptPcs, Marks
  <1>h. LiveHdr' = LiveHdr
    BY <1>c DEF Index, SharedOK, LiveHdr
  <1>S. SharedOK'
    BY <1>c, <1>v DEF SharedOK, LiveHdr, Index
  <1>F. FilesOK'
    BY <1>c, <1>v DEF FilesOK
  <1>N. CountersOK'
    BY <1>c, <1>v DEF CountersOK
  <1>C. CacheOK'
    <2> DEFINE q == job[c].list[1]
               g == Put(cache[c], q, tx[c].dirty[q])
    <2>1. q \in Pages
      <3>1. job[c].list \in Seq(Pages) /\ job[c].list # <<>>
        BY <1>c, <1>o DEF Conn, ConnOf
      <3> QED BY <3>1
    <2>2. DOMAIN g \subseteq Pages
      BY <1>c, <2>1 DEF Put, CacheOK
    <2>3. cache' = cache \/ cache' = [cache EXCEPT ![c] = g]
      BY DEF Index, private
    <2> HIDE DEF g
    <2> QED BY <1>c, <2>2, <2>3, CacheKept
  <1>1. CASE job[c].commit
    <2>1. Becomes(c, "publish", job[c],
               [wc[c] EXCEPT !.hdr = IndexedHdr(c)], tx[c])
      BY <1>s, IndexDoes, <1>1
    <2>u. Unmoved(c) /\ (Closing(c)' => Closing(c))
      BY <2>1, <1>l DEF Becomes, Unmoved, Closing, Local, ShapeOf
    <2>n. LengthOf(c)'
      <3>1. wc'[c].hdr.mxFrame = wc[c].hdr.mxFrame + Len(job[c].new) /\ pc'[c] = "publish"
        <4>1. "hdr" \in DOMAIN wc[c] /\ "mxFrame" \in DOMAIN wc[c].hdr
          BY <1>l, <1>c DEF Local, ShapeOf, Conn, ConnOf, HdrOK
        <4>2. IndexedHdr(c).mxFrame = wc[c].hdr.mxFrame + Len(job[c].new)
          BY <4>1 DEF IndexedHdr
        <4>3. wc'[c] = [wc[c] EXCEPT !.hdr = IndexedHdr(c)] /\ pc'[c] = "publish"
          BY <2>1 DEF Becomes
        <4> QED BY <4>1, <4>2, <4>3
      <3>2. Reached(c)' = Reached(c)
        BY <3>1, <1>0, LogLengths DEF Reached
      <3> QED BY <3>1, <3>2, <1>g, <1>o, <1>v DEF LengthOf
    <2>m. LengthsOK'
      BY <2>u, <2>n, <1>v, <1>h, LogLengths, LengthsKept DEF LiveHdr
    <2>z. pc[c] = "closed" => \A d \in Others(c) : ~Closing(d)
      BY <1>0
    <2> QED BY <1>k, <1>S, <1>F, <1>N, <1>C, <2>u, <2>m, <2>z, StepParts
  <1>2. CASE ~job[c].commit
    <2>1. Becomes(c, "idle", NoJob,
               [wc[c] EXCEPT !.hdr = IndexedHdr(c)], [tx[c] EXCEPT !.dirty = Without(tx[c].dirty, {job[c].list[1]})])
      BY <1>s, IndexDoes, <1>2
    <2>u. Unmoved(c) /\ (Closing(c)' => Closing(c))
      BY <2>1, <1>l DEF Becomes, Unmoved, Closing, Local, ShapeOf, NoJob
    <2>n. LengthOf(c)'
      <3>1. wc'[c].hdr.mxFrame = wc[c].hdr.mxFrame + Len(job[c].new) /\ pc'[c] = "idle"
        <4>1. "hdr" \in DOMAIN wc[c] /\ "mxFrame" \in DOMAIN wc[c].hdr
          BY <1>l, <1>c DEF Local, ShapeOf, Conn, ConnOf, HdrOK
        <4>2. IndexedHdr(c).mxFrame = wc[c].hdr.mxFrame + Len(job[c].new)
          BY <4>1 DEF IndexedHdr
        <4>3. wc'[c] = [wc[c] EXCEPT !.hdr = IndexedHdr(c)] /\ pc'[c] = "idle"
          BY <2>1 DEF Becomes
        <4> QED BY <4>1, <4>2, <4>3
      <3>2. Reached(c)' = Reached(c)
        BY <3>1, <1>0, LogLengths DEF Reached
      <3> QED BY <3>1, <3>2, <1>g, <1>o, <1>v DEF LengthOf
    <2>m. LengthsOK'
      BY <2>u, <2>n, <1>v, <1>h, LogLengths, LengthsKept DEF LiveHdr
    <2>z. pc[c] = "closed" => \A d \in Others(c) : ~Closing(d)
      BY <1>0
    <2> QED BY <1>k, <1>S, <1>F, <1>N, <1>C, <2>u, <2>m, <2>z, StepParts
  <1> QED BY <1>1, <1>2

LEMMA PublishTypes ==
  ASSUME TInv, NEW c \in Conns, Publish(c)
  PROVE  Types' /\ ClosingsOK' /\ LengthsOK'
  <1> USE DEF TInv
  <1>0. pc[c] = "publish"
    BY DEF Publish, Step, At
  <1>s. Shaped
    BY DEF LInv, Shaped, Local
  <1>l. Local(c)
    BY DEF LInv
  <1>c. Conn(c) /\ SharedOK /\ FilesOK /\ CountersOK /\ CacheOK
    BY DEF Types
  <1>g. LengthOf(c) /\ LiveHdr.mxFrame <= Len(wal.frames)
    BY DEF LengthsOK
  <1>v. UNCHANGED <<db, dbDisk, wal, walDisk, writes, salts, setting>>
    BY DEF Publish, files, private, rest
  <1>k. Conn(c)'
    BY <1>c, PublishConn
  <1>o. tx[c].on /\ job[c].kind = "write"
    BY <1>0, <1>l DEF Local, ControlOf, HdrPcs, Recovery, MarkPcs, RestartPcs, FramePcs, CopyPcs, ScanPcs, CkptPcs, Marks
  <1>h. SharedOK' /\ LiveHdr' = wc[c].hdr
    BY <1>0, <1>c, LiveMoved DEF Publish, Conn, ConnOf
  <1>S. SharedOK'
    BY <1>h
  <1>F. FilesOK'
    BY <1>c, <1>v DEF FilesOK
  <1>N. CountersOK'
    BY <1>c, <1>v DEF CountersOK
  <1>C. CacheOK'
    <2> DEFINE g == [q \in (DOMAIN cache[c] \cup DOMAIN tx[c].dirty) \cap 1 .. tx[c].size |->
                        IF q \in DOMAIN tx[c].dirty THEN tx[c].dirty[q] ELSE cache[c][q]]
    <2>1. DOMAIN g \subseteq Pages
      BY <1>c DEF CacheOK, Conn, ConnOf
    <2>2. cache' = [cache EXCEPT ![c] = g]
      BY DEF Publish
    <2> HIDE DEF g
    <2> QED BY <1>c, <2>1, <2>2, CacheKept
  <1>1. Becomes(c, "idle", NoJob,
             wc[c], NoTx)
    BY <1>s, PublishDoes
  <1>u. Unmoved(c) /\ (Closing(c)' => Closing(c))
    BY <1>1, <1>l DEF Becomes, Unmoved, Closing, Local, ShapeOf, NoJob
  <1>n. LengthOf(c)'
    BY <1>0, <1>l, <1>c, <1>v, <1>g, <1>1, LogLengths DEF Becomes, LengthOf,
       Reached, Local, ShapeOf, ControlOf, HdrOK, NoJob, NoTx, HdrPcs,
       Recovery, MarkPcs, RestartPcs, FramePcs, CopyPcs, ScanPcs, CkptPcs,
       Marks
  <1>m. LengthsOK'
    <2>1. LiveHdr'.mxFrame <= Len(wal'.frames)
      BY <1>o, <1>h, <1>g, <1>v, LogLengths DEF LengthOf
    <2>2. Excl(c, WAL_WRITE_LOCK)
      BY <1>o DEF Excl, ExclOf
    <2> QED BY <1>u, <1>n, <2>1, <2>2, LengthsMoved
  <1>z. pc[c] = "closed" => \A d \in Others(c) : ~Closing(d)
    BY <1>0
  <1> QED BY <1>k, <1>S, <1>F, <1>N, <1>C, <1>u, <1>m, <1>z, StepParts

LEMMA StartCkptTypes ==
  ASSUME TInv, NEW c \in Conns, NEW mode \in Modes,
         mode = "close" => \A d \in Others(c) : At(d, "closed"), StartCkpt(c, mode)
  PROVE  Types' /\ ClosingsOK' /\ LengthsOK'
  <1> USE DEF TInv
  <1>0. pc[c] = "idle" /\ ~(wc[c].readLock >= 0)
    BY DEF StartCkpt, Idle, Reading, Step, At
  <1>s. Shaped
    BY DEF LInv, Shaped, Local
  <1>l. Local(c)
    BY DEF LInv
  <1>c. Conn(c) /\ SharedOK /\ FilesOK /\ CountersOK /\ CacheOK
    BY DEF Types
  <1>g. LengthOf(c) /\ LiveHdr.mxFrame <= Len(wal.frames)
    BY DEF LengthsOK
  <1>v. UNCHANGED <<db, dbDisk, wal, walDisk, shm, cache, writes, salts, setting>>
    BY DEF StartCkpt, Idle, Reading, files, private, rest
  <1>k. Conn(c)'
    BY <1>c, StartCkptConn
  <1>S. SharedOK'
    BY <1>c, <1>v DEF SharedOK, LiveHdr
  <1>F. FilesOK'
    BY <1>c, <1>v DEF FilesOK
  <1>N. CountersOK'
    BY <1>c, <1>v DEF CountersOK
  <1>C. CacheOK'
    BY <1>c, <1>v DEF CacheOK
  <1>1. Becomes(c, IF mode \in {"full", "truncate"} THEN "ckptwrite" ELSE "tryhdr", [NoJob EXCEPT !.kind = "ckpt", !.mode = mode],
             wc[c], tx[c])
    BY <1>s, StartCkptDoes
  <1>u. Unmoved(c) /\ (Closing(c)' => Closing(c) \/ \A d \in Others(c) : At(d, "closed"))
    BY <1>1, <1>l DEF Becomes, Unmoved, Closing, Local, ShapeOf, NoJob
  <1>n. LengthOf(c)'
    BY <1>0, <1>l, <1>c, <1>v, <1>g, <1>1, LogLengths DEF Becomes, LengthOf,
       Reached, Local, ShapeOf, ControlOf, HdrOK, NoJob, HdrPcs, Recovery,
       MarkPcs, RestartPcs, FramePcs, CopyPcs, ScanPcs, CkptPcs, Marks
  <1>m. LengthsOK'
    BY <1>u, <1>n, <1>v, LogLengths, LengthsKept DEF LiveHdr
  <1>z. pc[c] = "closed" => \A d \in Others(c) : ~Closing(d)
    BY <1>0
  <1> QED BY <1>k, <1>S, <1>F, <1>N, <1>C, <1>u, <1>m, <1>z, StepParts

LEMMA CkptWriteTypes ==
  ASSUME TInv, NEW c \in Conns, CkptWrite(c)
  PROVE  Types' /\ ClosingsOK' /\ LengthsOK'
  <1> USE DEF TInv
  <1>0. pc[c] = "ckptwrite"
    BY DEF CkptWrite, Step, At
  <1>s. Shaped
    BY DEF LInv, Shaped, Local
  <1>l. Local(c)
    BY DEF LInv
  <1>c. Conn(c) /\ SharedOK /\ FilesOK /\ CountersOK /\ CacheOK
    BY DEF Types
  <1>g. LengthOf(c) /\ LiveHdr.mxFrame <= Len(wal.frames)
    BY DEF LengthsOK
  <1>v. UNCHANGED <<db, dbDisk, wal, walDisk, shm, cache, writes, salts, setting>>
    BY DEF CkptWrite, files, private, rest
  <1>k. Conn(c)'
    BY <1>c, CkptWriteConn
  <1>S. SharedOK'
    BY <1>c, <1>v DEF SharedOK, LiveHdr
  <1>F. FilesOK'
    BY <1>c, <1>v DEF FilesOK
  <1>N. CountersOK'
    BY <1>c, <1>v DEF CountersOK
  <1>C. CacheOK'
    BY <1>c, <1>v DEF CacheOK
  <1>1. CASE Lockable({WAL_WRITE_LOCK})
    <2>1. Becomes(c, "tryhdr", job[c],
               wc[c], tx[c])
      BY <1>s, CkptWriteDoes, <1>1
    <2>u. Unmoved(c) /\ (Closing(c)' => Closing(c))
      BY <2>1, <1>l DEF Becomes, Unmoved, Closing, Local, ShapeOf
    <2>n. LengthOf(c)'
      BY <1>0, <1>l, <1>c, <1>v, <1>g, <1>1, <2>1, LogLengths DEF Becomes,
         LengthOf, Reached, Local, ShapeOf, ControlOf, HdrOK, HdrPcs,
         Recovery, MarkPcs, RestartPcs, FramePcs, CopyPcs, ScanPcs, CkptPcs,
         Marks
    <2>m. LengthsOK'
      BY <2>u, <2>n, <1>v, LogLengths, LengthsKept DEF LiveHdr
    <2>z. pc[c] = "closed" => \A d \in Others(c) : ~Closing(d)
      BY <1>0
    <2> QED BY <1>k, <1>S, <1>F, <1>N, <1>C, <2>u, <2>m, <2>z, StepParts
  <1>2. CASE ~Lockable({WAL_WRITE_LOCK})
    <2>1. Becomes(c, "tryhdr", [job[c] EXCEPT !.mode = "passive"],
               wc[c], tx[c])
      BY <1>s, CkptWriteDoes, <1>2
    <2>u. Unmoved(c) /\ (Closing(c)' => Closing(c))
      BY <2>1, <1>l DEF Becomes, Unmoved, Closing, Local, ShapeOf
    <2>n. LengthOf(c)'
      BY <1>0, <1>l, <1>c, <1>v, <1>g, <1>2, <2>1, LogLengths DEF Becomes,
         LengthOf, Reached, Local, ShapeOf, ControlOf, HdrOK, HdrPcs,
         Recovery, MarkPcs, RestartPcs, FramePcs, CopyPcs, ScanPcs, CkptPcs,
         Marks
    <2>m. LengthsOK'
      BY <2>u, <2>n, <1>v, LogLengths, LengthsKept DEF LiveHdr
    <2>z. pc[c] = "closed" => \A d \in Others(c) : ~Closing(d)
      BY <1>0
    <2> QED BY <1>k, <1>S, <1>F, <1>N, <1>C, <2>u, <2>m, <2>z, StepParts
  <1> QED BY <1>1, <1>2

LEMMA CkptStartTypes ==
  ASSUME TInv, NEW c \in Conns, CkptStart(c)
  PROVE  Types' /\ ClosingsOK' /\ LengthsOK'
  <1> USE DEF TInv
  <1>0. pc[c] = "ckpt"
    BY DEF CkptStart, Step, At
  <1>s. Shaped
    BY DEF LInv, Shaped, Local
  <1>l. Local(c)
    BY DEF LInv
  <1>c. Conn(c) /\ SharedOK /\ FilesOK /\ CountersOK /\ CacheOK
    BY DEF Types
  <1>g. LengthOf(c) /\ LiveHdr.mxFrame <= Len(wal.frames)
    BY DEF LengthsOK
  <1>v. UNCHANGED <<db, dbDisk, wal, walDisk, shm, cache, writes, salts, setting>>
    BY DEF CkptStart, files, private, rest
  <1>k. Conn(c)'
    BY <1>c, CkptStartConn
  <1>S. SharedOK'
    BY <1>c, <1>v DEF SharedOK, LiveHdr
  <1>F. FilesOK'
    BY <1>c, <1>v DEF FilesOK
  <1>N. CountersOK'
    BY <1>c, <1>v DEF CountersOK
  <1>C. CacheOK'
    BY <1>c, <1>v DEF CacheOK
  <1>1. CASE shm.nBackfill < wc[c].hdr.mxFrame
    <2>1. Becomes(c, "mark", [job[c] EXCEPT !.i = 1, !.safe = wc[c].hdr.mxFrame],
               wc[c], tx[c])
      BY <1>s, CkptStartDoes, <1>1
    <2>u. Unmoved(c) /\ (Closing(c)' => Closing(c))
      BY <2>1, <1>l DEF Becomes, Unmoved, Closing, Local, ShapeOf
    <2>n. LengthOf(c)'
      BY <1>0, <1>l, <1>c, <1>v, <1>g, <1>1, <2>1, LogLengths DEF Becomes,
         LengthOf, Reached, Local, ShapeOf, ControlOf, HdrOK, HdrPcs,
         Recovery, MarkPcs, RestartPcs, FramePcs, CopyPcs, ScanPcs, CkptPcs,
         Marks, AfterCopy
    <2>m. LengthsOK'
      BY <2>u, <2>n, <1>v, LogLengths, LengthsKept DEF LiveHdr
    <2>z. pc[c] = "closed" => \A d \in Others(c) : ~Closing(d)
      BY <1>0
    <2> QED BY <1>k, <1>S, <1>F, <1>N, <1>C, <2>u, <2>m, <2>z, StepParts
  <1>2. CASE ~(shm.nBackfill < wc[c].hdr.mxFrame)
    <2>1. Becomes(c, AfterCopy(c), job[c],
               wc[c], tx[c])
      BY <1>s, CkptStartDoes, <1>2
    <2>u. Unmoved(c) /\ (Closing(c)' => Closing(c))
      BY <2>1, <1>l DEF Becomes, Unmoved, Closing, Local, ShapeOf
    <2>n. LengthOf(c)'
      BY <1>0, <1>l, <1>c, <1>v, <1>g, <1>2, <2>1, LogLengths DEF Becomes,
         LengthOf, Reached, Local, ShapeOf, ControlOf, HdrOK, HdrPcs,
         Recovery, MarkPcs, RestartPcs, FramePcs, CopyPcs, ScanPcs, CkptPcs,
         Marks, AfterCopy
    <2>m. LengthsOK'
      BY <2>u, <2>n, <1>v, LogLengths, LengthsKept DEF LiveHdr
    <2>z. pc[c] = "closed" => \A d \in Others(c) : ~Closing(d)
      BY <1>0
    <2> QED BY <1>k, <1>S, <1>F, <1>N, <1>C, <2>u, <2>m, <2>z, StepParts
  <1> QED BY <1>1, <1>2

LEMMA CkptReadMarkTypes ==
  ASSUME TInv, NEW c \in Conns, CkptReadMark(c)
  PROVE  Types' /\ ClosingsOK' /\ LengthsOK'
  <1> USE DEF TInv
  <1>0. pc[c] = "mark"
    BY DEF CkptReadMark, Step, At
  <1>s. Shaped
    BY DEF LInv, Shaped, Local
  <1>l. Local(c)
    BY DEF LInv
  <1>c. Conn(c) /\ SharedOK /\ FilesOK /\ CountersOK /\ CacheOK
    BY DEF Types
  <1>g. LengthOf(c) /\ LiveHdr.mxFrame <= Len(wal.frames)
    BY DEF LengthsOK
  <1>v. UNCHANGED <<db, dbDisk, wal, walDisk, shm, cache, writes, salts, setting>>
    BY DEF CkptReadMark, NextMark, files, private, rest
  <1>k. Conn(c)'
    BY <1>c, CkptReadMarkConn
  <1>S. SharedOK'
    BY <1>c, <1>v DEF SharedOK, LiveHdr
  <1>F. FilesOK'
    BY <1>c, <1>v DEF FilesOK
  <1>N. CountersOK'
    BY <1>c, <1>v DEF CountersOK
  <1>C. CacheOK'
    BY <1>c, <1>v DEF CacheOK
  <1>1. CASE job[c].safe > shm.aReadMark[job[c].i]
    <2>1. Becomes(c, "lockmk", [job[c] EXCEPT !.mark = shm.aReadMark[job[c].i]],
               wc[c], tx[c])
      BY <1>s, CkptReadMarkDoes, <1>1
    <2>u. Unmoved(c) /\ (Closing(c)' => Closing(c))
      BY <2>1, <1>l DEF Becomes, Unmoved, Closing, Local, ShapeOf
    <2>n. LengthOf(c)'
      BY <1>0, <1>l, <1>c, <1>v, <1>g, <1>1, <2>1, LogLengths DEF Becomes,
         LengthOf, Reached, Local, ShapeOf, ControlOf, HdrOK, HdrPcs,
         Recovery, MarkPcs, RestartPcs, FramePcs, CopyPcs, ScanPcs, CkptPcs,
         Marks
    <2>m. LengthsOK'
      BY <2>u, <2>n, <1>v, LogLengths, LengthsKept DEF LiveHdr
    <2>z. pc[c] = "closed" => \A d \in Others(c) : ~Closing(d)
      BY <1>0
    <2> QED BY <1>k, <1>S, <1>F, <1>N, <1>C, <2>u, <2>m, <2>z, StepParts
  <1>2. CASE ~(job[c].safe > shm.aReadMark[job[c].i])
    <2>1. Becomes(c, IF job[c].i = WAL_NREADER - 1 THEN "lock0" ELSE "mark", [job[c] EXCEPT !.i = @ + 1, !.safe = job[c].safe, !.mark = 0],
               wc[c], tx[c])
      BY <1>s, CkptReadMarkDoes, <1>2
    <2>u. Unmoved(c) /\ (Closing(c)' => Closing(c))
      BY <2>1, <1>l DEF Becomes, Unmoved, Closing, Local, ShapeOf
    <2>n. LengthOf(c)'
      BY <1>0, <1>l, <1>c, <1>v, <1>g, <1>2, <2>1, LogLengths DEF Becomes,
         LengthOf, Reached, Local, ShapeOf, ControlOf, HdrOK, HdrPcs,
         Recovery, MarkPcs, RestartPcs, FramePcs, CopyPcs, ScanPcs, CkptPcs,
         Marks
    <2>m. LengthsOK'
      BY <2>u, <2>n, <1>v, LogLengths, LengthsKept DEF LiveHdr
    <2>z. pc[c] = "closed" => \A d \in Others(c) : ~Closing(d)
      BY <1>0
    <2> QED BY <1>k, <1>S, <1>F, <1>N, <1>C, <2>u, <2>m, <2>z, StepParts
  <1> QED BY <1>1, <1>2

LEMMA CkptLockMarkTypes ==
  ASSUME TInv, NEW c \in Conns, CkptLockMark(c)
  PROVE  Types' /\ ClosingsOK' /\ LengthsOK'
  <1> USE DEF TInv
  <1>0. pc[c] = "lockmk"
    BY DEF CkptLockMark, Step, At
  <1>s. Shaped
    BY DEF LInv, Shaped, Local
  <1>l. Local(c)
    BY DEF LInv
  <1>c. Conn(c) /\ SharedOK /\ FilesOK /\ CountersOK /\ CacheOK
    BY DEF Types
  <1>g. LengthOf(c) /\ LiveHdr.mxFrame <= Len(wal.frames)
    BY DEF LengthsOK
  <1>v. UNCHANGED <<db, dbDisk, wal, walDisk, cache, writes, salts, setting>>
    BY DEF CkptLockMark, NextMark, SafeBelow, files, private, rest
  <1>k. Conn(c)'
    BY <1>c, CkptLockMarkConn
  <1>h. LiveHdr' = LiveHdr
    BY <1>c DEF CkptLockMark, NextMark, SafeBelow, SharedOK, LiveHdr
  <1>S. SharedOK'
    <2>1. shm' = shm \/ \E i : \E n \in {job[c].safe, READMARK_NOT_USED} :
                               shm' = [shm EXCEPT !.aReadMark[i] = n]
      BY DEF CkptLockMark
    <2>2. \A n \in {job[c].safe, READMARK_NOT_USED} : n \in Nat
      BY <1>c DEF Conn, ConnOf, READMARK_NOT_USED
    <2>3. ASSUME NEW i, NEW n \in Nat, shm' = [shm EXCEPT !.aReadMark[i] = n] PROVE SharedOK'
      BY <1>c, <2>3, SharedKept DEF SharedOK
    <2>4. CASE shm' = shm
      BY <1>c, <2>4 DEF SharedOK, LiveHdr
    <2> QED BY <2>1, <2>2, <2>3, <2>4
  <1>F. FilesOK'
    BY <1>c, <1>v DEF FilesOK
  <1>N. CountersOK'
    BY <1>c, <1>v DEF CountersOK
  <1>C. CacheOK'
    BY <1>c, <1>v DEF CacheOK
  <1>1. CASE Lockable({WAL_READ_LOCK(job[c].i)})
    <2>1. Becomes(c, IF job[c].i = WAL_NREADER - 1 THEN "lock0" ELSE "mark", [job[c] EXCEPT !.i = @ + 1, !.safe = job[c].safe, !.mark = 0],
               wc[c], tx[c])
      BY <1>s, CkptLockMarkDoes, <1>1
    <2>u. Unmoved(c) /\ (Closing(c)' => Closing(c))
      BY <2>1, <1>l DEF Becomes, Unmoved, Closing, Local, ShapeOf
    <2>n. LengthOf(c)'
      BY <1>0, <1>l, <1>c, <1>v, <1>g, <1>1, <2>1, LogLengths DEF Becomes,
         LengthOf, Reached, Local, ShapeOf, ControlOf, HdrOK, HdrPcs,
         Recovery, MarkPcs, RestartPcs, FramePcs, CopyPcs, ScanPcs, CkptPcs,
         Marks
    <2>m. LengthsOK'
      BY <2>u, <2>n, <1>v, <1>h, LogLengths, LengthsKept DEF LiveHdr
    <2>z. pc[c] = "closed" => \A d \in Others(c) : ~Closing(d)
      BY <1>0
    <2> QED BY <1>k, <1>S, <1>F, <1>N, <1>C, <2>u, <2>m, <2>z, StepParts
  <1>2. CASE ~Lockable({WAL_READ_LOCK(job[c].i)})
    <2>1. Becomes(c, IF job[c].i = WAL_NREADER - 1 THEN "lock0" ELSE "mark", [job[c] EXCEPT !.i = @ + 1, !.safe = job[c].mark, !.mark = 0],
               wc[c], tx[c])
      BY <1>s, CkptLockMarkDoes, <1>2
    <2>u. Unmoved(c) /\ (Closing(c)' => Closing(c))
      BY <2>1, <1>l DEF Becomes, Unmoved, Closing, Local, ShapeOf
    <2>n. LengthOf(c)'
      BY <1>0, <1>l, <1>c, <1>v, <1>g, <1>2, <2>1, LogLengths DEF Becomes,
         LengthOf, Reached, Local, ShapeOf, ControlOf, HdrOK, HdrPcs,
         Recovery, MarkPcs, RestartPcs, FramePcs, CopyPcs, ScanPcs, CkptPcs,
         Marks
    <2>m. LengthsOK'
      BY <2>u, <2>n, <1>v, <1>h, LogLengths, LengthsKept DEF LiveHdr
    <2>z. pc[c] = "closed" => \A d \in Others(c) : ~Closing(d)
      BY <1>0
    <2> QED BY <1>k, <1>S, <1>F, <1>N, <1>C, <2>u, <2>m, <2>z, StepParts
  <1> QED BY <1>1, <1>2

LEMMA CkptLock0Types ==
  ASSUME TInv, NEW c \in Conns, CkptLock0(c)
  PROVE  Types' /\ ClosingsOK' /\ LengthsOK'
  <1> USE DEF TInv
  <1>0. pc[c] = "lock0"
    BY DEF CkptLock0, Step, At
  <1>s. Shaped
    BY DEF LInv, Shaped, Local
  <1>l. Local(c)
    BY DEF LInv
  <1>c. Conn(c) /\ SharedOK /\ FilesOK /\ CountersOK /\ CacheOK
    BY DEF Types
  <1>g. LengthOf(c) /\ LiveHdr.mxFrame <= Len(wal.frames)
    BY DEF LengthsOK
  <1>v. UNCHANGED <<db, dbDisk, wal, walDisk, shm, cache, writes, salts, setting>>
    BY DEF CkptLock0, files, private, rest
  <1>k. Conn(c)'
    BY <1>c, CkptLock0Conn
  <1>S. SharedOK'
    BY <1>c, <1>v DEF SharedOK, LiveHdr
  <1>F. FilesOK'
    BY <1>c, <1>v DEF FilesOK
  <1>N. CountersOK'
    BY <1>c, <1>v DEF CountersOK
  <1>C. CacheOK'
    BY <1>c, <1>v DEF CacheOK
  <1>1. CASE shm.nBackfill < job[c].safe /\ Lockable({WAL_READ_LOCK(0)}) /\ LiveHdr.salt = wc[c].hdr.salt
    <2>1. PICK list \in ToCopy(c) : Becomes(c, "synclog", [job[c] EXCEPT !.list = list],
               wc[c], tx[c])
      BY <1>s, CkptLock0Does, <1>1
    <2>u. Unmoved(c) /\ (Closing(c)' => Closing(c))
      BY <2>1, <1>l DEF Becomes, Unmoved, Closing, Local, ShapeOf
    <2>n. LengthOf(c)'
      BY <1>0, <1>l, <1>c, <1>v, <1>g, <1>1, <2>1, LogLengths DEF Becomes,
         LengthOf, Reached, Local, ShapeOf, ControlOf, HdrOK, HdrPcs,
         Recovery, MarkPcs, RestartPcs, FramePcs, CopyPcs, ScanPcs, CkptPcs,
         Marks, AfterCopy
    <2>m. LengthsOK'
      BY <2>u, <2>n, <1>v, LogLengths, LengthsKept DEF LiveHdr
    <2>z. pc[c] = "closed" => \A d \in Others(c) : ~Closing(d)
      BY <1>0
    <2> QED BY <1>k, <1>S, <1>F, <1>N, <1>C, <2>u, <2>m, <2>z, StepParts
  <1>2. CASE ~(shm.nBackfill < job[c].safe /\ Lockable({WAL_READ_LOCK(0)}) /\ LiveHdr.salt = wc[c].hdr.salt)
    <2>1. Becomes(c, AfterCopy(c), job[c],
               wc[c], tx[c])
      BY <1>s, CkptLock0Does, <1>2
    <2>u. Unmoved(c) /\ (Closing(c)' => Closing(c))
      BY <2>1, <1>l DEF Becomes, Unmoved, Closing, Local, ShapeOf
    <2>n. LengthOf(c)'
      BY <1>0, <1>l, <1>c, <1>v, <1>g, <1>2, <2>1, LogLengths DEF Becomes,
         LengthOf, Reached, Local, ShapeOf, ControlOf, HdrOK, HdrPcs,
         Recovery, MarkPcs, RestartPcs, FramePcs, CopyPcs, ScanPcs, CkptPcs,
         Marks, AfterCopy
    <2>m. LengthsOK'
      BY <2>u, <2>n, <1>v, LogLengths, LengthsKept DEF LiveHdr
    <2>z. pc[c] = "closed" => \A d \in Others(c) : ~Closing(d)
      BY <1>0
    <2> QED BY <1>k, <1>S, <1>F, <1>N, <1>C, <2>u, <2>m, <2>z, StepParts
  <1> QED BY <1>1, <1>2

LEMMA CkptSyncTypes ==
  ASSUME TInv, NEW c \in Conns, CkptSync(c)
  PROVE  Types' /\ ClosingsOK' /\ LengthsOK'
  <1> USE DEF TInv
  <1>0. pc[c] = "synclog"
    BY DEF CkptSync, Step, At
  <1>s. Shaped
    BY DEF LInv, Shaped, Local
  <1>l. Local(c)
    BY DEF LInv
  <1>c. Conn(c) /\ SharedOK /\ FilesOK /\ CountersOK /\ CacheOK
    BY DEF Types
  <1>g. LengthOf(c) /\ LiveHdr.mxFrame <= Len(wal.frames)
    BY DEF LengthsOK
  <1>v. UNCHANGED <<db, dbDisk, wal, shm, cache, writes, salts, setting>>
    BY DEF CkptSync, files, private, rest
  <1>k. Conn(c)'
    BY <1>c, CkptSyncConn
  <1>S. SharedOK'
    BY <1>c, <1>v DEF SharedOK, LiveHdr
  <1>F. FilesOK'
    BY <1>c, <1>v DEF FilesOK, CkptSync, SyncedLog
  <1>N. CountersOK'
    BY <1>c, <1>v DEF CountersOK
  <1>C. CacheOK'
    BY <1>c, <1>v DEF CacheOK
  <1>1. Becomes(c, "copy", job[c],
             wc[c], tx[c])
    BY <1>s, CkptSyncDoes
  <1>u. Unmoved(c) /\ (Closing(c)' => Closing(c))
    BY <1>1, <1>l DEF Becomes, Unmoved, Closing, Local, ShapeOf
  <1>n. LengthOf(c)'
    BY <1>0, <1>l, <1>c, <1>v, <1>g, <1>1, LogLengths DEF Becomes, LengthOf,
       Reached, Local, ShapeOf, ControlOf, HdrOK, HdrPcs, Recovery, MarkPcs,
       RestartPcs, FramePcs, CopyPcs, ScanPcs, CkptPcs, Marks
  <1>m. LengthsOK'
    BY <1>u, <1>n, <1>v, LogLengths, LengthsKept DEF LiveHdr
  <1>z. pc[c] = "closed" => \A d \in Others(c) : ~Closing(d)
    BY <1>0
  <1> QED BY <1>k, <1>S, <1>F, <1>N, <1>C, <1>u, <1>m, <1>z, StepParts

LEMMA CkptCopyTypes ==
  ASSUME TInv, NEW c \in Conns, CkptCopy(c)
  PROVE  Types' /\ ClosingsOK' /\ LengthsOK'
  <1> USE DEF TInv
  <1>0. pc[c] = "copy"
    BY DEF CkptCopy, Step, At
  <1>s. Shaped
    BY DEF LInv, Shaped, Local
  <1>l. Local(c)
    BY DEF LInv
  <1>c. Conn(c) /\ SharedOK /\ FilesOK /\ CountersOK /\ CacheOK
    BY DEF Types
  <1>g. LengthOf(c) /\ LiveHdr.mxFrame <= Len(wal.frames)
    BY DEF LengthsOK
  <1>v. UNCHANGED <<dbDisk, wal, walDisk, shm, cache, writes, salts, setting>>
    BY DEF CkptCopy, files, private, rest
  <1>k. Conn(c)'
    BY <1>c, CkptCopyConn
  <1>S. SharedOK'
    BY <1>c, <1>v DEF SharedOK, LiveHdr
  <1>F. FilesOK'
    <2> DEFINE q == Head(job[c].list)
               n == Largest({q, Len(db)})
    <2>1. q \in Pages
      <3>1. job[c].list \in Seq(Pages) /\ job[c].list # <<>>
        BY <1>c DEF CkptCopy, Conn, ConnOf
      <3> QED BY <3>1
    <2>2. n \in Pages
      BY <1>c, <2>1, LargestPage DEF FilesOK, DbOK
    <2>3. \E f : db' = [x \in 1 .. n |-> f[x]]
      <3>1. \E v : db' = [x \in 1 .. n |-> IF x = q THEN v ELSE PageOf(db, x)]
        BY DEF CkptCopy, WithPage
      <3>2. PICK v : db' = [x \in 1 .. n |-> IF x = q THEN v ELSE PageOf(db, x)]
        BY <3>1
      <3> HIDE DEF n, q
      <3>3. db' = [x \in 1 .. n |-> db'[x]]
        BY <3>2
      <3> QED BY <3>3
    <2> HIDE DEF n, q
    <2>4. DbOK(db')
      BY <2>2, <2>3, DbSized
    <2> QED BY <1>c, <1>v, <2>4 DEF FilesOK
  <1>N. CountersOK'
    BY <1>c, <1>v DEF CountersOK
  <1>C. CacheOK'
    BY <1>c, <1>v DEF CacheOK
  <1>1. Becomes(c, pc[c], [job[c] EXCEPT !.list = Tail(@)],
             wc[c], tx[c])
    BY <1>s, CkptCopyDoes
  <1>u. Unmoved(c) /\ (Closing(c)' => Closing(c))
    BY <1>1, <1>l DEF Becomes, Unmoved, Closing, Local, ShapeOf
  <1>n. LengthOf(c)'
    BY <1>0, <1>l, <1>c, <1>v, <1>g, <1>1, LogLengths DEF Becomes, LengthOf,
       Reached, Local, ShapeOf, ControlOf, HdrOK, HdrPcs, Recovery, MarkPcs,
       RestartPcs, FramePcs, CopyPcs, ScanPcs, CkptPcs, Marks
  <1>m. LengthsOK'
    BY <1>u, <1>n, <1>v, LogLengths, LengthsKept DEF LiveHdr
  <1>z. pc[c] = "closed" => \A d \in Others(c) : ~Closing(d)
    BY <1>0
  <1> QED BY <1>k, <1>S, <1>F, <1>N, <1>C, <1>u, <1>m, <1>z, StepParts

LEMMA CkptTruncateTypes ==
  ASSUME TInv, NEW c \in Conns, CkptTruncate(c)
  PROVE  Types' /\ ClosingsOK' /\ LengthsOK'
  <1> USE DEF TInv
  <1>0. pc[c] = "copy"
    BY DEF CkptTruncate, Step, At
  <1>s. Shaped
    BY DEF LInv, Shaped, Local
  <1>l. Local(c)
    BY DEF LInv
  <1>c. Conn(c) /\ SharedOK /\ FilesOK /\ CountersOK /\ CacheOK
    BY DEF Types
  <1>g. LengthOf(c) /\ LiveHdr.mxFrame <= Len(wal.frames)
    BY DEF LengthsOK
  <1>v. UNCHANGED <<dbDisk, wal, walDisk, shm, cache, writes, salts, setting>>
    BY DEF CkptTruncate, files, private, rest
  <1>k. Conn(c)'
    BY <1>c, CkptTruncateConn
  <1>S. SharedOK'
    BY <1>c, <1>v DEF SharedOK, LiveHdr
  <1>F. FilesOK'
    <2>1. wc[c].hdr.nPage \in Pages
      BY <1>0, <1>l, <1>c DEF Conn, ConnOf, Sized, Local, ControlOf, CopyPcs, MarkPcs, RestartPcs, FramePcs
    <2>2. CASE db' = db
      BY <1>c, <1>v, <2>2 DEF FilesOK
    <2>3. CASE db' = Resized(db, wc[c].hdr.nPage)
      <3>1. db' = [x \in 1 .. wc[c].hdr.nPage |-> db'[x]]
        BY <2>3 DEF Resized
      <3>2. DbOK([x \in 1 .. wc[c].hdr.nPage |-> db'[x]])
        BY <2>1, DbSized
      <3>3. DbOK(db')
        BY <3>1, <3>2
      <3> QED BY <1>c, <1>v, <3>3 DEF FilesOK
    <2> QED BY <2>2, <2>3 DEF CkptTruncate
  <1>N. CountersOK'
    BY <1>c, <1>v DEF CountersOK
  <1>C. CacheOK'
    BY <1>c, <1>v DEF CacheOK
  <1>1. Becomes(c, IF job[c].safe = LiveHdr.mxFrame THEN "syncdb" ELSE "backfill", job[c],
             wc[c], tx[c])
    BY <1>s, CkptTruncateDoes
  <1>u. Unmoved(c) /\ (Closing(c)' => Closing(c))
    BY <1>1, <1>l DEF Becomes, Unmoved, Closing, Local, ShapeOf
  <1>n. LengthOf(c)'
    BY <1>0, <1>l, <1>c, <1>v, <1>g, <1>1, LogLengths DEF Becomes, LengthOf,
       Reached, Local, ShapeOf, ControlOf, HdrOK, HdrPcs, Recovery, MarkPcs,
       RestartPcs, FramePcs, CopyPcs, ScanPcs, CkptPcs, Marks
  <1>m. LengthsOK'
    BY <1>u, <1>n, <1>v, LogLengths, LengthsKept DEF LiveHdr
  <1>z. pc[c] = "closed" => \A d \in Others(c) : ~Closing(d)
    BY <1>0
  <1> QED BY <1>k, <1>S, <1>F, <1>N, <1>C, <1>u, <1>m, <1>z, StepParts

LEMMA CkptSyncDbTypes ==
  ASSUME TInv, NEW c \in Conns, CkptSyncDb(c)
  PROVE  Types' /\ ClosingsOK' /\ LengthsOK'
  <1> USE DEF TInv
  <1>0. pc[c] = "syncdb"
    BY DEF CkptSyncDb, Step, At
  <1>s. Shaped
    BY DEF LInv, Shaped, Local
  <1>l. Local(c)
    BY DEF LInv
  <1>c. Conn(c) /\ SharedOK /\ FilesOK /\ CountersOK /\ CacheOK
    BY DEF Types
  <1>g. LengthOf(c) /\ LiveHdr.mxFrame <= Len(wal.frames)
    BY DEF LengthsOK
  <1>v. UNCHANGED <<db, wal, walDisk, shm, cache, writes, salts, setting>>
    BY DEF CkptSyncDb, files, private, rest
  <1>k. Conn(c)'
    BY <1>c, CkptSyncDbConn
  <1>S. SharedOK'
    BY <1>c, <1>v DEF SharedOK, LiveHdr
  <1>F. FilesOK'
    BY <1>c, <1>v DEF FilesOK, CkptSyncDb
  <1>N. CountersOK'
    BY <1>c, <1>v DEF CountersOK
  <1>C. CacheOK'
    BY <1>c, <1>v DEF CacheOK
  <1>1. Becomes(c, "backfill", job[c],
             wc[c], tx[c])
    BY <1>s, CkptSyncDbDoes
  <1>u. Unmoved(c) /\ (Closing(c)' => Closing(c))
    BY <1>1, <1>l DEF Becomes, Unmoved, Closing, Local, ShapeOf
  <1>n. LengthOf(c)'
    BY <1>0, <1>l, <1>c, <1>v, <1>g, <1>1, LogLengths DEF Becomes, LengthOf,
       Reached, Local, ShapeOf, ControlOf, HdrOK, HdrPcs, Recovery, MarkPcs,
       RestartPcs, FramePcs, CopyPcs, ScanPcs, CkptPcs, Marks
  <1>m. LengthsOK'
    BY <1>u, <1>n, <1>v, LogLengths, LengthsKept DEF LiveHdr
  <1>z. pc[c] = "closed" => \A d \in Others(c) : ~Closing(d)
    BY <1>0
  <1> QED BY <1>k, <1>S, <1>F, <1>N, <1>C, <1>u, <1>m, <1>z, StepParts

LEMMA CkptBackfillTypes ==
  ASSUME TInv, NEW c \in Conns, CkptBackfill(c)
  PROVE  Types' /\ ClosingsOK' /\ LengthsOK'
  <1> USE DEF TInv
  <1>0. pc[c] = "backfill"
    BY DEF CkptBackfill, Step, At
  <1>s. Shaped
    BY DEF LInv, Shaped, Local
  <1>l. Local(c)
    BY DEF LInv
  <1>c. Conn(c) /\ SharedOK /\ FilesOK /\ CountersOK /\ CacheOK
    BY DEF Types
  <1>g. LengthOf(c) /\ LiveHdr.mxFrame <= Len(wal.frames)
    BY DEF LengthsOK
  <1>v. UNCHANGED <<db, dbDisk, wal, walDisk, cache, writes, salts, setting>>
    BY DEF CkptBackfill, files, private, rest
  <1>k. Conn(c)'
    BY <1>c, CkptBackfillConn
  <1>h. LiveHdr' = LiveHdr
    BY <1>c DEF CkptBackfill, SharedOK, LiveHdr
  <1>S. SharedOK'
    <2>1. /\ DOMAIN shm' = DOMAIN shm /\ shm'.hdr = shm.hdr /\ shm'.nBackfill \in Nat
          /\ shm'.aReadMark \in [0 .. WAL_NREADER - 1 -> Nat]
      BY <1>c DEF CkptBackfill, Conn, ConnOf, SharedOK
    <2> QED BY <1>c, <2>1, SharedKept
  <1>F. FilesOK'
    BY <1>c, <1>v DEF FilesOK
  <1>N. CountersOK'
    BY <1>c, <1>v DEF CountersOK
  <1>C. CacheOK'
    BY <1>c, <1>v DEF CacheOK
  <1>1. Becomes(c, AfterCopy(c), job[c],
             wc[c], tx[c])
    BY <1>s, CkptBackfillDoes
  <1>u. Unmoved(c) /\ (Closing(c)' => Closing(c))
    BY <1>1, <1>l DEF Becomes, Unmoved, Closing, Local, ShapeOf
  <1>n. LengthOf(c)'
    BY <1>0, <1>l, <1>c, <1>v, <1>g, <1>1, LogLengths DEF Becomes, LengthOf,
       Reached, Local, ShapeOf, ControlOf, HdrOK, HdrPcs, Recovery, MarkPcs,
       RestartPcs, FramePcs, CopyPcs, ScanPcs, CkptPcs, Marks, AfterCopy
  <1>m. LengthsOK'
    BY <1>u, <1>n, <1>v, <1>h, LogLengths, LengthsKept DEF LiveHdr
  <1>z. pc[c] = "closed" => \A d \in Others(c) : ~Closing(d)
    BY <1>0
  <1> QED BY <1>k, <1>S, <1>F, <1>N, <1>C, <1>u, <1>m, <1>z, StepParts

LEMMA CkptFailsTypes ==
  ASSUME TInv, NEW c \in Conns, CkptFails(c)
  PROVE  Types' /\ ClosingsOK' /\ LengthsOK'
  <1> USE DEF TInv
  <1>0. pc[c] \in {"synclog", "copy", "syncdb"}
    BY DEF CkptFails, Step, At
  <1>s. Shaped
    BY DEF LInv, Shaped, Local
  <1>l. Local(c)
    BY DEF LInv
  <1>c. Conn(c) /\ SharedOK /\ FilesOK /\ CountersOK /\ CacheOK
    BY DEF Types
  <1>g. LengthOf(c) /\ LiveHdr.mxFrame <= Len(wal.frames)
    BY DEF LengthsOK
  <1>v. UNCHANGED <<db, dbDisk, wal, walDisk, shm, cache, writes, salts, setting>>
    BY DEF CkptFails, files, private, rest
  <1>k. Conn(c)'
    BY <1>c, CkptFailsConn
  <1>S. SharedOK'
    BY <1>c, <1>v DEF SharedOK, LiveHdr
  <1>F. FilesOK'
    BY <1>c, <1>v DEF FilesOK
  <1>N. CountersOK'
    BY <1>c, <1>v DEF CountersOK
  <1>C. CacheOK'
    BY <1>c, <1>v DEF CacheOK
  <1>1. Becomes(c, "ckptend", [job[c] EXCEPT !.ok = FALSE],
             wc[c], tx[c])
    BY <1>s, CkptFailsDoes
  <1>u. Unmoved(c) /\ (Closing(c)' => Closing(c))
    BY <1>1, <1>l DEF Becomes, Unmoved, Closing, Local, ShapeOf
  <1>n. LengthOf(c)'
    BY <1>0, <1>l, <1>c, <1>v, <1>g, <1>1, LogLengths DEF Becomes, LengthOf,
       Reached, Local, ShapeOf, ControlOf, HdrOK, HdrPcs, Recovery, MarkPcs,
       RestartPcs, FramePcs, CopyPcs, ScanPcs, CkptPcs, Marks
  <1>m. LengthsOK'
    BY <1>u, <1>n, <1>v, LogLengths, LengthsKept DEF LiveHdr
  <1>z. pc[c] = "closed" => \A d \in Others(c) : ~Closing(d)
    BY <1>0
  <1> QED BY <1>k, <1>S, <1>F, <1>N, <1>C, <1>u, <1>m, <1>z, StepParts

LEMMA CkptDoneTypes ==
  ASSUME TInv, NEW c \in Conns, CkptDone(c)
  PROVE  Types' /\ ClosingsOK' /\ LengthsOK'
  <1> USE DEF TInv
  <1>0. pc[c] = "ckptdone"
    BY DEF CkptDone, Step, At
  <1>s. Shaped
    BY DEF LInv, Shaped, Local
  <1>l. Local(c)
    BY DEF LInv
  <1>c. Conn(c) /\ SharedOK /\ FilesOK /\ CountersOK /\ CacheOK
    BY DEF Types
  <1>g. LengthOf(c) /\ LiveHdr.mxFrame <= Len(wal.frames)
    BY DEF LengthsOK
  <1>v. UNCHANGED <<db, dbDisk, wal, walDisk, shm, cache, writes, salts, setting>>
    BY DEF CkptDone, files, private, rest
  <1>k. Conn(c)'
    BY <1>c, CkptDoneConn
  <1>S. SharedOK'
    BY <1>c, <1>v DEF SharedOK, LiveHdr
  <1>F. FilesOK'
    BY <1>c, <1>v DEF FilesOK
  <1>N. CountersOK'
    BY <1>c, <1>v DEF CountersOK
  <1>C. CacheOK'
    BY <1>c, <1>v DEF CacheOK
  <1>1. Becomes(c, IF shm.nBackfill >= wc[c].hdr.mxFrame THEN "restart" ELSE "ckptend", job[c],
             wc[c], tx[c])
    BY <1>s, CkptDoneDoes
  <1>u. Unmoved(c) /\ (Closing(c)' => Closing(c))
    BY <1>1, <1>l DEF Becomes, Unmoved, Closing, Local, ShapeOf
  <1>n. LengthOf(c)'
    BY <1>0, <1>l, <1>c, <1>v, <1>g, <1>1, LogLengths DEF Becomes, LengthOf,
       Reached, Local, ShapeOf, ControlOf, HdrOK, HdrPcs, Recovery, MarkPcs,
       RestartPcs, FramePcs, CopyPcs, ScanPcs, CkptPcs, Marks
  <1>m. LengthsOK'
    BY <1>u, <1>n, <1>v, LogLengths, LengthsKept DEF LiveHdr
  <1>z. pc[c] = "closed" => \A d \in Others(c) : ~Closing(d)
    BY <1>0
  <1> QED BY <1>k, <1>S, <1>F, <1>N, <1>C, <1>u, <1>m, <1>z, StepParts

LEMMA TruncateLogTypes ==
  ASSUME TInv, NEW c \in Conns, TruncateLog(c)
  PROVE  Types' /\ ClosingsOK' /\ LengthsOK'
  <1> USE DEF TInv
  <1>0. pc[c] = "trunclog"
    BY DEF TruncateLog, Step, At
  <1>s. Shaped
    BY DEF LInv, Shaped, Local
  <1>l. Local(c)
    BY DEF LInv
  <1>c. Conn(c) /\ SharedOK /\ FilesOK /\ CountersOK /\ CacheOK
    BY DEF Types
  <1>g. LengthOf(c) /\ LiveHdr.mxFrame <= Len(wal.frames)
    BY DEF LengthsOK
  <1>v. UNCHANGED <<db, dbDisk, walDisk, shm, cache, writes, salts, setting>>
    BY DEF TruncateLog, files, private, rest
  <1>k. Conn(c)'
    BY <1>c, TruncateLogConn
  <1>a. wal' = EmptyLog /\ LogOK(EmptyLog) /\ Len(EmptyLog.frames) = 0
    BY EmptyOK DEF TruncateLog
  <1>S. SharedOK'
    BY <1>c, <1>v DEF SharedOK, LiveHdr
  <1>F. FilesOK'
    BY <1>c, <1>v, <1>a DEF FilesOK
  <1>N. CountersOK'
    BY <1>c, <1>v DEF CountersOK
  <1>C. CacheOK'
    BY <1>c, <1>v DEF CacheOK
  <1>1. Becomes(c, "ckptend", job[c],
             wc[c], tx[c])
    BY <1>s, TruncateLogDoes
  <1>u. Unmoved(c) /\ (Closing(c)' => Closing(c))
    BY <1>1, <1>l DEF Becomes, Unmoved, Closing, Local, ShapeOf
  <1>n. LengthOf(c)'
    <2>1. pc'[c] = "ckptend" /\ ~tx'[c].on
      BY <1>0, <1>1, <1>l DEF Becomes, Local, ControlOf, MarkPcs, RestartPcs, FramePcs
    <2> QED BY <2>1 DEF LengthOf
  <1>m. LengthsOK'
    <2>1. LiveHdr'.mxFrame <= Len(wal'.frames)
      BY <1>0, <1>g, <1>v, <1>a DEF LengthOf, LiveHdr
    <2>2. Excl(c, WAL_WRITE_LOCK)
      BY <1>0, <1>l DEF Excl, ExclOf, Local, ControlOf, MarkPcs, RestartPcs, FramePcs, CkptPcs
    <2> QED BY <1>u, <1>n, <2>1, <2>2, LengthsMoved
  <1>z. pc[c] = "closed" => \A d \in Others(c) : ~Closing(d)
    BY <1>0
  <1> QED BY <1>k, <1>S, <1>F, <1>N, <1>C, <1>u, <1>m, <1>z, StepParts

LEMMA CkptEndTypes ==
  ASSUME TInv, NEW c \in Conns, CkptEnd(c)
  PROVE  Types' /\ ClosingsOK' /\ LengthsOK'
  <1> USE DEF TInv
  <1>0. pc[c] = "ckptend"
    BY DEF CkptEnd, Step, At
  <1>s. Shaped
    BY DEF LInv, Shaped, Local
  <1>l. Local(c)
    BY DEF LInv
  <1>c. Conn(c) /\ SharedOK /\ FilesOK /\ CountersOK /\ CacheOK
    BY DEF Types
  <1>g. LengthOf(c) /\ LiveHdr.mxFrame <= Len(wal.frames)
    BY DEF LengthsOK
  <1>v. UNCHANGED <<db, dbDisk, wal, walDisk, shm, cache, writes, salts, setting>>
    BY DEF CkptEnd, files, private, rest
  <1>k. Conn(c)'
    BY <1>c, CkptEndConn
  <1>S. SharedOK'
    BY <1>c, <1>v DEF SharedOK, LiveHdr
  <1>F. FilesOK'
    BY <1>c, <1>v DEF FilesOK
  <1>N. CountersOK'
    BY <1>c, <1>v DEF CountersOK
  <1>C. CacheOK'
    BY <1>c, <1>v DEF CacheOK
  <1>1. CASE Closing(c)
    <2>1. Becomes(c, "closewal", job[c],
               IF job[c].changed THEN [wc[c] EXCEPT !.hdr = ZeroHdr] ELSE wc[c], tx[c])
      BY <1>s, CkptEndDoes, <1>1
    <2>u. Unmoved(c) /\ (Closing(c)' => Closing(c))
      BY <2>1, <1>l DEF Becomes, Unmoved, Closing, Local, ShapeOf
    <2>n. LengthOf(c)'
      BY <1>0, <1>l, <1>c, <1>v, <1>g, <1>1, <2>1, LogLengths DEF Becomes,
         LengthOf, Reached, Local, ShapeOf, ControlOf, HdrOK, HdrPcs,
         Recovery, MarkPcs, RestartPcs, FramePcs, CopyPcs, ScanPcs, CkptPcs,
         Marks, Closing, OwnWrite
    <2>m. LengthsOK'
      BY <2>u, <2>n, <1>v, LogLengths, LengthsKept DEF LiveHdr
    <2>z. pc[c] = "closed" => \A d \in Others(c) : ~Closing(d)
      BY <1>0
    <2> QED BY <1>k, <1>S, <1>F, <1>N, <1>C, <2>u, <2>m, <2>z, StepParts
  <1>2. CASE ~Closing(c)
    <2>1. Becomes(c, "idle", NoJob,
               IF job[c].changed THEN [wc[c] EXCEPT !.hdr = ZeroHdr] ELSE wc[c], tx[c])
      BY <1>s, CkptEndDoes, <1>2
    <2>u. Unmoved(c) /\ (Closing(c)' => Closing(c))
      BY <2>1, <1>l DEF Becomes, Unmoved, Closing, Local, ShapeOf, NoJob
    <2>n. LengthOf(c)'
      BY <1>0, <1>l, <1>c, <1>v, <1>g, <1>2, <2>1, LogLengths DEF Becomes,
         LengthOf, Reached, Local, ShapeOf, ControlOf, HdrOK, NoJob, HdrPcs,
         Recovery, MarkPcs, RestartPcs, FramePcs, CopyPcs, ScanPcs, CkptPcs,
         Marks, Closing, OwnWrite
    <2>m. LengthsOK'
      BY <2>u, <2>n, <1>v, LogLengths, LengthsKept DEF LiveHdr
    <2>z. pc[c] = "closed" => \A d \in Others(c) : ~Closing(d)
      BY <1>0
    <2> QED BY <1>k, <1>S, <1>F, <1>N, <1>C, <2>u, <2>m, <2>z, StepParts
  <1> QED BY <1>1, <1>2

LEMMA OpenTypes ==
  ASSUME TInv, NEW c \in Conns, Open(c)
  PROVE  Types' /\ ClosingsOK' /\ LengthsOK'
  <1> USE DEF TInv
  <1>0. pc[c] = "closed"
    BY DEF Open, Step, At
  <1>s. Shaped
    BY DEF LInv, Shaped, Local
  <1>l. Local(c)
    BY DEF LInv
  <1>c. Conn(c) /\ SharedOK /\ FilesOK /\ CountersOK /\ CacheOK
    BY DEF Types
  <1>g. LengthOf(c) /\ LiveHdr.mxFrame <= Len(wal.frames)
    BY DEF LengthsOK
  <1>v. UNCHANGED <<db, dbDisk, wal, walDisk, shm, cache, writes, salts, setting>>
    BY DEF Open, files, private, rest
  <1>k. Conn(c)'
    BY <1>c, OpenConn
  <1>S. SharedOK'
    BY <1>c, <1>v DEF SharedOK, LiveHdr
  <1>F. FilesOK'
    BY <1>c, <1>v DEF FilesOK
  <1>N. CountersOK'
    BY <1>c, <1>v DEF CountersOK
  <1>C. CacheOK'
    BY <1>c, <1>v DEF CacheOK
  <1>1. Becomes(c, "idle", job[c],
             wc[c], tx[c])
    BY <1>s, OpenDoes
  <1>u. Unmoved(c) /\ (Closing(c)' => Closing(c))
    BY <1>1, <1>l DEF Becomes, Unmoved, Closing, Local, ShapeOf
  <1>n. LengthOf(c)'
    BY <1>0, <1>l, <1>c, <1>v, <1>g, <1>1, LogLengths DEF Becomes, LengthOf,
       Reached, Local, ShapeOf, ControlOf, HdrOK, HdrPcs, Recovery, MarkPcs,
       RestartPcs, FramePcs, CopyPcs, ScanPcs, CkptPcs, Marks
  <1>m. LengthsOK'
    BY <1>u, <1>n, <1>v, LogLengths, LengthsKept DEF LiveHdr
  <1>z. pc[c] = "closed" => \A d \in Others(c) : ~Closing(d)
    BY DEF Open
  <1> QED BY <1>k, <1>S, <1>F, <1>N, <1>C, <1>u, <1>m, <1>z, StepParts

-----------------------------------------------------------------------------
(* Connections that close or die, one or all.                              *)

LEMMA GoneConn ==
  ASSUME TInv, NEW S \in SUBSET Conns, Gone(S)
  PROVE  (\A d \in Conns : Conn(d)') /\ CacheOK' /\ SharedOK' /\ CountersOK' /\ ClosingsOK'
  <1> USE DEF Gone, TInv
  <1>1. \A d \in Conns : Conn(d)'
    <2>1. ASSUME NEW d \in Conns \ S PROVE Conn(d)'
      <3>1. Conn(d)
        BY DEF Types
      <3> QED BY <3>1 DEF Conn
    <2>2. ASSUME NEW d \in S PROVE Conn(d)'
      <3>1. pc'[d] = "closed" /\ job'[d] = NoJob /\ wc'[d] = NewWal /\ tx'[d] = NoTx
        OBVIOUS
      <3>2. ConnOf("closed", NoJob, NoTx, NewWal)
        <4>1. /\ NoJob.h1 = ZeroHdr /\ NoJob.mark = 0 /\ NoJob.safe = 0 /\ NoJob.list = <<>>
              /\ NoJob.new = <<>> /\ NoJob.kind = "none"
          BY DEF NoJob
        <4>2. NewWal.hdr = ZeroHdr /\ NewWal.iReCksum = 0 /\ NewWal.minFrame = 0
          BY DEF NewWal
        <4>3. NoTx.on = FALSE /\ DOMAIN NoTx.dirty \subseteq Pages
          BY DEF NoTx
        <4> QED BY <4>1, <4>2, <4>3, Zeros DEF ConnOf, ScanPcs, CopyPcs
      <3> QED BY <3>1, <3>2 DEF Conn
    <2> QED BY <2>1, <2>2
  <1>2. CacheOK'
    <2>1. DOMAIN cache' = Conns
      OBVIOUS
    <2>2. ASSUME NEW d \in Conns PROVE DOMAIN cache'[d] \subseteq Pages
      <3>1. CASE d \in S
        BY <3>1
      <3>2. CASE d \notin S
        BY <3>2 DEF Types, CacheOK
      <3> QED BY <3>1, <3>2
    <2> QED BY <2>1, <2>2 DEF CacheOK
  <1>3. SharedOK'
    <2>1. CASE shm' = shm
      BY <2>1 DEF Types, SharedOK, LiveHdr
    <2>2. CASE shm' = ZeroShm
      <3>1. /\ DOMAIN ZeroShm = {"hdr", "nBackfill", "aReadMark", "aPgno"}
            /\ DOMAIN ZeroShm.hdr = {1, 2} /\ ZeroShm.hdr[1] = ZeroHdr /\ ZeroShm.nBackfill = 0
            /\ ZeroShm.aReadMark \in [0 .. WAL_NREADER - 1 -> Nat]
        BY DEF ZeroShm
      <3> QED BY <2>2, <3>1, Zeros DEF SharedOK, LiveHdr
    <2> QED BY <2>1, <2>2
  <1>4. CountersOK'
    BY DEF Types, CountersOK
  <1>5. ClosingsOK'
    <2> SUFFICES ASSUME NEW d \in Conns, Closing(d)', NEW e \in Others(d) PROVE pc'[e] = "closed"
      BY DEF ClosingsOK, At
    <2>1. d \notin S
      BY DEF Closing, NoJob
    <2>2. Closing(d)
      BY <2>1 DEF Closing
    <2>3. pc[e] = "closed" /\ e \in Conns
      BY <2>2 DEF ClosingsOK, At, Others
    <2> QED BY <2>3
  <1> QED BY <1>1, <1>2, <1>3, <1>4, <1>5

(* The log is no shorter, or nobody is left who counts its frames.         *)
LEMMA GoneTypes ==
  ASSUME TInv, NEW S \in SUBSET Conns, Gone(S), FilesOK',
         (\A d \in Conns \ S : At(d, "closed")) \/ Len(wal.frames) <= Len(wal'.frames)
  PROVE  Types' /\ ClosingsOK' /\ LengthsOK'
  <1>1. /\ \A d \in Conns : Conn(d)'
        /\ CacheOK' /\ SharedOK' /\ CountersOK' /\ ClosingsOK'
    BY GoneConn
  <1>2. Len(wal'.frames) \in Nat
    BY DEF FilesOK, LogOK, IsSeq
  <1>3. \A d \in S : LengthOf(d)'
    BY DEF Gone, LengthOf, NoTx
  <1>4. CASE \A d \in Conns \ S : At(d, "closed")
    <2>1. LiveHdr'.mxFrame <= Len(wal'.frames)
      BY <1>2, <1>4 DEF Gone, LiveHdr, ZeroShm, ZeroHdr
    <2>2. \A d \in Conns \ S : LengthOf(d)'
      <3> TAKE d \in Conns \ S
      <3>1. pc'[d] = "closed" /\ tx'[d] = tx[d]
        BY <1>4 DEF Gone, At
      <3>2. Local(d) /\ pc[d] = "closed"
        BY <1>4 DEF TInv, LInv, At
      <3>3. ~tx[d].on
        BY <3>2 DEF Local, ControlOf
      <3> QED BY <3>1, <3>3 DEF LengthOf
    <2> QED BY <1>1, <1>3, <2>1, <2>2 DEF Types, LengthsOK
  <1>5. CASE /\ ~\A d \in Conns \ S : At(d, "closed")
             /\ Len(wal.frames) <= Len(wal'.frames)
    <2>1. shm' = shm /\ LiveHdr' = LiveHdr
      BY <1>5 DEF Gone, LiveHdr
    <2>2. LiveHdr'.mxFrame <= Len(wal'.frames)
      BY <1>2, <1>5, <2>1, LogLengths DEF TInv, LengthsOK
    <2>3. \A d \in Conns \ S : LengthOf(d)'
      <3> TAKE d \in Conns \ S
      <3>1. pc'[d] = pc[d] /\ tx'[d] = tx[d] /\ job'[d] = job[d] /\ wc'[d] = wc[d]
        BY DEF Gone
      <3>2. LengthOf(d) /\ Reached(d) \in Nat /\ Reached(d)' = Reached(d)
        BY <3>1, LogLengths DEF TInv, LengthsOK, Reached
      <3> QED BY <1>2, <1>5, <2>1, <3>1, <3>2, LogLengths DEF LengthOf, TInv
    <2> QED BY <1>1, <1>3, <2>2, <2>3 DEF Types, LengthsOK
  <1> QED BY <1>4, <1>5

LEMMA CloseTypes ==
  ASSUME TInv, NEW c \in Conns, Close(c)
  PROVE  Types' /\ ClosingsOK' /\ LengthsOK'
  <1>1. CASE \A d \in Others(c) : At(d, "closed")
    BY <1>1, StartCkptTypes DEF Close, Modes
  <1>2. CASE ~\A d \in Others(c) : At(d, "closed")
    <2>1. Gone({c}) /\ UNCHANGED files
      BY <1>2 DEF Close
    <2>2. FilesOK' /\ Len(wal.frames) <= Len(wal'.frames)
      BY <2>1, LogLengths DEF TInv, Types, FilesOK, files
    <2> QED BY <2>1, <2>2, GoneTypes
  <1> QED BY <1>1, <1>2

LEMMA CloseWalTypes ==
  ASSUME TInv, NEW c \in Conns, CloseWal(c)
  PROVE  Types' /\ ClosingsOK' /\ LengthsOK'
  <1>1. Closing(c)
    BY DEF TInv, LInv, Local, ControlOf, CloseWal, At, Closing
  <1>2. \A d \in Conns \ {c} : At(d, "closed")
    BY <1>1 DEF TInv, ClosingsOK, Others
  <1>3. FilesOK'
    BY EmptyOK DEF TInv, Types, FilesOK, CloseWal
  <1> QED BY <1>2, <1>3, GoneTypes DEF CloseWal

LEMMA DeathTypes ==
  ASSUME TInv, NEW c \in Conns, Death(c)
  PROVE  Types' /\ ClosingsOK' /\ LengthsOK'
  <1> USE DEF TInv
  <1>c. Conn(c) /\ FilesOK /\ LengthOf(c)
    BY DEF Types, LengthsOK
  <1>a. LogOK(wal') /\ Len(wal.frames) <= Len(wal'.frames)
    <2>1. CASE wal' = wal
      BY <1>c, <2>1, LogLengths DEF FilesOK
    <2>2. ASSUME InFrames(c), NEW k \in 1 .. Len(job[c].list) - 1,
                 wal' = [wal EXCEPT !.frames = Written(c)[k].frames]
          PROVE  LogOK(wal') /\ Len(wal.frames) <= Len(wal'.frames)
      <3>0. Local(c) /\ pc[c] \in {"log", "frames"}
        BY <2>2 DEF LInv, InFrames, At
      <3>1. tx[c].on
        BY <3>0 DEF Local, ControlOf, HdrPcs, Recovery, MarkPcs, RestartPcs, FramePcs, CopyPcs, ScanPcs, CkptPcs
      <3>2. wc[c].hdr.mxFrame <= Len(wal.frames)
        BY <1>c, <3>1, LogLengths DEF LengthOf
      <3>3. k \in 0 .. Len(job[c].list)
        BY <1>c DEF Conn, ConnOf
      <3>4. Grown(c, Written(c)[k])
        BY <1>c, <3>1, <3>2, <3>3, WrittenGrows
      <3> QED BY <1>c, <2>2, <3>4 DEF FilesOK, LogOK, Grown, IsSeq
    <2> QED BY <2>1, <2>2 DEF Death
  <1>b. FilesOK'
    BY <1>c, <1>a DEF FilesOK, Death
  <1> QED BY <1>a, <1>b, GoneTypes DEF Death

-----------------------------------------------------------------------------
(* What a power failure leaves of a file.                                  *)

Remains(new, old, junk) ==
    {new[n] : n \in 1 .. Len(new)} \cup {old[n] : n \in 1 .. Len(old)} \cup {junk}

Layers(new, old, junk, N, upTo) ==
    upTo = [n \in 0 .. N |->
               IF n = 0 THEN {<<>>}
               ELSE Longer(upTo[n - 1], Leftovers(new, old, junk, n))]

LEMMA LayersExist ==
  ASSUME NEW new, NEW old, NEW junk, NEW N \in Nat
  PROVE  \E upTo : Layers(new, old, junk, N, upTo)
  <1> DEFINE Next1(S, n) == Longer(S, Leftovers(new, old, junk, n))
             T == {m \in 0 .. N : ~\E at : Layers(new, old, junk, m, at)}
  <1>1. SUFFICES ASSUME T # {} PROVE FALSE
    OBVIOUS
  <1>0. T \subseteq 0 .. N /\ T \subseteq Nat
    OBVIOUS
  <1>2. PICK m \in T : \A y \in T : m <= y
    <2> HIDE DEF T
    <2> QED BY <1>0, <1>1, LeastOf
  <1>3. CASE m = 0
    <2> DEFINE at == [k \in 0 .. 0 |-> {<<>>}]
    <2>1. Layers(new, old, junk, 0, at)
      BY DEF Layers
    <2> HIDE DEF at
    <2> QED BY <1>3, <2>1
  <1>4. CASE m # 0
    <2>1. m - 1 \in 0 .. N /\ m - 1 \notin T
      <3> HIDE DEF T
      <3> QED BY <1>0, <1>2, <1>4
    <2>2. PICK g : Layers(new, old, junk, m - 1, g)
      BY <2>1
    <2> DEFINE h == [k \in 0 .. m |-> IF k = m THEN Next1(g[m - 1], m) ELSE g[k]]
    <2>3. ASSUME NEW k \in 0 .. m
          PROVE  h[k] = IF k = 0 THEN {<<>>} ELSE Next1(h[k - 1], k)
      <3> HIDE DEF Next1
      <3>1. CASE k = m
        BY <1>2, <1>4, <3>1
      <3>2. CASE k # m
        <4>1. k \in 0 .. m - 1 /\ h[k] = g[k] /\ (k # 0 => h[k - 1] = g[k - 1])
          BY <1>2, <3>2
        <4>2. g[k] = IF k = 0 THEN {<<>>} ELSE Next1(g[k - 1], k)
          BY <2>2, <4>1 DEF Layers, Next1
        <4> QED BY <4>1, <4>2
      <3> QED BY <3>1, <3>2
    <2>4. h = [k \in 0 .. m |-> h[k]]
      OBVIOUS
    <2>5. Layers(new, old, junk, m, h)
      <3> HIDE DEF h
      <3> QED BY <2>3, <2>4 DEF Layers
    <2> HIDE DEF h
    <2> QED BY <1>2, <2>5
  <1> QED BY <1>3, <1>4

LEMMA LayersAre ==
  ASSUME NEW new, NEW old, NEW junk, IsSeq(new), IsSeq(old), NEW N \in Nat,
         NEW upTo, Layers(new, old, junk, N, upTo)
  PROVE  \A n \in 0 .. N : \A s \in upTo[n] : s \in Seq(Remains(new, old, junk)) /\ Len(s) = n
  <1> DEFINE R == Remains(new, old, junk)
             Good(n) == \A s \in upTo[n] : s \in Seq(R) /\ Len(s) = n
             T == {n \in 0 .. N : ~Good(n)}
  <1>1. SUFFICES ASSUME T # {} PROVE FALSE
    OBVIOUS
  <1>0. T \subseteq 0 .. N /\ T \subseteq Nat
    OBVIOUS
  <1>2. PICK m \in T : \A y \in T : m <= y
    <2> HIDE DEF T
    <2> QED BY <1>0, <1>1, LeastOf
  <1>3. ~Good(m) /\ m \in 0 .. N
    BY <1>2
  <1>4. m # 0
    <2>1. upTo[0] = {<<>>}
      BY DEF Layers
    <2>2. <<>> \in Seq(R) /\ Len(<<>>) = 0
      <3> HIDE DEF R
      <3> QED OBVIOUS
    <2>3. Good(0)
      <3> HIDE DEF R
      <3> QED BY <2>1, <2>2
    <2> QED BY <1>3, <2>3
  <1>5. Good(m - 1) /\ m \in 1 .. N /\ m - 1 \in 0 .. N
    <2>1. m - 1 \in 0 .. N /\ m - 1 \notin T /\ m \in 1 .. N
      <3> HIDE DEF T
      <3> QED BY <1>0, <1>2, <1>4
    <2> QED BY <2>1
  <1>6. upTo[m] = Longer(upTo[m - 1], Leftovers(new, old, junk, m))
    <2>1. m \in 0 .. N /\ m # 0
      BY <1>3, <1>4
    <2> HIDE DEF R, Good, T
    <2> QED BY <2>1 DEF Layers
  <1>7. Leftovers(new, old, junk, m) \subseteq R
    <2>1. \A t \in {new, old} : m <= Len(t) => t[m] \in R
      BY <1>5 DEF Remains, IsSeq
    <2>2. junk \in R
      BY DEF Remains
    <2> HIDE DEF R
    <2> QED BY <2>1, <2>2 DEF Leftovers
  <1>8. ASSUME NEW s \in upTo[m - 1], NEW x \in Leftovers(new, old, junk, m)
        PROVE  Append(s, x) \in Seq(R) /\ Len(Append(s, x)) = m
    <2> HIDE DEF R
    <2>1. s \in Seq(R) /\ Len(s) = m - 1 /\ x \in R
      BY <1>5, <1>7
    <2> QED BY <1>5, <2>1, AppendProperties
  <1>9. \A t \in Longer(upTo[m - 1], Leftovers(new, old, junk, m)) : t \in Seq(R) /\ Len(t) = m
    <2> HIDE DEF R
    <2> QED BY <1>8 DEF Longer
  <1> HIDE DEF R
  <1> QED BY <1>3, <1>6, <1>9

LEMMA WrecksAre ==
  ASSUME NEW new, NEW old, NEW junk, IsSeq(new), IsSeq(old), NEW s \in Wrecks(new, old, junk)
  PROVE  /\ IsSeq(s) /\ Len(s) \in {Len(new), Len(old)}
         /\ \A n \in 1 .. Len(s) : s[n] \in Remains(new, old, junk)
  <1> DEFINE N == Largest({Len(new), Len(old)})
             upTo == CHOOSE upTo : upTo = [n \in 0 .. N |->
                         IF n = 0 THEN {<<>>}
                         ELSE Longer(upTo[n - 1], Leftovers(new, old, junk, n))]
  <1>1. N \in Nat /\ Len(new) \in 0 .. N /\ Len(old) \in 0 .. N
    <2>1. Len(new) \in Nat /\ Len(old) \in Nat
      BY DEF IsSeq
    <2>2. /\ {Len(new), Len(old)} \subseteq 0 .. Len(new) + Len(old)
          /\ Len(new) + Len(old) \in Nat /\ {Len(new), Len(old)} # {}
      BY <2>1
    <2>3. N \in {Len(new), Len(old)} /\ \A m \in {Len(new), Len(old)} : m <= N
      BY <2>2, LargestOf
    <2> HIDE DEF N
    <2> QED BY <2>1, <2>3
  <1>2. Layers(new, old, junk, N, upTo)
    <2>1. \E f : f = [n \in 0 .. N |->
                         IF n = 0 THEN {<<>>}
                         ELSE Longer(f[n - 1], Leftovers(new, old, junk, n))]
      <3>1. \E f : Layers(new, old, junk, N, f)
        <4> HIDE DEF N
        <4> QED BY <1>1, LayersExist
      <3> HIDE DEF N
      <3> QED BY <3>1, Zenon DEF Layers
    <2>2. upTo = [n \in 0 .. N |->
                     IF n = 0 THEN {<<>>}
                     ELSE Longer(upTo[n - 1], Leftovers(new, old, junk, n))]
      BY <2>1, ZenonT(60)
    <2> HIDE DEF N, upTo
    <2> QED BY <2>2, Zenon DEF Layers
  <1>3. s \in upTo[Len(new)] \cup upTo[Len(old)]
    BY DEF Wrecks
  <1>4. s \in Seq(Remains(new, old, junk)) /\ Len(s) \in {Len(new), Len(old)}
    <2> HIDE DEF N, upTo
    <2> QED BY <1>1, <1>2, <1>3, LayersAre
  <1>5. IsSeq(s)
    BY <1>4, SeqIsSeq
  <1> QED BY <1>4, <1>5, ElementOfSeq

LEMMA PowerFailureTypes ==
  ASSUME TInv, PowerFailure
  PROVE  Types' /\ ClosingsOK' /\ LengthsOK'
  <1>c. FilesOK
    BY DEF TInv, Types
  <1>1. DbOK(db')
    <2>1. CASE db' = db
      BY <1>c, <2>1 DEF FilesOK
    <2>2. CASE db' \in Wrecks(db, dbDisk, Torn)
      BY <1>c, <2>2, WrecksAre DEF FilesOK, DbOK
    <2> QED BY <2>1, <2>2 DEF PowerFailure, DbWrecks
  <1>2. LogOK(wal')
    <2>1. CASE wal' = wal
      BY <1>c, <2>1 DEF FilesOK
    <2>2. ASSUME NEW h \in {<<wal.salt, wal.nCkpt>>, <<walDisk.salt, walDisk.nCkpt>>},
                 NEW f \in Wrecks(wal.frames, walDisk.frames, Junk),
                 wal' = [salt |-> h[1], nCkpt |-> h[2], frames |-> f]
          PROVE  LogOK(wal')
      <3>1. /\ IsSeq(f)
            /\ \A n \in 1 .. Len(f) : f[n] \in Remains(wal.frames, walDisk.frames, Junk)
        BY <1>c, WrecksAre DEF FilesOK, LogOK
      <3>2. \A x \in Remains(wal.frames, walDisk.frames, Junk) : FrameOK(x)
        <4>1. FrameOK(Junk)
          BY WalAssumption DEF FrameOK, Junk, Unsummed, Sizes
        <4> QED BY <1>c, <4>1 DEF FilesOK, LogOK, Remains
      <3>3. h[1] \in Nat \cup {NoSalt}
        BY <1>c DEF FilesOK, LogOK
      <3> QED BY <2>2, <3>1, <3>2, <3>3 DEF LogOK
    <2> QED BY <2>1, <2>2 DEF PowerFailure, WalWrecks
  <1>3. FilesOK'
    BY <1>1, <1>2 DEF PowerFailure, FilesOK
  <1> QED BY <1>3, GoneTypes DEF PowerFailure

-----------------------------------------------------------------------------
LEMMA InitTypes == Init => TInv
  <1> SUFFICES ASSUME Init PROVE TInv
    OBVIOUS
  <1>1. LInv
    BY InitLocks
  <1>2. \A d \in Conns : /\ pc[d] \in {"idle", "closed"} /\ job[d] = NoJob
                         /\ wc[d] = NewWal /\ tx[d] = NoTx
    BY DEF Init
  <1>3. SharedOK
    <2>1. /\ DOMAIN ZeroShm = {"hdr", "nBackfill", "aReadMark", "aPgno"}
          /\ DOMAIN ZeroShm.hdr = {1, 2} /\ ZeroShm.hdr[1] = ZeroHdr /\ ZeroShm.nBackfill = 0
          /\ ZeroShm.aReadMark \in [0 .. WAL_NREADER - 1 -> Nat]
      BY DEF ZeroShm
    <2> QED BY <2>1, Zeros DEF Init, SharedOK, LiveHdr
  <1>4. FilesOK
    <2>1. InitSize \in Pages
      BY WalAssumption DEF Pages
    <2>2. DbOK(db)
      <3> DEFINE f == [p \in 1 .. InitSize |-> 0]
      <3>1. DbOK([p \in 1 .. InitSize |-> f[p]])
        <4> HIDE DEF f
        <4> QED BY <2>1, DbSized
      <3>2. db = [p \in 1 .. InitSize |-> f[p]]
        BY DEF Init
      <3> QED BY <3>1, <3>2
    <2> QED BY <2>2, EmptyOK DEF Init, FilesOK
  <1>5. CountersOK
    BY WalAssumption DEF Init, CountersOK
  <1>6. CacheOK
    BY DEF Init, CacheOK
  <1>7. \A d \in Conns : Conn(d)
    <2>1. \A p \in {"idle", "closed"} : ConnOf(p, NoJob, NoTx, NewWal)
      <4>1. /\ NoJob.h1 = ZeroHdr /\ NoJob.mark = 0 /\ NoJob.safe = 0 /\ NoJob.list = <<>>
            /\ NoJob.new = <<>> /\ NoJob.kind = "none"
        BY DEF NoJob
      <4>2. NewWal.hdr = ZeroHdr /\ NewWal.iReCksum = 0 /\ NewWal.minFrame = 0
        BY DEF NewWal
      <4>3. NoTx.on = FALSE /\ DOMAIN NoTx.dirty \subseteq Pages
        BY DEF NoTx
      <4> QED BY <4>1, <4>2, <4>3, Zeros DEF ConnOf, ScanPcs, CopyPcs
    <2> QED BY <1>2, <2>1 DEF Conn
  <1>8. ClosingsOK
    BY <1>2 DEF ClosingsOK, Closing, NoJob
  <1>9. LengthsOK
    <2>1. LiveHdr.mxFrame = 0 /\ Len(wal.frames) = 0
      BY EmptyOK DEF Init, LiveHdr, ZeroShm, ZeroHdr
    <2>2. \A d \in Conns : LengthOf(d)
      BY <1>2 DEF LengthOf, NoTx
    <2> QED BY <2>1, <2>2 DEF LengthsOK
  <1> QED BY <1>1, <1>3, <1>4, <1>5, <1>6, <1>7, <1>8, <1>9 DEF TInv, Types

LEMMA StutterTypes == ASSUME TInv, UNCHANGED vars PROVE Types' /\ ClosingsOK' /\ LengthsOK'
  <1>1. /\ pc' = pc /\ job' = job /\ tx' = tx /\ wc' = wc /\ lock' = lock /\ setting' = setting
        /\ db' = db /\ dbDisk' = dbDisk /\ wal' = wal /\ walDisk' = walDisk /\ shm' = shm
        /\ cache' = cache /\ writes' = writes /\ salts' = salts
    BY DEF vars, private, files
  <1>2. \A d \in Conns : Conn(d)' /\ LengthOf(d)' /\ (Closing(d)' <=> Closing(d))
    BY <1>1 DEF TInv, Types, LengthsOK, Conn, LengthOf, Reached, LiveHdr, Closing
  <1>3. SharedOK' /\ FilesOK' /\ CountersOK' /\ CacheOK'
    BY <1>1 DEF TInv, Types, SharedOK, FilesOK, CountersOK, CacheOK, LiveHdr
  <1>4. ClosingsOK'
    BY <1>1 DEF TInv, ClosingsOK, Closing, At
  <1>5. LengthsOK'
    BY <1>1, <1>2 DEF TInv, LengthsOK, LiveHdr
  <1> QED BY <1>2, <1>3, <1>4, <1>5 DEF Types

(* Every step keeps the types. *)
LEMMA StepTypes ==
  ASSUME TInv, [Next]_vars
  PROVE  TInv'
  <1> DEFINE Kept == Types' /\ ClosingsOK' /\ LengthsOK'
  <1>1. ASSUME NEW c \in Conns, BeginRead(c) \/ EndRead(c) \/ ReadStep(c) PROVE Kept
    BY <1>1, BeginReadTypes, EndReadTypes, TryHdrTypes, TryHdr2Types, BadHdrTypes,
       BadHdrBusyTypes, RecoverLockTypes, RecoverBusyTypes, RecoverLogTypes, RecoverHdr0Types,
       RecoverInfoTypes, ChooseDbTypes, Check0Types, ScanTypes, SetMarkTypes, LockMarkTypes,
       MinFrameTypes, CheckMarkTypes DEF ReadStep
  <1>2. ASSUME NEW c \in Conns,
               BeginWrite(c) \/ Shrink(c) \/ Commit(c) \/ Rollback(c) \/ WriteStep(c) \/ Fails(c)
        PROVE Kept
    BY <1>2, BeginWriteTypes, ShrinkTypes, CommitTypes, RollbackTypes, RestartTypes,
       RestartHdr0Types, RestartInfoTypes, CannotRestartTypes, WriteLogHeaderTypes,
       SyncHeaderTypes, WriteFramesTypes, SyncFramesTypes, IndexTypes, PublishTypes, FailsTypes
       DEF WriteStep
  <1>3. ASSUME NEW c \in Conns, NEW p \in Pages, Modify(c, p) \/ Spill(c, p) PROVE Kept
    BY <1>3, ModifyTypes, SpillTypes
  <1>4. ASSUME NEW c \in Conns, Checkpoint(c) PROVE Kept
    <2>1. PICK mode \in setting.modes : StartCkpt(c, mode)
      BY <1>4 DEF Checkpoint
    <2>2. mode \in Modes /\ mode # "close"
      BY <2>1, WalAssumption DEF TInv, LInv, Shapes, Modes
    <2> QED BY <2>1, <2>2, StartCkptTypes
  <1>6. ASSUME NEW c \in Conns, CkptStep(c) \/ CkptFails(c) PROVE Kept
    BY <1>6, CkptWriteTypes, CkptStartTypes, CkptReadMarkTypes, CkptLockMarkTypes,
       CkptLock0Types, CkptSyncTypes, CkptCopyTypes, CkptTruncateTypes, CkptSyncDbTypes,
       CkptBackfillTypes, CkptDoneTypes, TruncateLogTypes, CkptEndTypes, CkptFailsTypes,
       CloseWalTypes DEF CkptStep
  <1>7. ASSUME NEW c \in Conns, Open(c) \/ Close(c) \/ Death(c) PROVE Kept
    BY <1>7, OpenTypes, CloseTypes, DeathTypes
  <1>8. ASSUME PowerFailure PROVE Kept
    BY <1>8, PowerFailureTypes
  <1>9. ASSUME UNCHANGED vars PROVE Kept
    BY <1>9, StutterTypes
  <1> HIDE DEF Kept
  <1>10. Kept
    BY <1>1, <1>2, <1>3, <1>4, <1>6, <1>7, <1>8, <1>9 DEF Next
  <1>11. LInv'
    BY StepLocks, TypesNumbers DEF TInv
  <1> QED BY <1>10, <1>11 DEF Kept, TInv

(* TInv in full: where a call stands tells which locks are held, no lock   *)
(* held exclusively is shared, the files and the wal-index are well formed *)
(* whatever a crash leaves of them, and the log holds every frame that is  *)
(* counted by the shared header or by the connection that appends to it.   *)
THEOREM Invariance == Spec => []TInv
  <1>1. Init => TInv
    BY InitTypes
  <1>2. TInv /\ [Next]_vars => TInv'
    BY StepTypes
  <1> QED BY <1>1, <1>2, PTL DEF Spec

(* TypeOK of WalRecovery: struct Wal, the wal-index with the holders of    *)
(* its locks, the files and the transactions keep their types.             *)
THEOREM Typing == Spec => []TypeOK
  <1>1. TInv => TypeOK
    <2> SUFFICES ASSUME TInv PROVE TypeOK
      OBVIOUS
    <2> USE DEF TInv, Types
    <2>1. DOMAIN db \subseteq Pages /\ DOMAIN dbDisk \subseteq Pages
      <3>1. ASSUME NEW f, DbOK(f) PROVE DOMAIN f \subseteq Pages
        BY <3>1, WalAssumption DEF DbOK, IsSeq, Pages
      <3> QED BY <3>1 DEF FilesOK
    <2>2. \A s \in Slots : lock[s].shared \subseteq Conns /\ lock[s].excl \subseteq Conns
      BY Holders DEF LInv
    <2>3. \A c \in Conns : wc[c].readLock \in -1 .. WAL_NREADER - 1
      BY DEF LInv, Local, ControlOf
    <2>4. \A c \in Conns : /\ tx[c].on => tx[c].size \in Pages
                           /\ DOMAIN tx[c].dirty \subseteq Pages
                           /\ DOMAIN cache[c] \subseteq Pages
      BY DEF Conn, ConnOf, CacheOK
    <2> QED BY <2>1, <2>2, <2>3, <2>4 DEF TypeOK, SharedOK, CountersOK, LInv, Shapes
  <1> QED BY <1>1, Invariance, PTL

(* Two connections never hold a lock of the wal-index against each other:  *)
(* what is locked exclusively is neither locked nor shared by anybody else *)
(* (walLockShared, walLockExclusive and their callers).                    *)
LocksAreExclusive ==
    \A s \in Slots : \A c, d \in Conns :
        c \in lock[s].excl => d \notin lock[s].shared /\ (d \in lock[s].excl => d = c)

THEOREM LockExclusion == Spec => []LocksAreExclusive
  <1>1. TInv => LocksAreExclusive
    BY Holders DEF TInv, LInv, Exclusion, LocksAreExclusive
  <1> QED BY <1>1, Invariance, PTL
=============================================================================
