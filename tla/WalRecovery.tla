---------------------------- MODULE WalRecovery ----------------------------
(***************************************************************************)
(* What the write-ahead log must keep to, and that it implements           *)
(* SnapshotDb.                                                             *)
(***************************************************************************)
EXTENDS Wal

(* Types: the pages of the files, the transactions and the caches, the     *)
(* frame counters and the holders of the locks (struct Wal, WalCkptInfo).  *)
TypeOK ==
    /\ DOMAIN db \subseteq Pages /\ DOMAIN dbDisk \subseteq Pages
    /\ shm.nBackfill \in Nat
    /\ \A s \in Slots : lock[s].shared \subseteq Conns /\ lock[s].excl \subseteq Conns
    /\ \A c \in Conns :
          /\ wc[c].readLock \in -1 .. WAL_NREADER - 1
          /\ tx[c].on => tx[c].size \in Pages
          /\ DOMAIN tx[c].dirty \subseteq Pages
          /\ DOMAIN cache[c] \subseteq Pages
    /\ writes \in 0 .. setting.writes /\ salts \in 0 .. MaxSalts
    /\ setting \in Settings

(* A reader holds the lock of its mark.  With a mark above zero no frame   *)
(* beyond its snapshot has been copied to the database file; with mark     *)
(* zero nothing is being copied at all (walTryBeginRead, walCheckpoint).   *)
Copying(d) == pc[d] \in {"synclog", "copy", "syncdb", "backfill"}

ReadersKeepTheirPages ==
    \A c \in Conns : Reading(c) =>
        /\ c \in lock[WAL_READ_LOCK(wc[c].readLock)].shared
        /\ wc[c].readLock > 0 => shm.nBackfill <= wc[c].hdr.mxFrame
        /\ wc[c].readLock = 0 => ~\E d \in Conns : Copying(d)

(* The frames that the shared header counts are those of the log that is   *)
(* there, and a recovery finds all of them, whoever dies: commits, frames  *)
(* written over, restarts and truncations keep the two together            *)
(* (walFrames, walRewriteChecksums, walRestartHdr, walIndexRecover).       *)
RecoveryFindsTheLog ==
    LiveHdr.mxFrame > 0 => LiveHdr.salt = wal.salt /\ LiveHdr.mxFrame <= LastCommit(wal)

-----------------------------------------------------------------------------
(* The committed image: frames up to the live mxFrame over the database    *)
(* file; without a header, what a recovery would find.                     *)

Overlaid(file, w, h) ==
    LET page(p) ==
            LET at[n \in Nat] == IF n = 0 THEN PageOf(file, p)
                                 ELSE IF w.frames[n].pg = p THEN w.frames[n].val ELSE at[n - 1]
            IN  at[h.mxFrame]
    IN  [p \in 1 .. SizeBy(h, file) |-> page(p)]

Recovered(files2, ws) ==
    UNION {{Overlaid(d, w, h) : d \in files2, h \in {RecoveredHdr(w)}} : w \in ws}

TheImage ==
    IF LiveHdr.isInit THEN {Overlaid(db, wal, h) : h \in {LiveHdr}} ELSE Recovered({db}, {wal})

Image == CHOOSE i \in TheImage : TRUE

(* What a crash may leave: all of the files, or with a power failure what  *)
(* is on the disk and some of what is not.                                 *)
Limbo ==
    IF setting.power THEN Recovered(DbWrecks, WalWrecks) \ TheImage
    ELSE IF setting.die = "never" THEN {}
    ELSE Recovered({db}, {wal}) \ TheImage

InTx(c) == tx[c].on \/ (Idle(c) /\ Reading(c))

Abstract == INSTANCE SnapshotDb WITH
    Conns <- Conns,
    InitImage <- [p \in 1 .. InitSize |-> 0],
    image <- Image,
    limbo <- Limbo,
    view <- [c \in Conns |-> IF InTx(c) THEN View(c) ELSE <<>>],
    writer <- {c \in Conns : tx[c].on},
    lasting <- fullSync

(* Readers see one committed image for as long as they read; commits are   *)
(* atomic for readers and for crashes, and none is lost, but for those a   *)
(* power failure takes back under synchronous=NORMAL: header, read marks,  *)
(* checkpoint, restart of the log and recovery together (wal.c).           *)
ImplementsSnapshotDb == Abstract!Spec

(* The comment of struct WalCkptInfo: "The nBackfill number is never       *)
(* greater than WalIndexHdr.mxFrame", when nobody is changing either.      *)
BackfillWithinLog ==
    (lock[WAL_WRITE_LOCK] = Free /\ shm.hdr[1] = shm.hdr[2]) => shm.nBackfill <= LiveHdr.mxFrame
=============================================================================
