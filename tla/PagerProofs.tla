---------------------------- MODULE PagerProofs ----------------------------
(***************************************************************************)
(* For any number of connections, any journal mode and synchronous setting *)
(* and any failures: the locks a pager holds fit its state, the two files  *)
(* change in the hands of one connection only, the variables have their    *)
(* types, and a commit whose end is synced is final.                       *)
(*                                                                         *)
(* Fits is the state diagram of one connection; what it says of the steps  *)
(* between the states makes it inductive.  A step of a connection c moves  *)
(* c alone (Moves), and a lock that rises is compatible with all others.   *)
(*                                                                         *)
(* TInv adds the data to the state diagram.  What is in the cache and the  *)
(* transaction of a connection depends on where it stands (Conn): a page   *)
(* that is not dirty is in the file, a roll-back reads its own header      *)
(* first, a finished transaction is in the file and synced.  Those are     *)
(* what keeps a page number taken from a journal, or a count that goes     *)
(* down, in its type.  What the others hold survives a step of c because   *)
(* of the locks (OthersKept).                                              *)
(***************************************************************************)
EXTENDS PagerRecovery, WellFoundedInduction, SequenceTheorems, TLAPS

Opening == {"access", "reserved", "firstByte", "hotLock", "hotOpen", "version"}
Flushing == {"zeroNext", "count", "journalSync", "write"}
Restoring == {"header", "record", "restored", "final"}

(* Step p, state s and lock level l of one connection. *)
Fits(p, s, l) ==
    /\ p # "idle" \/ s # OPEN => l >= SHARED_LOCK
    /\ s \in WRITER_LOCKED .. WRITER_FINISHED => l >= RESERVED_LOCK
    /\ s \in {WRITER_DBMOD, WRITER_FINISHED} \/ p \in Flushing => l = EXCLUSIVE_LOCK
    /\ s = OPEN /\ p \in Restoring \cup {"hotOpen", "unlock"} => l = EXCLUSIVE_LOCK
    /\ p \in Opening => s = OPEN
    /\ p \in Flushing \cup {"sync"} => s \in {WRITER_CACHEMOD, WRITER_DBMOD}
    /\ p \in Restoring => s = OPEN \/ s \in WRITER_LOCKED .. WRITER_FINISHED

ControlTypeOK ==
    /\ pc \in [Conns -> Steps]
    /\ eState \in [Conns -> OPEN .. ERROR]
    /\ eLock \in [Conns -> NO_LOCK .. EXCLUSIVE_LOCK]

IInv ==
    /\ ControlTypeOK
    /\ \A c \in Conns : Fits(pc[c], eState[c], eLock[c])
    /\ \A c, d \in Conns : c # d => Locks!Compatible(eLock[c], eLock[d])

(* A step of c that leaves every other connection as it is. *)
Moves(c) ==
    /\ ControlTypeOK'
    /\ \A d \in Conns \ {c} : pc'[d] = pc[d] /\ eState'[d] = eState[d] /\ eLock'[d] = eLock[d]
    /\ Fits(pc'[c], eState'[c], eLock'[c])
    /\ \/ eLock'[c] <= eLock[c]
       \/ \A d \in Conns \ {c} : /\ Locks!Compatible(eLock'[c], eLock[d])
                                 /\ Locks!Compatible(eLock[d], eLock'[c])

(* What c changes of the files it has the lock for. *)
InHand(c) ==
    /\ db' # db => eLock[c] = EXCLUSIVE_LOCK
    /\ jrnl' # jrnl => eLock[c] >= RESERVED_LOCK

USE DEF OPEN, READER, WRITER_LOCKED, WRITER_CACHEMOD, WRITER_DBMOD, WRITER_FINISHED, ERROR,
        NO_LOCK, SHARED_LOCK, RESERVED_LOCK, PENDING_LOCK, EXCLUSIVE_LOCK,
        Locks!NO_LOCK, Locks!SHARED_LOCK, Locks!RESERVED_LOCK, Locks!PENDING_LOCK,
        Locks!EXCLUSIVE_LOCK

-----------------------------------------------------------------------------
(* A step that moves one connection keeps the invariant.                   *)
LEMMA MovesKeep ==
    ASSUME IInv, NEW c \in Conns, Moves(c)
    PROVE  IInv'
<1>1. ControlTypeOK'
  BY DEF Moves
<1>2. ASSUME NEW d \in Conns PROVE Fits(pc'[d], eState'[d], eLock'[d])
  <2>1. CASE d = c
    BY <2>1 DEF Moves
  <2>2. CASE d # c
    <3>1. Fits(pc[d], eState[d], eLock[d])
      BY DEF IInv
    <3>2. pc'[d] = pc[d] /\ eState'[d] = eState[d] /\ eLock'[d] = eLock[d]
      BY <2>2 DEF Moves
    <3> QED BY <3>1, <3>2
  <2> QED BY <2>1, <2>2
<1>3. ASSUME NEW d \in Conns, NEW e \in Conns, d # e
      PROVE  Locks!Compatible(eLock'[d], eLock'[e])
  <2>1. Locks!Compatible(eLock[d], eLock[e])
    BY <1>3 DEF IInv
  <2>2. /\ eLock[d] \in 0 .. 4 /\ eLock[e] \in 0 .. 4
        /\ eLock'[d] \in 0 .. 4 /\ eLock'[e] \in 0 .. 4
    BY <1>1 DEF IInv, ControlTypeOK
  <2>3. CASE d # c /\ e # c
    BY <2>1, <2>3 DEF Moves
  <2>4. CASE d = c
    <3>1. e # c /\ eLock'[e] = eLock[e]
      BY <1>3, <2>4 DEF Moves
    <3>2. eLock'[d] <= eLock[d] \/ Locks!Compatible(eLock'[d], eLock[e])
      BY <2>4, <3>1 DEF Moves
    <3> QED BY <2>1, <2>2, <3>1, <3>2 DEF Locks!Compatible
  <2>5. CASE e = c
    <3>1. d # c /\ eLock'[d] = eLock[d]
      BY <1>3, <2>5 DEF Moves
    <3>2. eLock'[e] <= eLock[e] \/ Locks!Compatible(eLock[d], eLock'[e])
      BY <2>5, <3>1 DEF Moves
    <3> QED BY <2>1, <2>2, <3>1, <3>2 DEF Locks!Compatible
  <2> QED BY <2>3, <2>4, <2>5
<1> QED BY <1>1, <1>2, <1>3 DEF IInv

(* Where a connection is bound to have the file to itself, no other holds  *)
(* any lock; a connection with RESERVED is the only one that has.          *)
LEMMA Alone ==
    ASSUME IInv, NEW c \in Conns
    PROVE  /\ eLock[c] = EXCLUSIVE_LOCK => \A d \in Others(c) : eLock[d] = NO_LOCK
           /\ eLock[c] >= RESERVED_LOCK => \A d \in Others(c) : eLock[d] <= SHARED_LOCK
<1>1. ASSUME NEW d \in Others(c)
      PROVE  Locks!Compatible(eLock[c], eLock[d]) /\ eLock[d] \in 0 .. 4
  BY DEF IInv, Others, ControlTypeOK
<1> QED BY <1>1 DEF Locks!Compatible

(* A connection that has just been opened is in the OPEN state, without a  *)
(* lock.                                                                   *)
THEOREM InitFits == Init => IInv
<1> SUFFICES ASSUME Init PROVE IInv
  OBVIOUS
<1>1. ControlTypeOK
  BY DEF Init, ControlTypeOK, Steps
<1>2. \A c \in Conns : pc[c] = "idle" /\ eState[c] = OPEN /\ eLock[c] = NO_LOCK
  BY DEF Init
<1>3. Fits("idle", OPEN, NO_LOCK)
  BY DEF Fits, Opening, Flushing, Restoring
<1>4. Locks!Compatible(NO_LOCK, NO_LOCK)
  BY DEF Locks!Compatible
<1> QED BY <1>1, <1>2, <1>3, <1>4 DEF IInv

-----------------------------------------------------------------------------
(* The steps.                                                              *)

USE DEF ControlTypeOK, Fits, Opening, Flushing, Restoring, Steps, Moves, InHand,
        Goto, SetState, SetLock, Others, Locks!Others

(* A page write makes a writer of a connection that was only locked, and   *)
(* leaves the state alone otherwise.                                       *)
LEMMA PageWrittenState ==
    ASSUME NEW c \in Conns, NEW p, NEW v
    PROVE  /\ Work(c).s = eState[c]
           /\ PageWritten(Work(c), p, v).s =
                  IF eState[c] = WRITER_LOCKED THEN WRITER_CACHEMOD ELSE eState[c]
<1>1. Work(c).s = eState[c]
  BY DEF Work
<1>2. ASSUME NEW w PROVE JournalOpened(w).s = WRITER_CACHEMOD /\ PageJournalled(w, p).s = w.s
  BY DEF JournalOpened, PageJournalled
<1> QED BY <1>1, <1>2 DEF PageWritten

(* Reading, and the detection of a hot journal. *)
LEMMA ReadStepMoves ==
    ASSUME IInv, NEW c \in Conns, ReadStep(c)
    PROVE  Moves(c) /\ InHand(c)
<1>1. CASE LockShared(c)
  BY <1>1 DEF IInv, LockShared, files, Locks!AcquireShared, Locks!Compatible
<1>2. CASE Access(c)
  BY <1>2 DEF IInv, Access, files
<1>3. CASE CheckReserved(c)
  BY <1>3 DEF IInv, CheckReserved, files
<1>4. CASE FirstByte(c)
  BY <1>4 DEF IInv, FirstByte, files
<1>5. CASE HotLock(c)
  BY <1>5 DEF IInv, HotLock, files, LockForPlayback, Unlocked, Locks!AcquireExclusive,
         Locks!Compatible
<1>6. CASE HotOpen(c)
  BY <1>6 DEF IInv, HotOpen
<1>7. CASE Version(c)
  BY <1>7 DEF IInv, Version, files
<1>8. CASE EndRead(c)
  BY <1>8 DEF IInv, EndRead, files, Unlocked
<1>9. ASSUME NEW p \in Pages, Fetch(c, p) PROVE Moves(c) /\ InHand(c)
  BY <1>9 DEF IInv, Fetch, files
<1>10. ASSUME NEW p \in Pages, Evict(c, p) PROVE Moves(c) /\ InHand(c)
  BY <1>10 DEF IInv, Evict, files
<1> QED BY <1>1, <1>2, <1>3, <1>4, <1>5, <1>6, <1>7, <1>8, <1>9, <1>10 DEF ReadStep

(* A write transaction: its spills, its commit. *)
LEMMA WriteStepMoves ==
    ASSUME IInv, NEW c \in Conns, WriteStep(c)
    PROVE  Moves(c) /\ InHand(c)
<1>1. CASE Begin(c)
  BY <1>1 DEF IInv, Begin, files, Locks!AcquireReserved, Locks!Compatible
<1>2. CASE CommitPhaseOne(c)
  <2> DEFINE w == IF CounterDone(c) THEN Work(c)
                ELSE PageWritten(Work(c), 1, mem[c].fileVers + 1)
  <2>1. eState' = [eState EXCEPT ![c] = w.s]
    BY <1>2 DEF CommitPhaseOne, DoWork
  <2>2. w.s = IF eState[c] = WRITER_LOCKED THEN WRITER_CACHEMOD ELSE eState[c]
    BY <1>2, PageWrittenState DEF CommitPhaseOne
  <2>3. /\ pc' = [pc EXCEPT ![c] = "sync"]
        /\ eLock' = eLock /\ db' = db
        /\ eState[c] \in {WRITER_CACHEMOD, WRITER_DBMOD}
    BY <1>2 DEF CommitPhaseOne, DoWork
  <2> HIDE DEF w
  <2> QED BY <2>1, <2>2, <2>3 DEF IInv
<1>3. CASE CommitNothing(c)
  BY <1>3 DEF IInv, CommitNothing, files
<1>4. ASSUME NEW p \in Pages, Write(c, p) PROVE Moves(c) /\ InHand(c)
  <2> DEFINE w == PageWritten(Work(c), p, IF p = 1 THEN mem[c].cache[1] ELSE tx[c].stamp)
  <2>1. eState' = [eState EXCEPT ![c] = w.s]
    BY <1>4 DEF Write, DoWork
  <2>2. w.s = IF eState[c] = WRITER_LOCKED THEN WRITER_CACHEMOD ELSE eState[c]
    BY <1>4, PageWrittenState DEF Write
  <2>3. /\ pc[c] = "idle" /\ pc' = pc
        /\ eLock' = eLock /\ db' = db
        /\ eState[c] \in WRITER_LOCKED .. WRITER_DBMOD
    BY <1>4 DEF Write, DoWork
  <2> HIDE DEF w
  <2> QED BY <2>1, <2>2, <2>3 DEF IInv
<1>5. ASSUME NEW p \in Pages, Spill(c, p) PROVE Moves(c) /\ InHand(c)
  BY <1>5 DEF IInv, Spill, files, SpillNeedsSync
<1>6. CASE AskExclusive(c)
  BY <1>6 DEF IInv, AskExclusive, files, Locks!AcquirePending, Locks!Compatible
<1>7. CASE GetExclusive(c)
  BY <1>7 DEF IInv, GetExclusive, files, Locks!AcquireExclusive, Locks!Compatible
<1>8. CASE Busy(c)
  BY <1>8 DEF IInv, Busy, files
<1>9. CASE ZeroNext(c)
  BY <1>9 DEF IInv, ZeroNext
<1>10. CASE WriteCount(c)
  BY <1>10 DEF IInv, WriteCount
<1>11. CASE SkipSync(c)
  BY <1>11 DEF IInv, SkipSync, files, DbMayChange
<1>12. CASE SyncJournal(c)
  BY <1>12 DEF IInv, SyncJournal, DbMayChange
<1>13. CASE PageOut(c)
  BY <1>13 DEF IInv, PageOut
<1>14. CASE SyncDb(c)
  BY <1>14 DEF IInv, SyncDb
<1>15. CASE CommitPhaseTwo(c)
  BY <1>15 DEF IInv, CommitPhaseTwo
<1>16. CASE Unlock(c)
  BY <1>16 DEF IInv, Unlock, files
<1> QED BY <1>1, <1>2, <1>3, <1>4, <1>5, <1>6, <1>7, <1>8, <1>9, <1>10, <1>11, <1>12, <1>13,
           <1>14, <1>15, <1>16 DEF WriteStep

(* Roll-backs, of the own journal and of a hot one. *)
LEMMA RollbackStepMoves ==
    ASSUME IInv, NEW c \in Conns, RollbackStep(c)
    PROVE  Moves(c) /\ InHand(c)
<1>1. CASE Rollback(c)
  BY <1>1 DEF IInv, Rollback, files
<1>2. CASE ReadHeader(c)
  BY <1>2 DEF IInv, ReadHeader, isHot, RestoresDb
<1>3. CASE ReadRecord(c)
  BY <1>3 DEF IInv, ReadRecord, isHot, RestoresDb, Restore
<1>4. CASE SyncRestored(c)
  BY <1>4 DEF IInv, SyncRestored
<1>5. CASE FinishPlayback(c)
  BY <1>5 DEF IInv, FinishPlayback
<1> QED BY <1>1, <1>2, <1>3, <1>4, <1>5 DEF RollbackStep

(* Failures of a connection. *)
LEMMA FailStepMoves ==
    ASSUME IInv, NEW c \in Conns, FailStep(c)
    PROVE  Moves(c) /\ InHand(c)
<1>1. CASE WorkFails(c)
  BY <1>1 DEF IInv, WorkFails, EnterError
<1>2. CASE CommitPhaseTwoFails(c)
  BY <1>2 DEF IInv, CommitPhaseTwoFails
<1>3. CASE UnlockFailed(c)
  BY <1>3 DEF IInv, UnlockFailed, files, EnterError
<1>4. CASE PlaybackFails(c)
  BY <1>4 DEF IInv, PlaybackFails, isHot, RestoresDb, Unlocked, EnterError
<1>7. CASE FinishPlaybackFails(c)
  BY <1>7 DEF IInv, FinishPlaybackFails, isHot, Unlocked
<1>5. CASE LeaveError(c)
  BY <1>5 DEF IInv, LeaveError, files, Unlocked
<1>6. CASE ProcessDeath(c)
  BY <1>6 DEF IInv, ProcessDeath, files, Dead
<1> QED BY <1>1, <1>2, <1>3, <1>4, <1>5, <1>6, <1>7 DEF FailStep

(* A power failure takes every lock. *)
LEMMA PowerFailureKeeps == ASSUME IInv, PowerFailure PROVE IInv' /\ MachineIsDown
<1>1. ControlTypeOK' /\ \A c \in Conns : pc'[c] = "idle" /\ eState'[c] = OPEN /\ eLock'[c] = NO_LOCK
  BY DEF IInv, PowerFailure, Dead
<1>2. Fits("idle", OPEN, NO_LOCK) /\ Locks!Compatible(NO_LOCK, NO_LOCK)
  BY DEF Locks!Compatible
<1> QED BY <1>1, <1>2 DEF IInv, MachineIsDown

-----------------------------------------------------------------------------
(* What a step may change of the files. *)
FileStep ==
    /\ db' # db => \/ MachineIsDown
                  \/ \E c \in Conns : /\ eLock[c] = EXCLUSIVE_LOCK
                                      /\ \A d \in Others(c) : eLock[d] = NO_LOCK
    /\ jrnl' # jrnl => \/ MachineIsDown
                      \/ \E c \in Conns : /\ eLock[c] >= RESERVED_LOCK
                                          /\ \A d \in Others(c) : eLock[d] <= SHARED_LOCK

LEMMA ConnStep ==
    ASSUME IInv, NEW c \in Conns, ReadStep(c) \/ WriteStep(c) \/ RollbackStep(c) \/ FailStep(c)
    PROVE  IInv' /\ FileStep
<1>1. Moves(c) /\ InHand(c)
  BY ReadStepMoves, WriteStepMoves, RollbackStepMoves, FailStepMoves
<1>2. IInv'
  BY <1>1, MovesKeep
<1>3. FileStep
  BY <1>1, Alone DEF FileStep
<1> QED BY <1>2, <1>3

LEMMA NextKeeps == IInv /\ [Next]_vars => IInv' /\ [FileStep]_vars
<1> SUFFICES ASSUME IInv, [Next]_vars PROVE IInv' /\ [FileStep]_vars
  OBVIOUS
<1>1. CASE UNCHANGED vars
  BY <1>1 DEF vars, IInv
<1>2. CASE Next
  BY <1>2, ConnStep, PowerFailureKeeps DEF Next, FileStep
<1> QED BY <1>1, <1>2

(* The invariant implies what the checks state. *)
LEMMA InvariantImplies == IInv => LocksFitStates
<1> SUFFICES ASSUME IInv PROVE LocksFitStates
  OBVIOUS
<1>1. Locks!LocksCompatible
  BY DEF IInv, Locks!LocksCompatible
<1>2. ASSUME NEW c \in Conns
      PROVE  /\ pc[c] # "idle" \/ eState[c] # OPEN => eLock[c] >= SHARED_LOCK
             /\ JournalInHand(c) => eLock[c] >= RESERVED_LOCK
             /\ DbInHand(c) => eLock[c] = EXCLUSIVE_LOCK
  BY DEF IInv, JournalInHand, DbInHand, isHot
<1> QED BY <1>1, <1>2 DEF LocksFitStates

(* Every reachable state satisfies the state diagram with its locks.       *)
THEOREM StatesFit == Spec => []IInv
<1> QED BY InitFits, NextKeeps, PTL DEF Spec

(* The lock levels of all connections are compatible and sufficient for    *)
(* what each of them is doing: pager.c, the states of a pager.             *)
THEOREM LocksSuffice == Spec => []LocksFitStates
<1> QED BY StatesFit, InvariantImplies, PTL

(* The database file and the journal change only in the hands of the one   *)
(* connection whose lock allows it, or when the machine goes down.         *)
THEOREM FilesInOneHand == Spec => FilesChangeInOneHand
<1>1. Spec => [][FileStep]_vars
  BY StatesFit, NextKeeps, PTL DEF Spec
<1>2. [][FileStep]_vars => FilesChangeInOneHand
  BY PTL DEF FileStep, FilesChangeInOneHand
<1> QED BY <1>1, <1>2, PTL

HIDE DEF ControlTypeOK, Fits, Opening, Flushing, Restoring, Steps, Moves, InHand,
         Goto, SetState, SetLock, Others, Locks!Others

-----------------------------------------------------------------------------
(* The types.  A sector that is not zeroed names a page of the database.   *)
Sectors == {e \in Sector : e.kind # "zero" => e.pg \in Pages}

DbOK(d) == d \in Seq(Contents) /\ Len(d) \in Pages

FilesOK ==
    /\ DbOK(db) /\ DbOK(dbDisk)
    /\ jrnl \in [exists : BOOLEAN, data : Seq(Sectors)]
    /\ jDisk \in [exists : BOOLEAN, data : Seq(Sectors)]
    /\ jSame \in BOOLEAN

(* What a connection in state s, at step p, has in its cache m and its      *)
(* transaction t: page 1 is held from the first read on, a page that is not *)
(* dirty is in the file d, and the file still holds the original pages.    *)
Reading(s, m, d) ==
    s \in READER .. WRITER_FINISHED =>
        /\ 1 \in DOMAIN m.cache /\ m.dbSize \in Pages
        /\ \A q \in 1 .. m.dbSize : q \in m.dirty \/ q <= Len(d)

Writing(p, s, m, t, d) ==
    /\ s \in WRITER_LOCKED .. WRITER_FINISHED => t.orig \in 1 .. m.dbSize /\ t.orig <= Len(d)
    /\ p \in Restoring => s # WRITER_LOCKED /\ t.job # "spill"
    /\ p = "unlock" => s # ERROR
    /\ s \in WRITER_CACHEMOD .. WRITER_FINISHED /\ p \in Restoring =>
          (p = "header" /\ t.off = 0) \/ m.dbSize = t.orig
    /\ s \notin {WRITER_CACHEMOD, WRITER_DBMOD, ERROR} \/ p = "unlock" => m.dirty = {}
    /\ t.job = "spill" => s # OPEN /\ t.left \in m.dirty

(* From its first page to its last step a transaction has a journal j that *)
(* starts with its own header.                                             *)
Journalling(p, s, t, j) ==
    s \in WRITER_CACHEMOD .. WRITER_FINISHED /\ p \notin {"unlock", "unlockFailed"} =>
        /\ Len(j.data) >= 1 /\ j.data[1].pg = t.orig
        /\ t.off <= Len(j.data)
        /\ p \notin Restoring => t.off >= 1
        /\ t.hdr # 0 \/ p = "journalSync" => j.data[1].kind = "hdr"

(* A finished transaction is in the file d, synced as dd; the end of its   *)
(* journal j is on the disk, as jd in the directory same, once             *)
(* sqlite3PagerCommitPhaseTwo has come to the unlock.                      *)
EndIsSynced == extraSync \/ (fullSync /\ JournalMode # "delete")

Committed(p, s, t, d, dd, j, jd, same) ==
    s = WRITER_FINISHED /\ t.job = "none" =>
        /\ p \in {"idle", "unlock", "unlockFailed"}
        /\ ~noSync => dd = d
        /\ p = "unlock" /\ EndIsSynced => jd = j /\ same = TRUE
        /\ p = "unlock" => j.exists \/ j.data = <<>>

Conn(c) ==
    /\ CacheOK(mem[c]) /\ Reading(eState[c], mem[c], db)
    /\ Writing(pc[c], eState[c], mem[c], tx[c], db)
    /\ Journalling(pc[c], eState[c], tx[c], jrnl)
    /\ Committed(pc[c], eState[c], tx[c], db, dbDisk, jrnl, jDisk, jSame)

Shapes ==
    /\ DOMAIN mem = Conns /\ mem = [c \in Conns |-> mem[c]]
    /\ tx \in [Conns -> TxType]
    /\ txns \in Nat /\ setting \in Settings

TInv == IInv /\ Shapes /\ FilesOK /\ \A c \in Conns : Conn(c)

(* A step of c, as far as the files and c itself go. *)
Keeps(c) ==
    /\ Shapes' /\ FilesOK' /\ Conn(c)' /\ setting' = setting
    /\ \A d \in Others(c) : mem'[d] = mem[d] /\ tx'[d] = tx[d]
    /\ eLock[c] >= RESERVED_LOCK \/ UNCHANGED <<dbDisk, jDisk, jSame>>

-----------------------------------------------------------------------------
LEMMA Bounds ==
    ASSUME setting \in Settings
    PROVE  /\ setting.pages \in Nat /\ setting.pages >= 1 /\ InitSize \in Pages
           /\ setting.txns \in Nat
           /\ setting.journal \in {"delete", "truncate", "persist"}
           /\ setting.sync \in {"off", "normal", "full", "extra"}
BY PagerAssumption DEF Pages

LEMMA OthersKept ==
    ASSUME TInv, NEW c \in Conns, Moves(c), InHand(c), Keeps(c)
    PROVE  TInv'
<1>1. IInv'
  BY MovesKeep DEF TInv
<1>2. ASSUME NEW d \in Others(c) PROVE Conn(d)'
  <2>1. /\ pc'[d] = pc[d] /\ eState'[d] = eState[d] /\ eLock'[d] = eLock[d]
        /\ mem'[d] = mem[d] /\ tx'[d] = tx[d] /\ setting' = setting
    BY DEF Moves, Others, Keeps
  <2>2. Conn(d) /\ Fits(pc[d], eState[d], eLock[d]) /\ eLock[d] \in 0 .. 4 /\ eState[d] \in 0 .. 6
        /\ eLock[c] \in 0 .. 4
    BY DEF TInv, IInv, ControlTypeOK, Others
  <2>3. eLock[c] = EXCLUSIVE_LOCK => pc[d] = "idle" /\ eState[d] = OPEN
    BY <2>2, Alone DEF Fits, TInv, Others
  <2>4. eLock[c] >= RESERVED_LOCK => eState[d] \notin WRITER_LOCKED .. WRITER_FINISHED
    BY <2>2, Alone DEF Fits, TInv, Others
  <2>5. CacheOK(mem[d])'
    BY <2>1, <2>2 DEF Conn, CacheOK, Pages
  <2>6. Reading(eState[d], mem[d], db)'
    BY <2>1, <2>2, <2>3 DEF Conn, Reading, Pages, InHand
  <2>7. Writing(pc[d], eState[d], mem[d], tx[d], db)'
    BY <2>1, <2>2, <2>3 DEF Conn, Writing, InHand
  <2>8. Journalling(pc[d], eState[d], tx[d], jrnl)'
    BY <2>1, <2>2, <2>4 DEF Conn, Journalling, InHand
  <2>9. Committed(pc[d], eState[d], tx[d], db, dbDisk, jrnl, jDisk, jSame)'
    BY <2>1, <2>2, <2>3, <2>4 DEF Conn, Committed, InHand, Keeps, EndIsSynced, noSync, fullSync,
       extraSync, JournalMode
  <2> QED BY <2>5, <2>6, <2>7, <2>8, <2>9 DEF Conn
<1> QED BY <1>1, <1>2 DEF TInv, Keeps, Others

-----------------------------------------------------------------------------
(* The operators on files.                                                 *)

LEMMA PutIs ==
    ASSUME NEW S, NEW s \in Seq(S), NEW n \in 1 .. Len(s) + 1, NEW v \in S
    PROVE  /\ Put(s, n, v) \in Seq(S) /\ Len(Put(s, n, v)) = Larger(Len(s), n)
           /\ Put(s, n, v)[n] = v
           /\ \A i \in 1 .. Len(s) : i # n => Put(s, n, v)[i] = s[i]
<1> DEFINE N == Larger(Len(s), n)
<1>1. Len(s) \in Nat /\ DOMAIN s = 1 .. Len(s) /\ \A i \in 1 .. Len(s) : s[i] \in S
  BY LenProperties, ElementOfSeq
<1>2. N \in Nat /\ DOMAIN s \cup {n} = 1 .. N
  BY <1>1 DEF Larger
<1>3. Put(s, n, v) = [y \in 1 .. N |-> IF y = n THEN v ELSE s[y]]
  BY <1>2 DEF Put
<1>4. \A y \in 1 .. N : (IF y = n THEN v ELSE s[y]) \in S
  BY <1>1, <1>2
<1> HIDE DEF N
<1>5. Put(s, n, v) \in [1 .. N -> S]
  BY <1>3, <1>4
<1>6. Put(s, n, v) \in Seq(S) /\ Len(Put(s, n, v)) = N
  BY <1>2, <1>5, SeqDef, LenProperties
<1>7. \A y \in 1 .. N : Put(s, n, v)[y] = IF y = n THEN v ELSE s[y]
  BY <1>3
<1>8. n \in 1 .. N /\ 1 .. Len(s) \subseteq 1 .. N
  BY <1>1, <1>2
<1> QED BY <1>6, <1>7, <1>8 DEF N

(* A file with one page stored is no shorter and has that page.            *)
LEMMA StoredIs ==
    ASSUME DbOK(db), setting \in Settings, NEW p \in Pages, NEW v \in Contents
    PROVE  DbOK(Stored(p, v)) /\ Len(Stored(p, v)) >= Len(db) /\ Len(Stored(p, v)) >= p
<1> DEFINE N == Larger(Len(db), p)
<1>1. Len(db) \in Nat /\ DOMAIN db = 1 .. Len(db) /\ \A i \in 1 .. Len(db) : db[i] \in Contents
  BY LenProperties, ElementOfSeq DEF DbOK
<1>2. N \in Pages /\ N \in Nat /\ N >= Len(db) /\ N >= p
  BY <1>1, Bounds DEF Larger, Pages, DbOK
<1>3. 0 \in Contents
  BY DEF Contents
<1>4. \A q \in 1 .. N : (IF q = p THEN v ELSE IF q <= Len(db) THEN db[q] ELSE 0) \in Contents
  BY <1>1, <1>2, <1>3
<1>5. Stored(p, v) = [q \in 1 .. N |-> IF q = p THEN v ELSE IF q <= Len(db) THEN db[q] ELSE 0]
  BY DEF Stored
<1> HIDE DEF N
<1>6. Stored(p, v) \in [1 .. N -> Contents]
  BY <1>4, <1>5
<1>7. Stored(p, v) \in Seq(Contents) /\ Len(Stored(p, v)) = N
  BY <1>2, <1>6, SeqDef, LenProperties
<1> QED BY <1>2, <1>7 DEF DbOK

LEMMA ResizedIs ==
    ASSUME DbOK(db), setting \in Settings, NEW n \in Pages
    PROVE  DbOK(Resized(n)) /\ Len(Resized(n)) = n
<1>1. Len(db) \in Nat /\ DOMAIN db = 1 .. Len(db) /\ \A i \in 1 .. Len(db) : db[i] \in Contents
  BY LenProperties, ElementOfSeq DEF DbOK
<1>2. n \in Nat /\ 0 \in Contents
  BY Bounds DEF Pages, Contents
<1>3. \A q \in 1 .. n : (IF q <= Len(db) THEN db[q] ELSE 0) \in Contents
  BY <1>1, <1>2
<1>4. Resized(n) \in [1 .. n -> Contents]
  BY <1>3 DEF Resized
<1>5. Resized(n) \in Seq(Contents) /\ Len(Resized(n)) = n
  BY <1>2, <1>4, SeqDef, LenProperties
<1> QED BY <1>5 DEF DbOK

LEMMA PageOf ==
    ASSUME DbOK(db), setting \in Settings
    PROVE  Len(db) \in Pages /\ Len(db) \in Nat /\ \A i \in 1 .. Len(db) : db[i] \in Contents
BY LenProperties, ElementOfSeq, Bounds DEF DbOK, Pages

LEMMA SectorOf ==
    ASSUME NEW s \in Seq(Sectors)
    PROVE  Len(s) \in Nat /\ DOMAIN s = 1 .. Len(s) /\ \A i \in 1 .. Len(s) : s[i] \in Sectors
BY LenProperties, ElementOfSeq

(* What is appended to a journal.                                          *)
LEMMA SectorsMade ==
    ASSUME NEW t \in TxType
    PROVE  /\ \A magic \in BOOLEAN, n \in Nat \cup {ToEndOfFile} :
                 t.orig \in Pages => /\ Header(magic, n, t) \in Sectors
                                     /\ Header(magic, n, t).pg = t.orig
           /\ \A p \in Pages, v \in Contents : setting \in Settings => Record(p, v, t) \in Sectors
           /\ Junk \in Sectors
<1>1. t.orig \in Nat /\ t.stamp \in Nat
  BY DEF TxType
<1>2. ASSUME NEW magic \in BOOLEAN, NEW n \in Nat \cup {ToEndOfFile}, t.orig \in Pages
      PROVE  Header(magic, n, t) \in Sectors /\ Header(magic, n, t).pg = t.orig
  BY <1>1, <1>2 DEF Header, Sectors, Sector
<1>3. ASSUME NEW p \in Pages, NEW v \in Contents, setting \in Settings
      PROVE  Record(p, v, t) \in Sectors
  <2>1. p \in Nat /\ v \in Nat \cup {ToEndOfFile}
    BY <1>3, Bounds DEF Pages, Contents, Torn, ToEndOfFile
  <2> QED BY <1>1, <2>1 DEF Record, Sectors, Sector
<1>4. Junk \in Sectors
  BY DEF Junk, Sectors, Sector
<1> QED BY <1>2, <1>3, <1>4

-----------------------------------------------------------------------------
(* The page cache.                                                         *)

MemFields == {"cache", "dirty", "needSync", "fileVers", "dbSize"}

LEMMA CacheOf ==
    ASSUME NEW m, CacheOK(m), NEW x, x = [y \in DOMAIN x |-> x[y]], DOMAIN x = DOMAIN m,
           DOMAIN x.cache \subseteq Pages, \A p \in DOMAIN x.cache : x.cache[p] \in Contents,
           x.dirty \subseteq DOMAIN x.cache, x.needSync \subseteq Pages,
           x.fileVers \in Contents, x.dbSize \in 0 .. setting.pages
    PROVE  CacheOK(x)
<1>1. DOMAIN m = MemFields
  BY DEF CacheOK, MemFields
<1>2. x = [cache |-> x.cache, dirty |-> x.dirty, needSync |-> x.needSync,
           fileVers |-> x.fileVers, dbSize |-> x.dbSize]
  BY <1>1 DEF MemFields
<1> QED BY <1>2 DEF CacheOK

LEMMA MemIs ==
    ASSUME NEW m, CacheOK(m)
    PROVE  /\ DOMAIN m = MemFields
           /\ DOMAIN m.cache \subseteq Pages /\ \A p \in DOMAIN m.cache : m.cache[p] \in Contents
           /\ m.dirty \subseteq DOMAIN m.cache /\ m.needSync \subseteq Pages
           /\ m.fileVers \in Contents /\ m.dbSize \in 0 .. setting.pages
BY DEF CacheOK, MemFields

LEMMA CacheEmptied ==
    ASSUME NEW m, CacheOK(m)
    PROVE  /\ CacheOK(Emptied(m)) /\ Emptied(m).cache = <<>> /\ Emptied(m).dirty = {}
           /\ Emptied(m).fileVers = m.fileVers /\ Emptied(m).dbSize = m.dbSize
<1> DEFINE x == Emptied(m)
<1>1. DOMAIN m = MemFields
  BY MemIs
<1>2. /\ DOMAIN x = DOMAIN m /\ x.cache = <<>> /\ x.dirty = {} /\ x.needSync = {}
      /\ x.fileVers = m.fileVers /\ x.dbSize = m.dbSize
  BY <1>1 DEF Emptied, MemFields
<1>3. x = [y \in DOMAIN x |-> x[y]]
  BY DEF Emptied
<1>4. DOMAIN <<>> = {}
  OBVIOUS
<1> HIDE DEF x
<1> QED BY <1>2, <1>3, <1>4, MemIs, CacheOf DEF x

LEMMA CachePut ==
    ASSUME NEW f, NEW p \in Pages, NEW v \in Contents, DOMAIN f \subseteq Pages,
           \A q \in DOMAIN f : f[q] \in Contents
    PROVE  /\ DOMAIN Put(f, p, v) = DOMAIN f \cup {p}
           /\ \A q \in DOMAIN Put(f, p, v) : Put(f, p, v)[q] \in Contents
BY DEF Put

LEMMA CacheWithout ==
    ASSUME NEW f, NEW S, \A q \in DOMAIN f : f[q] \in Contents
    PROVE  /\ DOMAIN Without(f, S) = DOMAIN f \ S
           /\ \A q \in DOMAIN Without(f, S) : Without(f, S)[q] \in Contents
BY DEF Without

-----------------------------------------------------------------------------
(* The steps.                                                              *)

USE DEF Restoring, Goto, SetState, SetLock, SetMem, SetTx

LEMMA Parts ==
    ASSUME TInv, NEW c \in Conns
    PROVE  /\ CacheOK(mem[c]) /\ Reading(eState[c], mem[c], db)
           /\ Writing(pc[c], eState[c], mem[c], tx[c], db)
           /\ Journalling(pc[c], eState[c], tx[c], jrnl)
           /\ Committed(pc[c], eState[c], tx[c], db, dbDisk, jrnl, jDisk, jSame)
           /\ Fits(pc[c], eState[c], eLock[c])
           /\ pc[c] \in Steps /\ eState[c] \in 0 .. 6 /\ eLock[c] \in 0 .. 4
           /\ tx[c] \in TxType /\ FilesOK /\ setting \in Settings
BY DEF TInv, Conn, IInv, ControlTypeOK, Shapes

(* A step of c: m is what becomes of its cache, t of its transaction.      *)
LEMMA StepKeeps ==
    ASSUME TInv, NEW c \in Conns, NEW m, NEW t \in TxType,
           mem' = [mem EXCEPT ![c] = m], tx' = [tx EXCEPT ![c] = t],
           setting' = setting, txns' \in Nat, FilesOK',
           eLock[c] >= RESERVED_LOCK \/ UNCHANGED <<dbDisk, jDisk, jSame>>,
           CacheOK(m), Reading(eState'[c], m, db'), Writing(pc'[c], eState'[c], m, t, db'),
           Journalling(pc'[c], eState'[c], t, jrnl'),
           Committed(pc'[c], eState'[c], t, db', dbDisk', jrnl', jDisk', jSame')
    PROVE  Keeps(c)
<1>1. mem'[c] = m /\ tx'[c] = t /\ DOMAIN mem' = Conns /\ tx' \in [Conns -> TxType]
  BY DEF TInv, Shapes
<1>2. Conn(c)'
  <2>1. CacheOK(mem[c])'
    BY <1>1 DEF CacheOK, Pages
  <2>2. Reading(eState[c], mem[c], db)'
    BY <1>1 DEF Reading, Pages
  <2>3. Writing(pc[c], eState[c], mem[c], tx[c], db)'
    BY <1>1 DEF Writing
  <2>4. Journalling(pc[c], eState[c], tx[c], jrnl)'
    BY <1>1 DEF Journalling
  <2>5. Committed(pc[c], eState[c], tx[c], db, dbDisk, jrnl, jDisk, jSame)'
    BY <1>1 DEF Committed, EndIsSynced, noSync, fullSync, extraSync, JournalMode
  <2> QED BY <2>1, <2>2, <2>3, <2>4, <2>5 DEF Conn
<1>3. Shapes'
  <2>1. TxType' = TxType
    BY DEF TxType, Pages
  <2>2. mem' = [d \in Conns |-> mem'[d]]
    BY DEF TInv, Shapes
  <2> QED BY <1>1, <2>1, <2>2 DEF TInv, Shapes
<1>4. \A d \in Others(c) : mem'[d] = mem[d] /\ tx'[d] = tx[d]
  BY DEF Others, TInv, Shapes
<1> QED BY <1>2, <1>3, <1>4 DEF Keeps

LEMMA FilesStay ==
    ASSUME FilesOK, UNCHANGED files, setting' = setting
    PROVE  FilesOK' /\ UNCHANGED <<db, dbDisk, jrnl, jDisk, jSame>>
BY DEF FilesOK, files, DbOK, Sectors, Pages

(* A step that leaves the files alone.                                     *)
LEMMA MemKeeps ==
    ASSUME TInv, NEW c \in Conns, NEW m, NEW t \in TxType,
           mem' = [mem EXCEPT ![c] = m], tx' = [tx EXCEPT ![c] = t],
           UNCHANGED <<files, setting>>, txns' \in Nat,
           CacheOK(m), Reading(eState'[c], m, db), Writing(pc'[c], eState'[c], m, t, db),
           Journalling(pc'[c], eState'[c], t, jrnl),
           Committed(pc'[c], eState'[c], t, db, dbDisk, jrnl, jDisk, jSame)
    PROVE  Keeps(c)
<1>1. FilesOK' /\ UNCHANGED <<db, dbDisk, jrnl, jDisk, jSame, setting>>
  BY FilesStay DEF TInv
<1> QED BY <1>1, StepKeeps

LEMMA SameMem ==
    ASSUME TInv, NEW c \in Conns
    PROVE  mem = [mem EXCEPT ![c] = mem[c]] /\ tx = [tx EXCEPT ![c] = tx[c]] /\ txns \in Nat
BY DEF TInv, Shapes

(* A step that leaves the files, the cache and the transaction alone.      *)
LEMMA MoveKeeps ==
    ASSUME TInv, NEW c \in Conns, UNCHANGED <<files, mem, tx, txns, setting>>,
           Reading(eState'[c], mem[c], db), Writing(pc'[c], eState'[c], mem[c], tx[c], db),
           Journalling(pc'[c], eState'[c], tx[c], jrnl),
           Committed(pc'[c], eState'[c], tx[c], db, dbDisk, jrnl, jDisk, jSame)
    PROVE  Keeps(c)
<1>1. mem' = [mem EXCEPT ![c] = mem[c]] /\ tx' = [tx EXCEPT ![c] = tx[c]] /\ txns' \in Nat
  BY SameMem
<1>2. UNCHANGED <<files, setting>> /\ CacheOK(mem[c]) /\ tx[c] \in TxType
  BY Parts
<1> QED BY <1>1, <1>2, MemKeeps

LEMMA NoTxIs ==
    /\ NoTx \in TxType /\ NoTx.orig = 0 /\ NoTx.job = "none" /\ NoTx.off = 0
BY DEF NoTx, TxType

(* The lock is given back with the transaction.                            *)
LEMMA UnlockedKeeps ==
    ASSUME TInv, NEW c \in Conns, NEW m, CacheOK(m), m.dirty = {},
           Unlocked(c, m), UNCHANGED <<files, txns, setting>>
    PROVE  Keeps(c)
<1>1. pc'[c] = "idle" /\ eState'[c] = OPEN
  BY DEF Unlocked, TInv, IInv, ControlTypeOK
<1>2. /\ Reading(OPEN, m, db) /\ Writing("idle", OPEN, m, NoTx, db)
      /\ Journalling("idle", OPEN, NoTx, jrnl)
      /\ Committed("idle", OPEN, NoTx, db, dbDisk, jrnl, jDisk, jSame)
  BY NoTxIs DEF Reading, Writing, Journalling, Committed
<1>3. mem' = [mem EXCEPT ![c] = m] /\ tx' = [tx EXCEPT ![c] = NoTx] /\ txns' \in Nat
  BY DEF Unlocked, TInv, Shapes
<1> QED BY <1>1, <1>2, <1>3, MemKeeps, NoTxIs

LEMMA OpeningKeeps ==
    ASSUME TInv, NEW c \in Conns, LockShared(c) \/ Access(c) \/ CheckReserved(c) \/ FirstByte(c)
    PROVE  Keeps(c)
<1>1. UNCHANGED <<files, eState, mem, tx, txns, setting>>
  BY DEF LockShared, Access, CheckReserved, FirstByte
<1>2. eState[c] = OPEN
  BY Parts DEF LockShared, Access, CheckReserved, FirstByte, Fits, Opening
<1>3. Writing(pc'[c], eState'[c], mem[c], tx[c], db)
  BY <1>1, <1>2, Parts DEF Writing
<1>4. /\ Reading(eState'[c], mem[c], db)
      /\ Journalling(pc'[c], eState'[c], tx[c], jrnl)
      /\ Committed(pc'[c], eState'[c], tx[c], db, dbDisk, jrnl, jDisk, jSame)
  BY <1>1, <1>2 DEF Reading, Journalling, Committed
<1> QED BY <1>1, <1>3, <1>4, MoveKeeps

LEMMA HotLockKeeps ==
    ASSUME TInv, NEW c \in Conns, HotLock(c)
    PROVE  Keeps(c)
<1>1. eState[c] = OPEN /\ CacheOK(mem[c])
  BY Parts DEF HotLock, Fits, Opening
<1>2. CASE UNCHANGED <<eState, mem, tx>>
  <2>1. Writing(pc'[c], eState'[c], mem[c], tx[c], db)
    BY <1>1, <1>2, Parts DEF Writing
  <2>2. /\ Reading(eState'[c], mem[c], db)
        /\ Journalling(pc'[c], eState'[c], tx[c], jrnl)
      /\ Committed(pc'[c], eState'[c], tx[c], db, dbDisk, jrnl, jDisk, jSame)
    BY <1>1, <1>2 DEF Reading, Journalling, Committed
  <2>3. UNCHANGED <<files, txns, setting>>
    BY DEF HotLock
  <2> QED BY <1>2, <2>1, <2>2, <2>3, MoveKeeps
<1>3. CASE Unlocked(c, mem[c])
  <2>1. mem[c].dirty = {}
    BY <1>1, Parts DEF Writing
  <2> QED BY <1>1, <1>3, <2>1, UnlockedKeeps DEF HotLock
<1> QED BY <1>2, <1>3 DEF HotLock

LEMMA EndReadKeeps ==
    ASSUME TInv, NEW c \in Conns, EndRead(c)
    PROVE  Keeps(c)
<1>1. mem[c].dirty = {} /\ CacheOK(mem[c])
  BY Parts DEF EndRead, Writing
<1> QED BY <1>1, UnlockedKeeps DEF EndRead

LEMMA LeaveErrorKeeps ==
    ASSUME TInv, NEW c \in Conns, LeaveError(c)
    PROVE  Keeps(c)
<1>1. CacheOK(Emptied(mem[c])) /\ Emptied(mem[c]).dirty = {}
  BY Parts, CacheEmptied
<1> QED BY <1>1, UnlockedKeeps DEF LeaveError, AfterError

(* Of a connection in the OPEN state nothing more is asked.                *)
LEMMA OpenParts ==
    ASSUME NEW p, NEW m, m.dirty = {}, NEW t, t.job # "spill"
    PROVE  /\ Reading(OPEN, m, db) /\ Writing(p, OPEN, m, t, db)
           /\ Journalling(p, OPEN, t, jrnl)
           /\ Committed(p, OPEN, t, db, dbDisk, jrnl, jDisk, jSame)
BY DEF Reading, Writing, Journalling, Committed

LEMMA JobOf ==
    ASSUME NEW t \in TxType
    PROVE  DOMAIN t = {"orig", "stamp", "inJournal", "changeCountDone", "off", "hdr", "nRec",
                       "left", "nonce", "job"}
BY DEF TxType

LEMMA HotOpenKeeps ==
    ASSUME TInv, NEW c \in Conns, HotOpen(c)
    PROVE  Keeps(c)
<1>1. /\ eState[c] = OPEN /\ eState' = eState /\ eLock[c] = EXCLUSIVE_LOCK
      /\ UNCHANGED <<db, dbDisk, jrnl, mem, txns, setting>>
  BY Parts DEF HotOpen, Fits, Opening
<1>2. mem' = [mem EXCEPT ![c] = mem[c]] /\ txns' \in Nat /\ CacheOK(mem[c])
  BY <1>1, SameMem, Parts
<1>3. CASE jrnl.exists
  <2> DEFINE t == [NoTx EXCEPT !.hdr = Len(jrnl.data), !.job = "hot"]
  <2>1. tx' = [tx EXCEPT ![c] = t]
    BY <1>3 DEF HotOpen
  <2>2. t \in TxType /\ t.job = "hot"
    <3>1. Len(jrnl.data) \in Nat
      BY SectorOf, Parts DEF FilesOK
    <3> QED BY <3>1 DEF NoTx, TxType
  <2>3. FilesOK'
    <3>1. jDisk' \in {jDisk, jrnl} /\ jSame' \in BOOLEAN
      BY <1>1, <1>3, Parts DEF HotOpen, JournalSynced, FilesOK
    <3> QED BY <1>1, <3>1, Parts DEF FilesOK, DbOK, Sectors, Pages
  <2>4. /\ Reading(eState'[c], mem[c], db') /\ Writing(pc'[c], eState'[c], mem[c], t, db')
        /\ Journalling(pc'[c], eState'[c], t, jrnl')
        /\ Committed(pc'[c], eState'[c], t, db', dbDisk', jrnl', jDisk', jSame')
    <3> HIDE DEF t
    <3>1. mem[c].dirty = {}
      BY <1>1, Parts DEF Writing
    <3> QED BY <1>1, <2>2, <3>1 DEF Reading, Writing, Journalling, Committed
  <2>5. eLock[c] >= RESERVED_LOCK /\ setting' = setting
    BY <1>1
  <2> HIDE DEF t
  <2> QED BY <1>2, <2>1, <2>2, <2>3, <2>4, <2>5, StepKeeps
<1>4. CASE ~jrnl.exists
  <2>1. UNCHANGED <<files, mem, tx, txns, setting>>
    BY <1>1, <1>4 DEF HotOpen, files
  <2>2. Writing(pc'[c], eState'[c], mem[c], tx[c], db)
    BY <1>1, Parts DEF Writing
  <2>3. /\ Reading(eState'[c], mem[c], db)
        /\ Journalling(pc'[c], eState'[c], tx[c], jrnl)
        /\ Committed(pc'[c], eState'[c], tx[c], db, dbDisk, jrnl, jDisk, jSame)
    BY <1>1 DEF Reading, Journalling, Committed
  <2> QED BY <2>1, <2>2, <2>3, MoveKeeps
<1> QED BY <1>3, <1>4

LEMMA VersionKeeps ==
    ASSUME TInv, NEW c \in Conns, Version(c)
    PROVE  Keeps(c)
<1> DEFINE m == IF CacheIsStale(c) THEN Emptied(mem[c]) ELSE mem[c]
           held == 1 \in DOMAIN m.cache
           f == IF held THEN m.cache ELSE Put(m.cache, 1, db[1])
           x == [m EXCEPT !.cache = IF held THEN @ ELSE Put(@, 1, db[1]),
                          !.fileVers = IF held THEN @ ELSE db[1],
                          !.dbSize = Len(db)]
<1>1. CacheOK(m)
  BY Parts, CacheEmptied
<1>2. /\ Len(db) \in Pages /\ Len(db) \in Nat /\ db[1] \in Contents /\ 1 \in Pages
      /\ Len(db) \in 0 .. setting.pages
  <2>1. Len(db) \in Pages /\ \A i \in 1 .. Len(db) : db[i] \in Contents
    BY PageOf, Parts DEF FilesOK
  <2> QED BY <2>1, Bounds, Parts DEF Pages
<1>3. DOMAIN f \subseteq Pages /\ DOMAIN f = DOMAIN m.cache \cup {1} /\ \A p \in DOMAIN f : f[p] \in Contents
  <2> HIDE DEF m
  <2>1. DOMAIN m.cache \subseteq Pages /\ \A p \in DOMAIN m.cache : m.cache[p] \in Contents
    BY <1>1, MemIs
  <2>2. CASE held
    BY <2>1, <2>2
  <2>3. CASE ~held
    <3>1. f = Put(m.cache, 1, db[1])
      BY <2>3
    <3>2. db[1] \in Contents /\ 1 \in Pages
      BY <1>2
    <3> HIDE DEF f
    <3>3. /\ DOMAIN Put(m.cache, 1, db[1]) = DOMAIN m.cache \cup {1}
          /\ \A p \in DOMAIN Put(m.cache, 1, db[1]) : Put(m.cache, 1, db[1])[p] \in Contents
      BY <2>1, <3>2, CachePut
    <3> QED BY <2>1, <3>1, <3>2, <3>3
  <2> HIDE DEF f, held
  <2> QED BY <2>2, <2>3
<1>4. DOMAIN x = DOMAIN m /\ x.cache = f /\ x.dirty = m.dirty /\ x.needSync = m.needSync
      /\ x.fileVers \in Contents /\ x.dbSize = Len(db)
  <2> HIDE DEF m
  <2>1. DOMAIN m = MemFields /\ m.fileVers \in Contents
    BY <1>1, MemIs
  <2>2. CASE held
    BY <2>1, <2>2, <1>2 DEF MemFields
  <2>3. CASE ~held
    BY <2>1, <2>3, <1>2 DEF MemFields
  <2> QED BY <2>2, <2>3
<1>5. x = [y \in DOMAIN x |-> x[y]]
  OBVIOUS
<1>6. CacheOK(x)
  <2> HIDE DEF m, x, f
  <2>1. m.dirty \subseteq DOMAIN m.cache /\ m.needSync \subseteq Pages
    BY <1>1, MemIs
  <2> QED BY <1>1, <1>2, <1>3, <1>4, <1>5, <2>1, CacheOf
<1>7. pc[c] = "version" /\ eState[c] = OPEN
  BY Parts DEF Version, Fits, Opening
<1>8. /\ mem' = [mem EXCEPT ![c] = x] /\ UNCHANGED <<files, tx, txns, setting>>
      /\ pc'[c] = "idle" /\ eState'[c] = READER
  BY DEF Version, TInv, IInv, ControlTypeOK
<1> HIDE DEF x, f, m
<1>9. /\ Reading(READER, x, db) /\ Writing("idle", READER, x, tx[c], db)
      /\ Journalling("idle", READER, tx[c], jrnl)
      /\ Committed("idle", READER, tx[c], db, dbDisk, jrnl, jDisk, jSame)
  <2>1. Writing("idle", READER, x, tx[c], db)
    <3>1. tx[c].job # "spill" /\ mem[c].dirty = {}
      BY <1>7, Parts DEF Writing
    <3>2. m.dirty = {}
      BY <3>1, Parts, CacheEmptied DEF m
    <3> QED BY <1>4, <3>1, <3>2 DEF Writing
  <2> QED BY <2>1, <1>2, <1>3, <1>4 DEF Reading, Journalling, Committed
<1>10. tx' = [tx EXCEPT ![c] = tx[c]] /\ txns' \in Nat /\ tx[c] \in TxType /\ UNCHANGED <<files, setting>>
  BY <1>8, SameMem, Parts
<1> QED BY <1>6, <1>8, <1>9, <1>10, MemKeeps

LEMMA FetchKeeps ==
    ASSUME TInv, NEW c \in Conns, NEW p \in Pages, Fetch(c, p)
    PROVE  Keeps(c)
<1> DEFINE f == Put(mem[c].cache, p, db[p])
           x == [mem[c] EXCEPT !.cache = f]
<1>1. /\ eState[c] \in READER .. WRITER_FINISHED /\ pc[c] = "idle"
      /\ p \in 1 .. mem[c].dbSize /\ p \notin DOMAIN mem[c].cache
      /\ mem' = [mem EXCEPT ![c] = x] /\ UNCHANGED <<files, tx, txns, setting, pc, eState>>
  BY DEF Fetch, Cached
<1>2. /\ CacheOK(mem[c]) /\ DOMAIN mem[c].cache \subseteq Pages /\ DOMAIN mem[c] = MemFields
      /\ \A q \in DOMAIN mem[c].cache : mem[c].cache[q] \in Contents
      /\ mem[c].dirty \subseteq DOMAIN mem[c].cache /\ mem[c].needSync \subseteq Pages
      /\ mem[c].fileVers \in Contents /\ mem[c].dbSize \in 0 .. setting.pages
  BY Parts, MemIs
<1>3. db[p] \in Contents
  <2>1. p <= Len(db)
    <3>1. Reading(eState[c], mem[c], db) /\ CacheOK(mem[c])
      BY Parts
    <3> QED BY <1>1, <1>2, <3>1 DEF Reading
  <2>2. p \in Nat /\ p >= 1
    BY Parts, Bounds DEF Pages
  <2>3. Len(db) \in Nat /\ \A i \in 1 .. Len(db) : db[i] \in Contents
    BY PageOf, Parts DEF FilesOK
  <2> QED BY <2>1, <2>2, <2>3
<1>4. DOMAIN f = DOMAIN mem[c].cache \cup {p} /\ \A q \in DOMAIN f : f[q] \in Contents
  BY <1>2, <1>3, CachePut
<1>5. /\ DOMAIN x = DOMAIN mem[c] /\ x.cache = f /\ x.dirty = mem[c].dirty
      /\ x.needSync = mem[c].needSync /\ x.fileVers = mem[c].fileVers /\ x.dbSize = mem[c].dbSize
  <2> HIDE DEF f
  <2> QED BY <1>2 DEF MemFields
<1>6. x = [y \in DOMAIN x |-> x[y]]
  OBVIOUS
<1> HIDE DEF f, x
<1>7. CacheOK(x)
  <2>1. DOMAIN f \subseteq Pages /\ mem[c].dirty \subseteq DOMAIN f
    BY <1>2, <1>4
  <2> QED BY <1>2, <1>4, <1>5, <1>6, <2>1, CacheOf
<1>8. Reading(eState[c], x, db) /\ Writing(pc[c], eState[c], x, tx[c], db)
  BY <1>4, <1>5, Parts DEF Reading, Writing
<1>9. /\ tx' = [tx EXCEPT ![c] = tx[c]] /\ txns' \in Nat /\ tx[c] \in TxType
      /\ UNCHANGED <<files, setting>>
  BY <1>1, SameMem, Parts
<1>10. Reading(eState'[c], x, db) /\ Writing(pc'[c], eState'[c], x, tx[c], db)
       /\ Journalling(pc'[c], eState'[c], tx[c], jrnl)
       /\ Committed(pc'[c], eState'[c], tx[c], db, dbDisk, jrnl, jDisk, jSame)
  BY <1>1, <1>8, Parts
<1> QED BY <1>1, <1>7, <1>9, <1>10, MemKeeps

LEMMA EvictKeeps ==
    ASSUME TInv, NEW c \in Conns, NEW p \in Pages, Evict(c, p)
    PROVE  Keeps(c)
<1> DEFINE f == Without(mem[c].cache, {p})
           x == [mem[c] EXCEPT !.cache = f]
<1>1. /\ pc[c] = "idle" /\ p \notin mem[c].dirty
      /\ p = 1 => eState[c] = OPEN
      /\ mem' = [mem EXCEPT ![c] = x] /\ UNCHANGED <<files, tx, txns, setting, pc, eState>>
  BY DEF Evict, Cached
<1>2. /\ CacheOK(mem[c]) /\ DOMAIN mem[c].cache \subseteq Pages /\ DOMAIN mem[c] = MemFields
      /\ \A q \in DOMAIN mem[c].cache : mem[c].cache[q] \in Contents
      /\ mem[c].dirty \subseteq DOMAIN mem[c].cache /\ mem[c].needSync \subseteq Pages
      /\ mem[c].fileVers \in Contents /\ mem[c].dbSize \in 0 .. setting.pages
  BY Parts, MemIs
<1>3. DOMAIN f = DOMAIN mem[c].cache \ {p} /\ \A q \in DOMAIN f : f[q] \in Contents
  BY <1>2, CacheWithout
<1>4. /\ DOMAIN x = DOMAIN mem[c] /\ x.cache = f /\ x.dirty = mem[c].dirty
      /\ x.needSync = mem[c].needSync /\ x.fileVers = mem[c].fileVers /\ x.dbSize = mem[c].dbSize
  <2> HIDE DEF f
  <2> QED BY <1>2 DEF MemFields
<1>5. x = [y \in DOMAIN x |-> x[y]]
  OBVIOUS
<1> HIDE DEF f, x
<1>6. CacheOK(x)
  <2>1. DOMAIN f \subseteq Pages /\ mem[c].dirty \subseteq DOMAIN f
    BY <1>1, <1>2, <1>3
  <2> QED BY <1>2, <1>3, <1>4, <1>5, <2>1, CacheOf
<1>7. Reading(eState[c], x, db) /\ Writing(pc[c], eState[c], x, tx[c], db)
  <2>1. p # 1 \/ eState[c] = OPEN
    BY <1>1
  <2> QED BY <1>3, <1>4, <2>1, Parts DEF Reading, Writing
<1>8. /\ tx' = [tx EXCEPT ![c] = tx[c]] /\ txns' \in Nat /\ tx[c] \in TxType
      /\ UNCHANGED <<files, setting>>
  BY <1>1, SameMem, Parts
<1>9. Reading(eState'[c], x, db) /\ Writing(pc'[c], eState'[c], x, tx[c], db)
      /\ Journalling(pc'[c], eState'[c], tx[c], jrnl)
      /\ Committed(pc'[c], eState'[c], tx[c], db, dbDisk, jrnl, jDisk, jSame)
  BY <1>1, <1>7, Parts
<1> QED BY <1>1, <1>6, <1>8, <1>9, MemKeeps

LEMMA ReadStepKeeps ==
    ASSUME TInv, NEW c \in Conns, ReadStep(c)
    PROVE  Keeps(c)
BY OpeningKeeps, HotLockKeeps, HotOpenKeeps, VersionKeeps, EndReadKeeps, FetchKeeps, EvictKeeps
   DEF ReadStep

-----------------------------------------------------------------------------
(* A write transaction.                                                    *)

(* Until the transaction is in the file nothing is said to be committed.   *)
LEMMA Unfinished ==
    ASSUME NEW p, NEW s, NEW t, s # WRITER_FINISHED \/ t.job # "none",
           NEW d, NEW dd, NEW j, NEW jd, NEW same
    PROVE  Committed(p, s, t, d, dd, j, jd, same)
BY DEF Committed

LEMMA BegunIs ==
    ASSUME NEW n \in Nat, NEW k \in Nat
    PROVE  LET t == [NoTx EXCEPT !.orig = n, !.stamp = k]
           IN  t \in TxType /\ t.orig = n /\ t.job = "none" /\ t.off = 0
BY DEF NoTx, TxType

LEMMA BeginKeeps ==
    ASSUME TInv, NEW c \in Conns, Begin(c)
    PROVE  Keeps(c)
<1> DEFINE t == [NoTx EXCEPT !.orig = mem[c].dbSize, !.stamp = txns + 1]
<1>1. /\ pc[c] = "idle" /\ eState[c] = READER /\ eState'[c] = WRITER_LOCKED
      /\ tx' = [tx EXCEPT ![c] = t] /\ txns' = txns + 1
      /\ UNCHANGED <<files, pc, mem, setting>>
  BY DEF Begin, TInv, IInv, ControlTypeOK
<1>2. /\ mem[c].dbSize \in Pages /\ mem[c].dbSize \in Nat /\ mem[c].dbSize >= 1
      /\ mem[c].dbSize <= Len(db) /\ mem[c].dirty = {} /\ txns \in Nat
      /\ mem[c].dbSize \in 1 .. mem[c].dbSize
  <2>1. mem[c].dirty = {}
    BY <1>1, Parts DEF Writing
  <2>2. mem[c].dbSize \in Pages /\ \A q \in 1 .. mem[c].dbSize : q <= Len(db)
    BY <1>1, <2>1, Parts DEF Reading
  <2>3. txns \in Nat
    BY SameMem
  <2> QED BY <2>1, <2>2, <2>3, Bounds, Parts DEF Pages
<1>3. /\ t \in TxType /\ t.orig = mem[c].dbSize /\ t.job = "none" /\ t.off = 0
  <2>1. txns + 1 \in Nat
    BY <1>2
  <2> QED BY <1>2, <2>1, BegunIs
<1> HIDE DEF t
<1>4. /\ Reading(eState'[c], mem[c], db) /\ Writing(pc'[c], eState'[c], mem[c], t, db)
      /\ Journalling(pc'[c], eState'[c], t, jrnl)
      /\ Committed(pc'[c], eState'[c], t, db, dbDisk, jrnl, jDisk, jSame)
  <2>1. pc'[c] = "idle"
    BY <1>1
  <2>2. Reading(WRITER_LOCKED, mem[c], db)
    BY <1>1, Parts DEF Reading
  <2> QED BY <1>1, <1>2, <1>3, <2>1, <2>2 DEF Writing, Journalling, Committed
<1>5. mem' = [mem EXCEPT ![c] = mem[c]] /\ txns' \in Nat /\ CacheOK(mem[c]) /\ UNCHANGED <<files, setting>>
  BY <1>1, <1>2, SameMem, Parts
<1> QED BY <1>1, <1>3, <1>4, <1>5, MemKeeps

(* A page that is not yet written may be put off, with the lock as it is.  *)
LEMMA SpillKeeps ==
    ASSUME TInv, NEW c \in Conns, NEW p \in Pages, Spill(c, p)
    PROVE  Keeps(c)
<1> DEFINE t == [tx[c] EXCEPT !.job = "spill", !.left = p]
<1>1. /\ pc[c] = "idle" /\ eState[c] \in {WRITER_CACHEMOD, WRITER_DBMOD} /\ p \in mem[c].dirty
      /\ tx' = [tx EXCEPT ![c] = t] /\ pc'[c] \in {"sync", "write"} /\ eState'[c] = eState[c]
      /\ UNCHANGED <<files, mem, txns, setting>>
  BY DEF Spill, TInv, IInv, ControlTypeOK
<1>2. t \in TxType /\ t.orig = tx[c].orig /\ t.off = tx[c].off /\ t.hdr = tx[c].hdr
      /\ t.job = "spill" /\ t.left = p
  <2>1. p \in Nat /\ tx[c] \in TxType
    BY Bounds, Parts DEF Pages
  <2> QED BY <2>1 DEF TxType
<1> HIDE DEF t
<1>3. Writing(pc'[c], eState'[c], mem[c], t, db) /\ Journalling(pc'[c], eState'[c], t, jrnl)
  BY <1>1, <1>2, Parts DEF Writing, Journalling
<1>4. Reading(eState'[c], mem[c], db) /\ Committed(pc'[c], eState'[c], t, db, dbDisk, jrnl, jDisk, jSame)
  BY <1>1, Parts, Unfinished
<1>5. mem' = [mem EXCEPT ![c] = mem[c]] /\ txns' \in Nat /\ CacheOK(mem[c]) /\ UNCHANGED <<files, setting>>
  BY <1>1, SameMem, Parts
<1> QED BY <1>1, <1>2, <1>3, <1>4, <1>5, MemKeeps

LEMMA FlushStartKeeps ==
    ASSUME TInv, NEW c \in Conns, CommitNothing(c) \/ AskExclusive(c) \/ GetExclusive(c)
    PROVE  Keeps(c)
<1>1. /\ eState[c] \in WRITER_LOCKED .. WRITER_DBMOD /\ UNCHANGED <<files, mem, tx, txns, setting, eState>>
      /\ \/ pc[c] = "idle" /\ eState[c] = WRITER_LOCKED /\ pc'[c] = "unlock"
         \/ /\ eState[c] \in {WRITER_CACHEMOD, WRITER_DBMOD} /\ pc[c] = "sync"
            /\ pc'[c] \in {"sync", "zeroNext"}
  <2>1. CASE CommitNothing(c)
    BY <2>1, Parts DEF CommitNothing, TInv, IInv, ControlTypeOK
  <2>2. CASE AskExclusive(c) \/ GetExclusive(c)
    <3>1. pc[c] = "sync" /\ eState[c] \in {WRITER_CACHEMOD, WRITER_DBMOD}
      BY <2>2, Parts DEF AskExclusive, GetExclusive, Fits, Flushing
    <3> QED BY <2>2, <3>1 DEF AskExclusive, GetExclusive, TInv, IInv, ControlTypeOK
  <2> QED BY <2>1, <2>2
<1>2. Reading(eState'[c], mem[c], db) /\ Committed(pc'[c], eState'[c], tx[c], db, dbDisk, jrnl, jDisk, jSame)
  BY <1>1, Parts, Unfinished
<1>3. Writing(pc'[c], eState'[c], mem[c], tx[c], db) /\ Journalling(pc'[c], eState'[c], tx[c], jrnl)
  BY <1>1, Parts DEF Writing, Journalling
<1> QED BY <1>1, <1>2, <1>3, MoveKeeps

LEMMA BusyKeeps ==
    ASSUME TInv, NEW c \in Conns, Busy(c)
    PROVE  Keeps(c)
<1> DEFINE t == [tx[c] EXCEPT !.job = "none", !.left = 0]
<1>1. /\ pc[c] = "sync" /\ eState[c] \in {WRITER_CACHEMOD, WRITER_DBMOD} /\ eState'[c] = eState[c]
      /\ tx' = [tx EXCEPT ![c] = t] /\ pc'[c] = "idle"
      /\ UNCHANGED <<files, mem, txns, setting>>
  <2>1. eState[c] \in {WRITER_CACHEMOD, WRITER_DBMOD}
    BY Parts DEF Busy, Fits
  <2> QED BY <2>1 DEF Busy, TInv, IInv, ControlTypeOK
<1>2. t \in TxType /\ t.orig = tx[c].orig /\ t.off = tx[c].off /\ t.hdr = tx[c].hdr /\ t.job = "none"
  <2>1. tx[c] \in TxType
    BY Parts
  <2> QED BY <2>1 DEF TxType
<1> HIDE DEF t
<1>3. Writing(pc'[c], eState'[c], mem[c], t, db) /\ Journalling(pc'[c], eState'[c], t, jrnl)
  BY <1>1, <1>2, Parts DEF Writing, Journalling
<1>4. Reading(eState'[c], mem[c], db) /\ Committed(pc'[c], eState'[c], t, db, dbDisk, jrnl, jDisk, jSame)
  BY <1>1, Parts, Unfinished
<1>5. mem' = [mem EXCEPT ![c] = mem[c]] /\ txns' \in Nat /\ CacheOK(mem[c]) /\ UNCHANGED <<files, setting>>
  BY <1>1, SameMem, Parts
<1> QED BY <1>1, <1>2, <1>3, <1>4, <1>5, MemKeeps

-----------------------------------------------------------------------------
(* pager_write: what it makes of the journal, transaction and cache w.     *)

WorkOK(w) ==
    /\ w.j \in Seq(Sectors) /\ w.t \in TxType /\ CacheOK(w.m)
    /\ w.s \in {WRITER_LOCKED, WRITER_CACHEMOD, WRITER_DBMOD}
    /\ Reading(w.s, w.m, db) /\ Writing("idle", w.s, w.m, w.t, db)
    /\ w.s # WRITER_LOCKED =>
          /\ Len(w.j) >= 1 /\ w.j[1].pg = w.t.orig
          /\ w.t.off \in 1 .. Len(w.j)
          /\ w.t.hdr # 0 => w.j[1].kind = "hdr"

LEMMA PutSector ==
    ASSUME NEW s \in Seq(Sectors), NEW n \in Nat, n >= 1, n <= Len(s) + 1, NEW e \in Sectors
    PROVE  LET x == Put(s, n, e)
           IN  /\ x \in Seq(Sectors) /\ x[n] = e
               /\ Len(x) \in Nat /\ Len(x) >= Len(s) /\ Len(x) >= n
               /\ Len(s) >= 1 /\ n # 1 => x[1] = s[1]
<1> DEFINE x == Put(s, n, e)
<1>1. Len(s) \in Nat
  BY SectorOf
<1>2. n \in 1 .. Len(s) + 1
  BY <1>1
<1>3. /\ x \in Seq(Sectors) /\ Len(x) = Larger(Len(s), n) /\ x[n] = e
      /\ \A i \in 1 .. Len(s) : i # n => x[i] = s[i]
  BY <1>2, PutIs
<1> HIDE DEF x
<1> QED BY <1>1, <1>3 DEF Larger, x

LEMMA Counting ==
    ASSUME NEW t \in TxType, NEW p \in Pages
    PROVE  LET u == [t EXCEPT !.off = @ + 1, !.nRec = @ + 1, !.inJournal = @ \cup {p}]
           IN  /\ u \in TxType /\ u.off = t.off + 1 /\ u.hdr = t.hdr /\ u.orig = t.orig
               /\ u.job = t.job /\ u.left = t.left
<1> DEFINE u == [t EXCEPT !.off = @ + 1, !.nRec = @ + 1, !.inJournal = @ \cup {p}]
<1>1. /\ u.off = t.off + 1 /\ u.hdr = t.hdr /\ u.orig = t.orig /\ u.job = t.job /\ u.left = t.left
      /\ u.nRec = t.nRec + 1 /\ u.inJournal = t.inJournal \cup {p}
      /\ u.stamp = t.stamp /\ u.changeCountDone = t.changeCountDone /\ u.nonce = t.nonce
  BY DEF TxType
<1>2. u = [y \in DOMAIN u |-> u[y]] /\ DOMAIN u = DOMAIN t
  OBVIOUS
<1> HIDE DEF u
<1>3. u = [orig |-> u.orig, stamp |-> u.stamp, inJournal |-> u.inJournal,
           changeCountDone |-> u.changeCountDone, off |-> u.off, hdr |-> u.hdr, nRec |-> u.nRec,
           left |-> u.left, nonce |-> u.nonce, job |-> u.job]
  BY <1>2, JobOf
<1>4. /\ u.orig \in Nat /\ u.stamp \in Nat /\ u.inJournal \in SUBSET Pages /\ u.changeCountDone \in BOOLEAN
      /\ u.off \in Nat /\ u.hdr \in Nat /\ u.nRec \in Nat /\ u.left \in Nat /\ u.nonce \in Nat
      /\ u.job \in {"none", "spill", "commit", "rollback", "hot"}
  BY <1>1 DEF TxType
<1>5. u \in TxType
  BY <1>3, <1>4 DEF TxType
<1> QED BY <1>1, <1>5 DEF u

LEMMA OrigIs ==
    ASSUME NEW w, WorkOK(w), setting \in Settings
    PROVE  /\ w.t.orig \in Pages /\ w.t.orig \in Nat /\ w.m.dbSize \in Nat /\ w.t.orig <= w.m.dbSize
           /\ w.m.dbSize \in Pages /\ setting.pages \in Nat
<1>1. w.t.orig \in 1 .. w.m.dbSize
  BY DEF WorkOK, Writing
<1>2. w.m.dbSize \in Pages
  BY DEF WorkOK, Reading
<1>3. setting.pages \in Nat
  BY Bounds
<1> QED BY <1>1, <1>2, <1>3 DEF Pages

LEMMA WorkIs ==
    ASSUME TInv, NEW c \in Conns, pc[c] = "idle", eState[c] \in WRITER_LOCKED .. WRITER_DBMOD
    PROVE  WorkOK(Work(c))
<1> DEFINE w == Work(c)
<1>1. w.j = jrnl.data /\ w.t = tx[c] /\ w.m = mem[c] /\ w.s = eState[c]
  BY DEF Work
<1> HIDE DEF w
<1>2. /\ jrnl.data \in Seq(Sectors) /\ tx[c] \in TxType /\ CacheOK(mem[c])
      /\ Reading(eState[c], mem[c], db) /\ Writing("idle", eState[c], mem[c], tx[c], db)
      /\ Journalling("idle", eState[c], tx[c], jrnl)
  BY Parts DEF FilesOK
<1>3. w.s # WRITER_LOCKED =>
          /\ Len(w.j) >= 1 /\ w.j[1].pg = w.t.orig
          /\ w.t.off \in 1 .. Len(w.j)
          /\ w.t.hdr # 0 => w.j[1].kind = "hdr"
  <2>1. tx[c].off \in Nat /\ Len(jrnl.data) \in Nat
    BY <1>2, SectorOf DEF TxType
  <2> QED BY <1>1, <1>2, <2>1 DEF Journalling
<1>4. eState[c] \in {WRITER_LOCKED, WRITER_CACHEMOD, WRITER_DBMOD}
  OBVIOUS
<1> QED BY <1>1, <1>2, <1>3, <1>4 DEF WorkOK, w

LEMMA OpenedOK ==
    ASSUME NEW w, WorkOK(w), w.s = WRITER_LOCKED, setting \in Settings
    PROVE  /\ WorkOK(JournalOpened(w)) /\ JournalOpened(w).m = w.m
           /\ JournalOpened(w).s = WRITER_CACHEMOD /\ JournalOpened(w).t.orig = w.t.orig
<1> DEFINE o == JournalOpened(w)
           h == Header(noSync, IF noSync THEN ToEndOfFile ELSE 0, w.t)
           t == [w.t EXCEPT !.off = 1, !.hdr = 0]
<1>1. o.j = Put(w.j, 1, h) /\ o.t = t /\ o.m = w.m /\ o.s = WRITER_CACHEMOD
  BY DEF JournalOpened
<1>2. w.t \in TxType /\ w.j \in Seq(Sectors) /\ CacheOK(w.m)
  BY DEF WorkOK
<1>3. h \in Sectors /\ h.pg = w.t.orig
  <2>1. noSync \in BOOLEAN /\ (IF noSync THEN ToEndOfFile ELSE 0) \in Nat \cup {ToEndOfFile}
    BY DEF noSync, ToEndOfFile
  <2> QED BY <1>2, <2>1, OrigIs, SectorsMade
<1>4. /\ t \in TxType /\ t.off = 1 /\ t.hdr = 0 /\ t.orig = w.t.orig /\ t.job = w.t.job
      /\ t.left = w.t.left
  BY <1>2 DEF TxType
<1> HIDE DEF o, h, t
<1>5. /\ Put(w.j, 1, h) \in Seq(Sectors) /\ Put(w.j, 1, h)[1] = h /\ Len(Put(w.j, 1, h)) >= 1
      /\ Len(Put(w.j, 1, h)) \in Nat
  <2>1. Len(w.j) \in Nat
    BY <1>2, SectorOf
  <2> QED BY <1>2, <1>3, <2>1, PutSector
<1>6. Reading(o.s, o.m, db) /\ Writing("idle", o.s, o.m, o.t, db)
  <2>1. Reading(w.s, w.m, db) /\ Writing("idle", w.s, w.m, w.t, db)
    BY DEF WorkOK
  <2> QED BY <1>1, <1>4, <2>1 DEF Reading, Writing
<1>7. WorkOK(o)
  BY <1>1, <1>2, <1>3, <1>4, <1>5, <1>6 DEF WorkOK
<1> QED BY <1>1, <1>4, <1>7 DEF o

(* A record that follows those of the transaction.                         *)
LEMMA PutBehind ==
    ASSUME NEW s \in Seq(Sectors), NEW k \in 1 .. Len(s), NEW e \in Sectors
    PROVE  /\ Put(s, k + 1, e) \in Seq(Sectors) /\ Put(s, k + 1, e)[1] = s[1]
           /\ Len(Put(s, k + 1, e)) \in Nat
           /\ Len(Put(s, k + 1, e)) >= Len(s) /\ Len(Put(s, k + 1, e)) >= k + 1
<1> DEFINE n == k + 1
           x == Put(s, n, e)
<1>1. Len(s) \in Nat
  BY SectorOf
<1>2. n \in Nat /\ n >= 1 /\ n <= Len(s) + 1 /\ n # 1 /\ Len(s) >= 1
  BY <1>1
<1> HIDE DEF n
<1>3. /\ x \in Seq(Sectors) /\ Len(x) \in Nat /\ Len(x) >= Len(s) /\ Len(x) >= n
      /\ Len(s) >= 1 /\ n # 1 => x[1] = s[1]
  BY <1>2, PutSector
<1> HIDE DEF x
<1>4. x[1] = s[1]
  BY <1>2, <1>3
<1> QED BY <1>3, <1>4 DEF n, x

LEMMA JournalledOK ==
    ASSUME NEW w, WorkOK(w), w.s # WRITER_LOCKED, setting \in Settings,
           NEW p \in Pages, p \in DOMAIN w.m.cache
    PROVE  LET a == PageJournalled(w, p)
           IN  /\ WorkOK(a) /\ a.m.cache = w.m.cache /\ a.s = w.s /\ a.t.orig = w.t.orig
               /\ a.m.dbSize = w.m.dbSize
<1> DEFINE a == PageJournalled(w, p)
           r == Record(p, w.m.cache[p], w.t)
           t == [w.t EXCEPT !.off = @ + 1, !.nRec = @ + 1, !.inJournal = @ \cup {p}]
           m == [w.m EXCEPT !.needSync = @ \cup {p}]
<1>1. a.j = Put(w.j, w.t.off + 1, r) /\ a.t = t /\ a.m = m /\ a.s = w.s
  BY DEF PageJournalled
<1>2. w.t \in TxType /\ w.j \in Seq(Sectors) /\ CacheOK(w.m)
  BY DEF WorkOK
<1>3. r \in Sectors
  <2>1. w.m.cache[p] \in Contents
    BY <1>2, MemIs
  <2> QED BY <1>2, <2>1, SectorsMade
<1>4. /\ t \in TxType /\ t.off = w.t.off + 1 /\ t.hdr = w.t.hdr /\ t.orig = w.t.orig
      /\ t.job = w.t.job /\ t.left = w.t.left
  BY <1>2, Counting
<1>5. /\ DOMAIN m = DOMAIN w.m /\ m.cache = w.m.cache /\ m.dirty = w.m.dirty
      /\ m.needSync = w.m.needSync \cup {p} /\ m.fileVers = w.m.fileVers /\ m.dbSize = w.m.dbSize
  BY <1>2, MemIs DEF MemFields
<1>6. m = [y \in DOMAIN m |-> m[y]]
  OBVIOUS
<1> HIDE DEF a, r, t, m
<1>7. CacheOK(m)
  BY <1>2, <1>5, <1>6, MemIs, CacheOf
<1>8. /\ a.j \in Seq(Sectors) /\ a.j[1] = w.j[1] /\ Len(a.j) >= 1 /\ t.off \in 1 .. Len(a.j)
  <2>1. Len(w.j) \in Nat /\ w.t.off \in 1 .. Len(w.j) /\ Len(w.j) >= 1
    BY <1>2, SectorOf DEF WorkOK
  <2>2. w.t.off + 1 \in Nat /\ w.t.off + 1 >= 1 /\ w.t.off + 1 <= Len(w.j) + 1 /\ w.t.off + 1 # 1
    BY <2>1
  <2>3. /\ a.j \in Seq(Sectors) /\ a.j[1] = w.j[1]
        /\ Len(a.j) \in Nat /\ Len(a.j) >= Len(w.j) /\ Len(a.j) >= w.t.off + 1
    BY <1>1, <1>2, <1>3, <2>1, PutBehind
  <2> QED BY <1>4, <2>1, <2>2, <2>3
<1>9. Reading(a.s, a.m, db) /\ Writing("idle", a.s, a.m, a.t, db)
  <2>1. Reading(w.s, w.m, db) /\ Writing("idle", w.s, w.m, w.t, db)
    BY DEF WorkOK
  <2> QED BY <1>1, <1>4, <1>5, <2>1 DEF Reading, Writing
<1>10. WorkOK(a)
  <2>1. /\ w.s \in {WRITER_LOCKED, WRITER_CACHEMOD, WRITER_DBMOD}
        /\ w.j[1].pg = w.t.orig /\ (w.t.hdr # 0 => w.j[1].kind = "hdr")
    BY DEF WorkOK
  <2> QED BY <1>1, <1>4, <1>7, <1>8, <1>9, <2>1 DEF WorkOK
<1> QED BY <1>1, <1>4, <1>5, <1>10 DEF a

LEMMA WrittenOK ==
    ASSUME NEW w, WorkOK(w), setting \in Settings, NEW p \in Pages, NEW v \in Contents,
           (p \in DOMAIN w.m.cache /\ p <= w.m.dbSize) \/ p = w.m.dbSize + 1
    PROVE  WorkOK(PageWritten(w, p, v)) /\ PageWritten(w, p, v).s # WRITER_LOCKED
<1> DEFINE o == IF w.s = WRITER_LOCKED THEN JournalOpened(w) ELSE w
           a == IF MustJournal(o, p) THEN PageJournalled(o, p) ELSE o
           appended == p > a.t.orig /\ a.s # WRITER_DBMOD
           f == Put(a.m.cache, p, v)
           N == IF appended THEN a.m.needSync \cup {p} ELSE a.m.needSync
           m == [a.m EXCEPT !.cache = Put(@, p, v),
                            !.dirty = @ \cup {p},
                            !.needSync = IF appended THEN @ \cup {p} ELSE @,
                            !.dbSize = Larger(@, p)]
           x == PageWritten(w, p, v)
<1>1. x.j = a.j /\ x.t = a.t /\ x.m = m /\ x.s = a.s
  BY DEF PageWritten
<1>2. /\ WorkOK(o) /\ o.s # WRITER_LOCKED /\ o.m = w.m
  <2>1. CASE w.s = WRITER_LOCKED
    BY <2>1, OpenedOK
  <2>2. CASE w.s # WRITER_LOCKED
    BY <2>2
  <2> QED BY <2>1, <2>2
<1> HIDE DEF o
<1>3. WorkOK(a) /\ a.s # WRITER_LOCKED /\ a.m.cache = w.m.cache /\ a.m.dbSize = w.m.dbSize
  <2>1. CASE MustJournal(o, p)
    <3>1. p \in DOMAIN o.m.cache
      <4>1. p <= o.t.orig
        BY <2>1 DEF MustJournal
      <4>2. o.t.orig \in Nat /\ o.m.dbSize \in Nat /\ o.t.orig <= o.m.dbSize /\ p \in Nat
        BY <1>2, OrigIs, Bounds DEF Pages
      <4> QED BY <1>2, <4>1, <4>2
    <3> QED BY <1>2, <2>1, <3>1, JournalledOK
  <2>2. CASE ~MustJournal(o, p)
    BY <1>2, <2>2
  <2> QED BY <2>1, <2>2
<1> HIDE DEF a
<1>4. /\ DOMAIN a.m = MemFields /\ DOMAIN a.m.cache \subseteq Pages
      /\ \A q \in DOMAIN a.m.cache : a.m.cache[q] \in Contents
      /\ a.m.dirty \subseteq DOMAIN a.m.cache /\ a.m.needSync \subseteq Pages
      /\ a.m.fileVers \in Contents /\ a.m.dbSize \in 0 .. setting.pages
      /\ CacheOK(a.m)
  BY <1>3, MemIs DEF WorkOK
<1>5. DOMAIN f = DOMAIN a.m.cache \cup {p} /\ \A q \in DOMAIN f : f[q] \in Contents
  BY <1>4, CachePut
<1>6. /\ DOMAIN m = DOMAIN a.m /\ m.cache = f /\ m.dirty = a.m.dirty \cup {p} /\ m.needSync = N
      /\ m.fileVers = a.m.fileVers /\ m.dbSize = Larger(a.m.dbSize, p)
  <2> HIDE DEF f, appended
  <2> QED BY <1>4 DEF MemFields, f
<1>7. m = [y \in DOMAIN m |-> m[y]]
  OBVIOUS
<1>8. N \subseteq Pages
  BY <1>4
<1> HIDE DEF m, f, appended, N
<1>9. /\ m.dbSize \in Pages /\ m.dbSize \in 0 .. setting.pages /\ m.dbSize >= a.m.dbSize
      /\ \A q \in 1 .. m.dbSize : q \in 1 .. a.m.dbSize \/ q = p
  <2>1. /\ a.m.dbSize \in Nat /\ a.m.dbSize >= 1 /\ a.m.dbSize <= setting.pages /\ setting.pages \in Nat
        /\ p \in Nat /\ p >= 1 /\ p <= setting.pages /\ p <= a.m.dbSize + 1
    <3>1. a.m.dbSize \in Pages /\ setting.pages \in Nat
      BY <1>3, OrigIs
    <3>2. p <= a.m.dbSize + 1
      <4>1. CASE p <= w.m.dbSize
        BY <1>3, <3>1, <4>1, Bounds DEF Pages
      <4>2. CASE p = w.m.dbSize + 1
        BY <1>3, <3>1, <4>2 DEF Pages
      <4> QED BY <4>1, <4>2
    <3> QED BY <3>1, <3>2 DEF Pages
  <2> QED BY <1>6, <2>1 DEF Larger, Pages
<1>10. CacheOK(m)
  <2>1. DOMAIN f \subseteq Pages /\ m.dirty \subseteq DOMAIN f
    BY <1>4, <1>5, <1>6
  <2> QED BY <1>4, <1>5, <1>6, <1>7, <1>8, <1>9, <2>1, CacheOf
<1>11. Reading(a.s, m, db)
  <2>1. Reading(a.s, a.m, db) /\ a.s \in READER .. WRITER_FINISHED
    BY <1>3 DEF WorkOK
  <2>2. 1 \in DOMAIN a.m.cache /\ \A q \in 1 .. a.m.dbSize : q \in a.m.dirty \/ q <= Len(db)
    BY <2>1 DEF Reading
  <2> QED BY <1>5, <1>6, <1>9, <2>2 DEF Reading
<1>12. Writing("idle", a.s, m, a.t, db)
  <2>1. Writing("idle", a.s, a.m, a.t, db) /\ a.s \in {WRITER_CACHEMOD, WRITER_DBMOD}
    BY <1>3 DEF WorkOK
  <2>2. a.t.orig \in 1 .. m.dbSize
    <3>1. a.m.dbSize \in Nat /\ a.t.orig \in 1 .. a.m.dbSize
      BY <1>3, <2>1, OrigIs DEF Writing
    <3>2. m.dbSize \in Nat
      BY <1>9
    <3> QED BY <1>9, <3>1, <3>2
  <2> QED BY <1>6, <2>1, <2>2 DEF Writing
<1> HIDE DEF x
<1>13. WorkOK(x)
  <2>1. /\ a.j \in Seq(Sectors) /\ a.t \in TxType
        /\ a.s \in {WRITER_CACHEMOD, WRITER_DBMOD}
        /\ Len(a.j) >= 1 /\ a.j[1].pg = a.t.orig
        /\ a.t.off \in 1 .. Len(a.j)
        /\ a.t.hdr # 0 => a.j[1].kind = "hdr"
    BY <1>3 DEF WorkOK
  <2> QED BY <1>1, <1>10, <1>11, <1>12, <2>1 DEF WorkOK
<1> QED BY <1>1, <1>3, <1>13 DEF x

(* The outcome of a page write, at step l of the call.                     *)
LEMMA WorkKeeps ==
    ASSUME TInv, NEW c \in Conns, NEW w, WorkOK(w), w.s # WRITER_LOCKED, DoWork(c, w),
           eState[c] \in WRITER_LOCKED .. WRITER_DBMOD,
           NEW t \in TxType, SetTx(c, t),
           t.orig = w.t.orig, t.off = w.t.off, t.hdr = w.t.hdr,
           t.job = "commit" \/ (t.job = w.t.job /\ t.left = w.t.left),
           pc'[c] \in {"idle", "sync"}
    PROVE  Keeps(c)
<1>1. /\ jrnl' = [exists |-> TRUE, data |-> w.j] /\ jSame' = (jSame /\ jrnl.exists)
      /\ mem' = [mem EXCEPT ![c] = w.m] /\ eState'[c] = w.s /\ tx' = [tx EXCEPT ![c] = t]
      /\ UNCHANGED <<db, dbDisk, jDisk, eLock, txns, setting>>
  BY DEF DoWork, JournalIs, TInv, IInv, ControlTypeOK
<1>2. /\ w.j \in Seq(Sectors) /\ CacheOK(w.m) /\ w.s \in {WRITER_CACHEMOD, WRITER_DBMOD}
      /\ Reading(w.s, w.m, db) /\ Writing("idle", w.s, w.m, w.t, db)
      /\ Len(w.j) >= 1 /\ w.j[1].pg = w.t.orig
      /\ w.t.off \in 1 .. Len(w.j)
      /\ w.t.hdr # 0 => w.j[1].kind = "hdr"
  BY DEF WorkOK
<1>3. FilesOK'
  <2>1. FilesOK
    BY Parts
  <2>2. jSame' \in BOOLEAN /\ jrnl' \in [exists : BOOLEAN, data : Seq(Sectors)]
    BY <1>1, <1>2
  <2> QED BY <1>1, <2>1, <2>2 DEF FilesOK, DbOK, Sectors, Pages
<1>4. Reading(eState'[c], w.m, db')
  BY <1>1, <1>2
<1>5. Writing(pc'[c], eState'[c], w.m, t, db')
  BY <1>1, <1>2 DEF Writing
<1>6. Journalling(pc'[c], eState'[c], t, jrnl')
  BY <1>1, <1>2, SectorOf DEF Journalling
<1>7. Committed(pc'[c], eState'[c], t, db', dbDisk', jrnl', jDisk', jSame')
  BY <1>1, <1>2, Unfinished
<1>8. eLock[c] >= RESERVED_LOCK
  BY Parts DEF Fits
<1>9. txns' \in Nat /\ setting' = setting
  BY <1>1, SameMem
<1> QED BY <1>1, <1>2, <1>3, <1>4, <1>5, <1>6, <1>7, <1>8, <1>9, StepKeeps

LEMMA WriteKeeps ==
    ASSUME TInv, NEW c \in Conns, NEW p \in Pages, Write(c, p)
    PROVE  Keeps(c)
<1> DEFINE v == IF p = 1 THEN mem[c].cache[1] ELSE tx[c].stamp
           w == PageWritten(Work(c), p, v)
<1>1. /\ pc[c] = "idle" /\ eState[c] \in WRITER_LOCKED .. WRITER_DBMOD
      /\ (p \in DOMAIN mem[c].cache /\ p <= mem[c].dbSize) \/ p = mem[c].dbSize + 1
      /\ DoWork(c, w) /\ SetTx(c, w.t) /\ pc'[c] = "idle"
  BY DEF Write, Cached
<1>2. v \in Contents
  <2>1. 1 \in DOMAIN mem[c].cache /\ \A q \in DOMAIN mem[c].cache : mem[c].cache[q] \in Contents
    BY <1>1, Parts, MemIs DEF Reading
  <2>2. tx[c].stamp \in Nat
    BY Parts DEF TxType
  <2> QED BY <2>1, <2>2 DEF Contents
<1>3. WorkOK(Work(c)) /\ Work(c).m = mem[c]
  BY <1>1, WorkIs DEF Work
<1> HIDE DEF v
<1>4. WorkOK(w) /\ w.s # WRITER_LOCKED
  BY <1>1, <1>2, <1>3, WrittenOK, Parts
<1> HIDE DEF w
<1>5. w.t \in TxType
  BY <1>4 DEF WorkOK
<1> QED BY <1>1, <1>4, <1>5, WorkKeeps

LEMMA CommitTx ==
    ASSUME NEW t \in TxType
    PROVE  LET u == [t EXCEPT !.changeCountDone = TRUE, !.job = "commit"]
           IN  /\ u \in TxType /\ u.orig = t.orig /\ u.off = t.off /\ u.hdr = t.hdr
               /\ u.job = "commit"
BY DEF TxType

LEMMA CommitPhaseOneKeeps ==
    ASSUME TInv, NEW c \in Conns, CommitPhaseOne(c)
    PROVE  Keeps(c)
<1> DEFINE v == mem[c].fileVers + 1
           w == IF CounterDone(c) THEN Work(c) ELSE PageWritten(Work(c), 1, v)
           t == [w.t EXCEPT !.changeCountDone = TRUE, !.job = "commit"]
<1>1. /\ pc[c] = "idle" /\ eState[c] \in {WRITER_CACHEMOD, WRITER_DBMOD}
      /\ DoWork(c, w) /\ SetTx(c, t) /\ pc'[c] = "sync"
  BY DEF CommitPhaseOne, TInv, IInv, ControlTypeOK
<1>2. v \in Contents
  <2>1. mem[c].fileVers \in Contents
    BY Parts, MemIs
  <2> QED BY <2>1 DEF Contents, Torn
<1>3. WorkOK(Work(c)) /\ Work(c).m = mem[c] /\ Work(c).s = eState[c]
  BY <1>1, WorkIs DEF Work
<1>4. 1 \in DOMAIN mem[c].cache /\ 1 <= mem[c].dbSize /\ 1 \in Pages
  <2>1. 1 \in DOMAIN mem[c].cache /\ mem[c].dbSize \in Pages
    BY <1>1, Parts DEF Reading
  <2> QED BY <2>1, Bounds, Parts DEF Pages
<1> HIDE DEF v
<1>5. WorkOK(w) /\ w.s # WRITER_LOCKED
  <2>1. WorkOK(PageWritten(Work(c), 1, v)) /\ PageWritten(Work(c), 1, v).s # WRITER_LOCKED
    BY <1>2, <1>3, <1>4, WrittenOK, Parts
  <2> QED BY <1>1, <1>3, <2>1
<1> HIDE DEF w
<1>6. w.t \in TxType
  BY <1>5 DEF WorkOK
<1>7. t \in TxType /\ t.orig = w.t.orig /\ t.off = w.t.off /\ t.hdr = w.t.hdr /\ t.job = "commit"
  BY <1>6, CommitTx
<1> HIDE DEF t
<1>8. /\ eState[c] \in WRITER_LOCKED .. WRITER_DBMOD /\ pc'[c] \in {"idle", "sync"}
      /\ DoWork(c, w) /\ tx' = [tx EXCEPT ![c] = t]
  BY <1>1
<1> QED BY <1>5, <1>7, <1>8, WorkKeeps

-----------------------------------------------------------------------------
(* The journal is synced and the pages are written.                        *)

LEMMA JournalFiles ==
    ASSUME FilesOK, UNCHANGED <<db, dbDisk, setting>>,
           jrnl' \in [exists : BOOLEAN, data : Seq(Sectors)],
           jDisk' \in {jDisk, jrnl, jrnl'}, jSame' \in BOOLEAN
    PROVE  FilesOK'
BY DEF FilesOK, DbOK, Sectors, Pages

LEMMA DbFiles ==
    ASSUME FilesOK, UNCHANGED <<jrnl, jDisk, jSame, setting>>, DbOK(db'), dbDisk' \in {dbDisk, db, db'}
    PROVE  FilesOK'
<1>1. db' \in Seq(Contents) /\ Len(db') \in Pages
  BY DEF DbOK
<1>2. dbDisk' \in Seq(Contents) /\ Len(dbDisk') \in Pages
  BY <1>1 DEF FilesOK, DbOK
<1> QED BY <1>1, <1>2 DEF FilesOK, DbOK, Sectors, Pages

LEMMA Flushed ==
    ASSUME TInv, NEW c \in Conns, pc[c] \in {"zeroNext", "count", "journalSync", "write"}
    PROVE  /\ eState[c] \in {WRITER_CACHEMOD, WRITER_DBMOD} /\ eLock[c] = EXCLUSIVE_LOCK
           /\ jrnl.exists \in BOOLEAN /\ jrnl.data \in Seq(Sectors) /\ Len(jrnl.data) \in Nat
           /\ Len(jrnl.data) >= 1 /\ jrnl.data[1].pg = tx[c].orig
           /\ tx[c].off \in Nat /\ tx[c].off >= 1 /\ tx[c].off <= Len(jrnl.data)
           /\ tx[c].hdr # 0 \/ pc[c] = "journalSync" => jrnl.data[1].kind = "hdr"
           /\ tx[c].orig \in Pages /\ tx[c].hdr \in Nat /\ tx[c].nRec \in Nat
<1>1. eState[c] \in {WRITER_CACHEMOD, WRITER_DBMOD} /\ eLock[c] = EXCLUSIVE_LOCK
  BY Parts DEF Fits, Flushing
<1>2. Journalling(pc[c], eState[c], tx[c], jrnl)
  BY Parts
<1>3. tx[c] \in TxType /\ jrnl.exists \in BOOLEAN /\ jrnl.data \in Seq(Sectors)
  BY Parts DEF FilesOK
<1>4. tx[c].orig \in Pages
  <2>1. tx[c].orig \in 1 .. mem[c].dbSize /\ mem[c].dbSize \in Pages /\ setting.pages \in Nat
    BY <1>1, Parts, Bounds DEF Writing, Reading
  <2> QED BY <2>1 DEF Pages
<1>5. tx[c].off \in Nat /\ tx[c].hdr \in Nat /\ tx[c].nRec \in Nat /\ Len(jrnl.data) \in Nat
  BY <1>3, SectorOf DEF TxType
<1>6. /\ Len(jrnl.data) >= 1 /\ jrnl.data[1].pg = tx[c].orig
      /\ tx[c].off >= 1 /\ tx[c].off <= Len(jrnl.data)
      /\ tx[c].hdr # 0 \/ pc[c] = "journalSync" => jrnl.data[1].kind = "hdr"
  BY <1>1, <1>2 DEF Journalling
<1> QED BY <1>1, <1>3, <1>4, <1>5, <1>6

LEMMA SectorSet ==
    ASSUME NEW s \in Seq(Sectors), NEW n \in Nat, NEW e \in Sectors
    PROVE  LET x == [s EXCEPT ![n] = e]
           IN  /\ x \in Seq(Sectors) /\ Len(x) = Len(s)
               /\ Len(s) >= 1 => x[1] = IF n = 1 THEN e ELSE s[1]
<1> DEFINE x == [s EXCEPT ![n] = e]
<1>1. Len(s) \in Nat /\ DOMAIN s = 1 .. Len(s) /\ \A i \in 1 .. Len(s) : s[i] \in Sectors
  BY SectorOf
<1>2. x \in [1 .. Len(s) -> Sectors]
  BY <1>1
<1>3. x \in Seq(Sectors) /\ Len(x) = Len(s)
  BY <1>1, <1>2, SeqDef, LenProperties
<1>4. Len(s) >= 1 => x[1] = IF n = 1 THEN e ELSE s[1]
  BY <1>1
<1> QED BY <1>3, <1>4

LEMMA ZeroedIs ==
    ASSUME TInv, NEW c \in Conns, pc[c] = "zeroNext"
    PROVE  /\ NextZeroed(c) \in Seq(Sectors) /\ Len(NextZeroed(c)) = Len(jrnl.data)
           /\ NextZeroed(c)[1] = jrnl.data[1]
<1> DEFINE s == jrnl.data
           n == tx[c].off
           e == [s[n + 1] EXCEPT !.kind = "zero"]
<1>1. s \in Seq(Sectors) /\ n \in Nat /\ n >= 1 /\ Len(s) \in Nat /\ Len(s) >= 1
  BY Flushed
<1>2. CASE StaleHeaderFollows(s, n)
  <2>1. NextZeroed(c) = [s EXCEPT ![n + 1] = e]
    BY <1>2 DEF NextZeroed
  <2>2. e \in Sectors
    <3>1. s[n + 1] \in Sectors
      BY <1>1, <1>2, SectorOf DEF StaleHeaderFollows
    <3> QED BY <3>1 DEF Sectors, Sector
  <2> DEFINE k == n + 1
  <2>3. k \in Nat /\ k # 1
    BY <1>1
  <2>4. NextZeroed(c) = [s EXCEPT ![k] = e]
    BY <2>1
  <2> HIDE DEF s, n, e, k
  <2>5. LET x == [s EXCEPT ![k] = e]
        IN  x \in Seq(Sectors) /\ Len(x) = Len(s) /\ (Len(s) >= 1 => x[1] = IF k = 1 THEN e ELSE s[1])
    BY <1>1, <2>2, <2>3, SectorSet
  <2> QED BY <1>1, <2>3, <2>4, <2>5 DEF s
<1>3. CASE ~StaleHeaderFollows(s, n)
  BY <1>1, <1>3 DEF NextZeroed
<1> QED BY <1>2, <1>3

LEMMA CountedIs ==
    ASSUME TInv, NEW c \in Conns, pc[c] = "count"
    PROVE  /\ Counted(c) \in Seq(Sectors) /\ Len(Counted(c)) = Len(jrnl.data)
           /\ Counted(c)[1].pg = tx[c].orig /\ Counted(c)[1].kind = "hdr"
<1> DEFINE s == jrnl.data
           k == tx[c].hdr + 1
           h == Header(TRUE, tx[c].nRec, tx[c])
<1>1. /\ s \in Seq(Sectors) /\ k \in Nat /\ Len(s) \in Nat /\ Len(s) >= 1
      /\ tx[c].orig \in Pages /\ tx[c].nRec \in Nat \cup {ToEndOfFile} /\ tx[c] \in TxType
      /\ s[1].pg = tx[c].orig
      /\ k # 1 => s[1].kind = "hdr"
  BY Flushed, Parts
<1>2. h \in Sectors /\ h.pg = tx[c].orig
  BY <1>1, SectorsMade
<1>3. h.kind = "hdr"
  BY DEF Header
<1>4. Counted(c) = [s EXCEPT ![k] = h]
  BY DEF Counted
<1> HIDE DEF s, k, h
<1>5. LET x == [s EXCEPT ![k] = h]
      IN  x \in Seq(Sectors) /\ Len(x) = Len(s) /\ (Len(s) >= 1 => x[1] = IF k = 1 THEN h ELSE s[1])
  BY <1>1, <1>2, SectorSet
<1>6. Len(jrnl.data) = Len(s)
  BY DEF s
<1> QED BY <1>1, <1>2, <1>3, <1>4, <1>5, <1>6

LEMMA ZeroNextKeeps ==
    ASSUME TInv, NEW c \in Conns, ZeroNext(c)
    PROVE  Keeps(c)
<1>1. /\ pc[c] = "zeroNext" /\ pc'[c] = "count" /\ eState'[c] = eState[c]
      /\ jrnl' = [exists |-> TRUE, data |-> NextZeroed(c)]
      /\ jDisk' \in {jDisk, jrnl'} /\ jSame' \in {jSame, TRUE}
      /\ UNCHANGED <<db, dbDisk, mem, tx, txns, setting>>
  BY DEF ZeroNext, JournalIs, JournalSynced, TInv, IInv, ControlTypeOK
<1>2. FilesOK'
  <2>1. FilesOK /\ jSame \in BOOLEAN
    BY Parts DEF FilesOK
  <2>2. jrnl' \in [exists : BOOLEAN, data : Seq(Sectors)]
    BY <1>1, ZeroedIs
  <2>3. jDisk' \in {jDisk, jrnl, jrnl'} /\ jSame' \in BOOLEAN /\ UNCHANGED <<db, dbDisk, setting>>
    BY <1>1, <2>1
  <2> QED BY <2>1, <2>2, <2>3, JournalFiles
<1>3. Journalling(pc'[c], eState'[c], tx[c], jrnl')
  BY <1>1, ZeroedIs, Flushed DEF Journalling
<1>4. Reading(eState'[c], mem[c], db') /\ Writing(pc'[c], eState'[c], mem[c], tx[c], db')
  BY <1>1, Parts DEF Reading, Writing
<1>5. Committed(pc'[c], eState'[c], tx[c], db', dbDisk', jrnl', jDisk', jSame')
  BY <1>1, Flushed, Unfinished
<1>6. /\ mem' = [mem EXCEPT ![c] = mem[c]] /\ tx' = [tx EXCEPT ![c] = tx[c]] /\ txns' \in Nat
      /\ CacheOK(mem[c]) /\ tx[c] \in TxType /\ eLock[c] >= RESERVED_LOCK /\ setting' = setting
  BY <1>1, SameMem, Parts, Flushed
<1> QED BY <1>2, <1>3, <1>4, <1>5, <1>6, StepKeeps

LEMMA WriteCountKeeps ==
    ASSUME TInv, NEW c \in Conns, WriteCount(c)
    PROVE  Keeps(c)
<1>1. /\ pc[c] = "count" /\ pc'[c] = "journalSync" /\ eState'[c] = eState[c]
      /\ jrnl' = [exists |-> TRUE, data |-> Counted(c)]
      /\ UNCHANGED <<db, dbDisk, jDisk, jSame, mem, tx, txns, setting>>
  BY DEF WriteCount, JournalIs, TInv, IInv, ControlTypeOK
<1>2. FilesOK'
  <2>1. FilesOK /\ jSame \in BOOLEAN
    BY Parts DEF FilesOK
  <2>2. jrnl' \in [exists : BOOLEAN, data : Seq(Sectors)]
    BY <1>1, CountedIs
  <2>3. jDisk' \in {jDisk, jrnl, jrnl'} /\ jSame' \in BOOLEAN /\ UNCHANGED <<db, dbDisk, setting>>
    BY <1>1, <2>1
  <2> QED BY <2>1, <2>2, <2>3, JournalFiles
<1>3. Journalling(pc'[c], eState'[c], tx[c], jrnl')
  BY <1>1, CountedIs, Flushed DEF Journalling
<1>4. Reading(eState'[c], mem[c], db') /\ Writing(pc'[c], eState'[c], mem[c], tx[c], db')
  BY <1>1, Parts DEF Reading, Writing
<1>5. Committed(pc'[c], eState'[c], tx[c], db', dbDisk', jrnl', jDisk', jSame')
  BY <1>1, Flushed, Unfinished
<1>6. /\ mem' = [mem EXCEPT ![c] = mem[c]] /\ tx' = [tx EXCEPT ![c] = tx[c]] /\ txns' \in Nat
      /\ CacheOK(mem[c]) /\ tx[c] \in TxType /\ eLock[c] >= RESERVED_LOCK /\ setting' = setting
  BY <1>1, SameMem, Parts, Flushed
<1> QED BY <1>2, <1>3, <1>4, <1>5, <1>6, StepKeeps

(* Pages need no sync of the journal any more.                             *)
LEMMA NeedSyncCleared ==
    ASSUME NEW m, CacheOK(m)
    PROVE  LET x == [m EXCEPT !.needSync = {}]
           IN  /\ CacheOK(x) /\ x.cache = m.cache /\ x.dirty = m.dirty /\ x.dbSize = m.dbSize
<1> DEFINE x == [m EXCEPT !.needSync = {}]
<1>1. /\ DOMAIN x = DOMAIN m /\ x.cache = m.cache /\ x.dirty = m.dirty /\ x.needSync = {}
      /\ x.fileVers = m.fileVers /\ x.dbSize = m.dbSize
  BY MemIs DEF MemFields
<1>2. x = [y \in DOMAIN x |-> x[y]]
  OBVIOUS
<1> HIDE DEF x
<1>3. CacheOK(x)
  BY <1>1, <1>2, MemIs, CacheOf
<1> QED BY <1>1, <1>3 DEF x

LEMMA DbMayChangeIs ==
    ASSUME TInv, NEW c \in Conns, DbMayChange(c), eState[c] \in {WRITER_CACHEMOD, WRITER_DBMOD},
           NEW t, t.orig = tx[c].orig, t.job = tx[c].job, t.left = tx[c].left, db' = db
    PROVE  LET m == [mem[c] EXCEPT !.needSync = {}]
           IN  /\ mem' = [mem EXCEPT ![c] = m] /\ CacheOK(m)
               /\ eState'[c] = WRITER_DBMOD /\ pc'[c] = "write"
               /\ Reading(eState'[c], m, db') /\ Writing(pc'[c], eState'[c], m, t, db')
<1> DEFINE m == [mem[c] EXCEPT !.needSync = {}]
<1>1. mem' = [mem EXCEPT ![c] = m] /\ eState'[c] = WRITER_DBMOD /\ pc'[c] = "write"
  BY DEF DbMayChange, TInv, IInv, ControlTypeOK
<1>2. CacheOK(m) /\ m.cache = mem[c].cache /\ m.dirty = mem[c].dirty /\ m.dbSize = mem[c].dbSize
  BY Parts, NeedSyncCleared
<1> HIDE DEF m
<1>3. Reading(eState[c], mem[c], db) /\ Writing(pc[c], eState[c], mem[c], tx[c], db)
  BY Parts
<1>4. Reading(WRITER_DBMOD, m, db) /\ Writing("write", WRITER_DBMOD, m, t, db)
  BY <1>2, <1>3 DEF Reading, Writing
<1> QED BY <1>1, <1>2, <1>4 DEF m

LEMMA SkipSyncKeeps ==
    ASSUME TInv, NEW c \in Conns, SkipSync(c)
    PROVE  Keeps(c)
<1> DEFINE m == [mem[c] EXCEPT !.needSync = {}]
<1>1. pc[c] = "zeroNext" /\ DbMayChange(c) /\ UNCHANGED <<files, eLock, tx, txns, setting>> /\ db' = db
  BY DEF SkipSync, files
<1>2. eState[c] \in {WRITER_CACHEMOD, WRITER_DBMOD}
  BY <1>1, Flushed
<1>3. /\ mem' = [mem EXCEPT ![c] = m] /\ CacheOK(m)
      /\ eState'[c] = WRITER_DBMOD /\ pc'[c] = "write"
      /\ Reading(eState'[c], m, db') /\ Writing(pc'[c], eState'[c], m, tx[c], db')
  BY <1>1, <1>2, DbMayChangeIs
<1> HIDE DEF m
<1>4. Journalling(pc'[c], eState'[c], tx[c], jrnl)
  BY <1>1, <1>3, Flushed DEF Journalling
<1>5. Committed(pc'[c], eState'[c], tx[c], db, dbDisk, jrnl, jDisk, jSame)
  BY <1>3, Unfinished
<1>6. /\ tx' = [tx EXCEPT ![c] = tx[c]] /\ txns' \in Nat /\ tx[c] \in TxType
      /\ UNCHANGED <<files, setting>>
  BY <1>1, SameMem, Parts
<1>7. Reading(eState'[c], m, db) /\ Writing(pc'[c], eState'[c], m, tx[c], db)
  BY <1>1, <1>3
<1> QED BY <1>3, <1>4, <1>5, <1>6, <1>7, MemKeeps

LEMMA TxOf ==
    ASSUME NEW t \in TxType, NEW u, u = [y \in DOMAIN u |-> u[y]], DOMAIN u = DOMAIN t,
           u.orig \in Nat, u.stamp \in Nat, u.inJournal \in SUBSET Pages,
           u.changeCountDone \in BOOLEAN, u.off \in Nat, u.hdr \in Nat, u.nRec \in Nat,
           u.left \in Nat, u.nonce \in Nat,
           u.job \in {"none", "spill", "commit", "rollback", "hot"}
    PROVE  u \in TxType
<1>1. u = [orig |-> u.orig, stamp |-> u.stamp, inJournal |-> u.inJournal,
           changeCountDone |-> u.changeCountDone, off |-> u.off, hdr |-> u.hdr, nRec |-> u.nRec,
           left |-> u.left, nonce |-> u.nonce, job |-> u.job]
  BY JobOf
<1> QED BY <1>1 DEF TxType

LEMMA SegmentTx ==
    ASSUME NEW t \in TxType
    PROVE  /\ LET u == [t EXCEPT !.hdr = t.off, !.off = t.off + 1, !.nRec = 0]
              IN  /\ u \in TxType /\ u.orig = t.orig /\ u.off = t.off + 1 /\ u.hdr = t.off
                  /\ u.job = t.job /\ u.left = t.left
           /\ LET u == [t EXCEPT !.hdr = t.off]
              IN  /\ u \in TxType /\ u.orig = t.orig /\ u.off = t.off /\ u.hdr = t.off
                  /\ u.job = t.job /\ u.left = t.left
<1> DEFINE u == [t EXCEPT !.hdr = t.off, !.off = t.off + 1, !.nRec = 0]
<1>1. /\ u.off = t.off + 1 /\ u.hdr = t.off /\ u.orig = t.orig /\ u.job = t.job /\ u.left = t.left
      /\ u.nRec = 0 /\ u.inJournal = t.inJournal
      /\ u.stamp = t.stamp /\ u.changeCountDone = t.changeCountDone /\ u.nonce = t.nonce
  BY DEF TxType
<1>2. u = [y \in DOMAIN u |-> u[y]] /\ DOMAIN u = DOMAIN t
  OBVIOUS
<1>3. u \in TxType
  <2>1. /\ t.orig \in Nat /\ t.stamp \in Nat /\ t.inJournal \in SUBSET Pages
        /\ t.changeCountDone \in BOOLEAN /\ t.off \in Nat /\ t.off + 1 \in Nat /\ t.left \in Nat
        /\ t.nonce \in Nat /\ t.job \in {"none", "spill", "commit", "rollback", "hot"}
    BY DEF TxType
  <2> HIDE DEF u
  <2> QED BY <1>1, <1>2, <2>1, TxOf
<1>4. LET v == [t EXCEPT !.hdr = t.off]
      IN  /\ v \in TxType /\ v.orig = t.orig /\ v.off = t.off /\ v.hdr = t.off
          /\ v.job = t.job /\ v.left = t.left
  BY DEF TxType
<1> QED BY <1>1, <1>3, <1>4

LEMMA SyncJournalKeeps ==
    ASSUME TInv, NEW c \in Conns, SyncJournal(c)
    PROVE  Keeps(c)
<1> DEFINE m == [mem[c] EXCEPT !.needSync = {}]
           n == tx[c].off
           s == Put(jrnl.data, n + 1, Header(FALSE, 0, tx[c]))
           t == IF tx[c].job = "spill" THEN [tx[c] EXCEPT !.hdr = n, !.off = n + 1, !.nRec = 0]
                                       ELSE [tx[c] EXCEPT !.hdr = n]
<1>1. /\ pc[c] = "journalSync" /\ DbMayChange(c) /\ db' = db /\ dbDisk' = dbDisk
      /\ jDisk' = jrnl /\ jSame' = TRUE
      /\ tx' = [tx EXCEPT ![c] = t] /\ txns' = txns /\ setting' = setting
      /\ tx[c].job # "spill" => jrnl' = jrnl
      /\ tx[c].job = "spill" => jrnl' = [exists |-> TRUE, data |-> s]
  BY DEF SyncJournal, SyncsBeforeDb, JournalIs
<1>2. /\ t \in TxType /\ t.orig = tx[c].orig /\ t.job = tx[c].job /\ t.left = tx[c].left
      /\ t.hdr = n /\ t.off = IF tx[c].job = "spill" THEN n + 1 ELSE n
  <2>1. tx[c] \in TxType
    BY Parts
  <2>2. CASE tx[c].job = "spill"
    BY <2>1, <2>2, SegmentTx
  <2>3. CASE tx[c].job # "spill"
    BY <2>1, <2>3, SegmentTx
  <2> QED BY <2>2, <2>3
<1> HIDE DEF t
<1>3. eState[c] \in {WRITER_CACHEMOD, WRITER_DBMOD} /\ eLock[c] >= RESERVED_LOCK
  BY <1>1, Flushed
<1>4. /\ mem' = [mem EXCEPT ![c] = m] /\ CacheOK(m)
      /\ eState'[c] = WRITER_DBMOD /\ pc'[c] = "write"
      /\ Reading(eState'[c], m, db') /\ Writing(pc'[c], eState'[c], m, t, db')
  BY <1>1, <1>2, <1>3, DbMayChangeIs
<1> HIDE DEF m
<1>5. /\ s \in Seq(Sectors) /\ Len(s) \in Nat /\ Len(s) >= n + 1 /\ s[1] = jrnl.data[1]
  <2> DEFINE k == n + 1
             h == Header(FALSE, 0, tx[c])
  <2>1. /\ jrnl.data \in Seq(Sectors) /\ k \in Nat /\ k # 1 /\ k >= 1 /\ k <= Len(jrnl.data) + 1
        /\ Len(jrnl.data) >= 1
    BY <1>1, Flushed
  <2>2. h \in Sectors
    BY <1>1, Flushed, Parts, SectorsMade
  <2>3. s = Put(jrnl.data, k, h)
    OBVIOUS
  <2> HIDE DEF k, h, s
  <2>4. s \in Seq(Sectors) /\ Len(s) \in Nat /\ Len(s) >= k /\ s[1] = jrnl.data[1]
    BY <2>1, <2>2, <2>3, PutSector
  <2> QED BY <2>4 DEF k
<1> HIDE DEF s
<1>6. FilesOK'
  <2>1. FilesOK /\ jrnl' \in [exists : BOOLEAN, data : Seq(Sectors)]
    <3>1. FilesOK /\ jrnl \in [exists : BOOLEAN, data : Seq(Sectors)]
      BY Parts DEF FilesOK
    <3>2. CASE tx[c].job = "spill"
      <4>1. jrnl' = [exists |-> TRUE, data |-> s] /\ s \in Seq(Sectors)
        BY <1>1, <1>5, <3>2
      <4>2. jrnl' \in [exists : BOOLEAN, data : Seq(Sectors)]
        BY <4>1
      <4> QED BY <3>1, <4>2
    <3>3. CASE tx[c].job # "spill"
      BY <1>1, <3>1, <3>3
    <3> QED BY <3>2, <3>3
  <2>2. jDisk' \in {jDisk, jrnl, jrnl'} /\ jSame' \in BOOLEAN /\ UNCHANGED <<db, dbDisk, setting>>
    BY <1>1
  <2> QED BY <2>1, <2>2, JournalFiles
<1>7. Journalling(pc'[c], eState'[c], t, jrnl')
  <2>1. /\ Len(jrnl.data) >= 1 /\ jrnl.data[1].pg = tx[c].orig /\ jrnl.data[1].kind = "hdr"
        /\ n \in Nat /\ n >= 1 /\ n <= Len(jrnl.data)
    BY <1>1, Flushed
  <2>2. CASE tx[c].job = "spill"
    BY <1>1, <1>2, <1>4, <1>5, <2>1, <2>2 DEF Journalling
  <2>3. CASE tx[c].job # "spill"
    BY <1>1, <1>2, <1>4, <2>1, <2>3 DEF Journalling
  <2> QED BY <2>2, <2>3
<1>8. Committed(pc'[c], eState'[c], t, db', dbDisk', jrnl', jDisk', jSame')
  BY <1>4, Unfinished
<1>9. txns' \in Nat /\ setting' = setting
  BY <1>1, SameMem
<1> QED BY <1>1, <1>2, <1>3, <1>4, <1>6, <1>7, <1>8, <1>9, StepKeeps

(* The least of the dirty pages.                                           *)
LEMMA Least ==
    ASSUME NEW S, S \subseteq Nat, S # {}
    PROVE  \E p \in S : \A q \in S : p <= q
<1>1. \E p \in S : \A q \in S : <<q, p>> \notin OpToRel(<, Nat)
  BY NatLessThanWellFounded, WFMin
<1>2. \A p, q \in Nat : <<q, p>> \notin OpToRel(<, Nat) => ~(q < p)
  BY Zenon DEF OpToRel
<1>3. \E p \in S : \A q \in S : ~(q < p)
  BY <1>1, <1>2, Zenon
<1> QED BY <1>3

LEMMA LeastOf ==
    ASSUME NEW S, S \subseteq Nat, S # {}
    PROVE  (CHOOSE p \in S : \A q \in S : p <= q) \in S
<1>1. \E p \in S : \A q \in S : p <= q
  BY Least
<1> QED BY <1>1

LEMMA NextOutIs ==
    ASSUME TInv, NEW c \in Conns, pc[c] = "write", tx[c].job = "spill" \/ mem[c].dirty # {}
    PROVE  /\ NextOut(c) \in mem[c].dirty /\ NextOut(c) \in Pages
           /\ ContentOut(c, NextOut(c)) \in Contents
<1>1. /\ mem[c].dirty \subseteq DOMAIN mem[c].cache /\ DOMAIN mem[c].cache \subseteq Pages
      /\ \A p \in DOMAIN mem[c].cache : mem[c].cache[p] \in Contents
      /\ mem[c].fileVers \in Contents
  BY Parts, MemIs
<1>2. NextOut(c) \in mem[c].dirty
  <2>1. CASE tx[c].job = "spill"
    BY <2>1, Parts DEF NextOut, Writing
  <2>2. CASE tx[c].job # "spill"
    <3>1. mem[c].dirty \subseteq Nat
      BY <1>1, Bounds, Parts DEF Pages
    <3> QED BY <2>2, <3>1, LeastOf DEF NextOut
  <2> QED BY <2>1, <2>2
<1>3. mem[c].fileVers + 1 \in Contents
  BY <1>1 DEF Contents, Torn
<1> QED BY <1>1, <1>2, <1>3 DEF ContentOut

LEMMA CacheReplaced ==
    ASSUME NEW f, NEW p \in DOMAIN f, NEW v \in Contents, \A q \in DOMAIN f : f[q] \in Contents
    PROVE  /\ DOMAIN Put(f, p, v) = DOMAIN f
           /\ \A q \in DOMAIN Put(f, p, v) : Put(f, p, v)[q] \in Contents
BY DEF Put

LEMMA PageOutMem ==
    ASSUME NEW m, CacheOK(m), NEW p \in m.dirty, NEW v \in Contents
    PROVE  LET x == [m EXCEPT !.cache = Put(@, p, v), !.dirty = @ \ {p},
                              !.fileVers = IF p = 1 THEN v ELSE @]
           IN  /\ CacheOK(x) /\ x.dirty = m.dirty \ {p} /\ x.dbSize = m.dbSize
               /\ DOMAIN x.cache = DOMAIN m.cache
<1> DEFINE f == Put(m.cache, p, v)
           w == IF p = 1 THEN v ELSE m.fileVers
           x == [m EXCEPT !.cache = f, !.dirty = @ \ {p}, !.fileVers = w]
<1>1. /\ DOMAIN m = MemFields
      /\ DOMAIN m.cache \subseteq Pages /\ \A q \in DOMAIN m.cache : m.cache[q] \in Contents
      /\ m.dirty \subseteq DOMAIN m.cache /\ m.needSync \subseteq Pages
      /\ m.fileVers \in Contents /\ m.dbSize \in 0 .. setting.pages
  BY MemIs
<1>2. p \in Pages /\ p \in DOMAIN m.cache
  BY <1>1
<1>3. DOMAIN f = DOMAIN m.cache /\ \A q \in DOMAIN f : f[q] \in Contents
  BY <1>1, <1>2, CacheReplaced
<1>4. w \in Contents
  BY <1>1
<1> HIDE DEF f, w
<1>5. /\ DOMAIN x = DOMAIN m /\ x.cache = f /\ x.dirty = m.dirty \ {p}
      /\ x.needSync = m.needSync /\ x.fileVers = w /\ x.dbSize = m.dbSize
  BY <1>1 DEF MemFields
<1>6. x = [y \in DOMAIN x |-> x[y]]
  OBVIOUS
<1>7. x = [m EXCEPT !.cache = Put(@, p, v), !.dirty = @ \ {p}, !.fileVers = IF p = 1 THEN v ELSE @]
  BY DEF f, w
<1> HIDE DEF x
<1>8. CacheOK(x)
  BY <1>1, <1>3, <1>4, <1>5, <1>6, CacheOf
<1> QED BY <1>3, <1>5, <1>7, <1>8

LEMMA JobDone ==
    ASSUME NEW t \in TxType
    PROVE  LET u == [t EXCEPT !.job = "none", !.left = 0]
           IN  /\ u \in TxType /\ u.orig = t.orig /\ u.off = t.off /\ u.hdr = t.hdr
               /\ u.job = "none"
BY DEF TxType

LEMMA PageOutKeeps ==
    ASSUME TInv, NEW c \in Conns, PageOut(c)
    PROVE  Keeps(c)
<1> DEFINE p == NextOut(c)
           v == ContentOut(c, p)
           m == [mem[c] EXCEPT !.cache = Put(@, p, v), !.dirty = @ \ {p},
                               !.fileVers = IF p = 1 THEN v ELSE @]
           t == IF tx[c].job = "spill" THEN [tx[c] EXCEPT !.job = "none", !.left = 0] ELSE tx[c]
<1>1. /\ pc[c] = "write" /\ eState'[c] = eState[c] /\ pc'[c] \in {"idle", "write"}
      /\ db' = Stored(p, v) /\ mem' = [mem EXCEPT ![c] = m] /\ tx' = [tx EXCEPT ![c] = t]
      /\ UNCHANGED <<dbDisk, jrnl, jDisk, jSame, txns, setting>>
  <2>1. /\ pc[c] = "write" /\ eState' = eState
        /\ db' = Stored(p, v) /\ mem' = [mem EXCEPT ![c] = m]
        /\ UNCHANGED <<dbDisk, jrnl, jDisk, jSame, txns, setting>>
    BY DEF PageOut
  <2> HIDE DEF p, v, m
  <2>2. tx' = [tx EXCEPT ![c] = t] /\ pc'[c] \in {"idle", "write"}
    BY <2>1, SameMem DEF PageOut, TInv, IInv, ControlTypeOK
  <2> QED BY <2>1, <2>2
<1>2. p \in mem[c].dirty /\ p \in Pages /\ v \in Contents /\ CacheOK(mem[c])
  BY NextOutIs, Parts DEF PageOut
<1> HIDE DEF p, v
<1>3. /\ CacheOK(m) /\ m.dirty = mem[c].dirty \ {p} /\ m.dbSize = mem[c].dbSize
      /\ DOMAIN m.cache = DOMAIN mem[c].cache
  BY <1>2, PageOutMem, ZenonT(40)
<1> HIDE DEF m
<1>4. /\ t \in TxType /\ t.orig = tx[c].orig /\ t.off = tx[c].off /\ t.hdr = tx[c].hdr
      /\ t.job # "spill"
  <2>1. tx[c] \in TxType
    BY Parts
  <2> QED BY <2>1, JobDone
<1> HIDE DEF t
<1>5. DbOK(db') /\ Len(db') >= Len(db) /\ Len(db') >= p /\ Len(db) \in Nat /\ Len(db') \in Nat /\ p \in Nat
  <2>1. DbOK(db) /\ setting \in Settings
    BY Parts DEF FilesOK
  <2>2. DbOK(Stored(p, v)) /\ Len(Stored(p, v)) >= Len(db) /\ Len(Stored(p, v)) >= p
    BY <1>2, <2>1, StoredIs
  <2>3. \A q \in Pages : q \in Nat
    BY <2>1, Bounds DEF Pages
  <2> QED BY <1>1, <1>2, <2>1, <2>2, <2>3 DEF DbOK
<1>6. FilesOK'
  <2>1. FilesOK /\ UNCHANGED <<jrnl, jDisk, jSame, setting>> /\ dbDisk' \in {dbDisk, db, db'}
    BY <1>1, Parts
  <2> QED BY <1>5, <2>1, DbFiles
<1>7. eState[c] \in {WRITER_CACHEMOD, WRITER_DBMOD} /\ eLock[c] >= RESERVED_LOCK
  BY <1>1, Flushed
<1>8. Reading(eState'[c], m, db')
  <2>1. /\ 1 \in DOMAIN mem[c].cache /\ mem[c].dbSize \in Pages
        /\ \A q \in 1 .. mem[c].dbSize : q \in mem[c].dirty \/ q <= Len(db)
    BY <1>7, Parts DEF Reading
  <2>2. \A q \in 1 .. mem[c].dbSize : q \in m.dirty \/ q <= Len(db')
    BY <1>3, <1>5, <2>1
  <2> QED BY <1>3, <2>1, <2>2 DEF Reading
<1>9. Writing(pc'[c], eState'[c], m, t, db')
  <2>1. tx[c].orig \in 1 .. mem[c].dbSize /\ tx[c].orig <= Len(db) /\ tx[c].orig \in Nat
    BY <1>7, Parts DEF Writing, TxType
  <2>2. tx[c].orig <= Len(db')
    BY <1>5, <2>1
  <2> QED BY <1>1, <1>3, <1>4, <1>7, <2>1, <2>2 DEF Writing
<1>10. Journalling(pc'[c], eState'[c], t, jrnl')
  BY <1>1, <1>4, Flushed DEF Journalling
<1>11. Committed(pc'[c], eState'[c], t, db', dbDisk', jrnl', jDisk', jSame')
  BY <1>1, <1>7, Unfinished
<1>12. txns' \in Nat /\ setting' = setting
  BY <1>1, SameMem
<1> QED BY <1>1, <1>3, <1>4, <1>6, <1>7, <1>8, <1>9, <1>10, <1>11, <1>12, StepKeeps

LEMMA SyncDbKeeps ==
    ASSUME TInv, NEW c \in Conns, SyncDb(c)
    PROVE  Keeps(c)
<1> DEFINE t == [tx[c] EXCEPT !.job = "none"]
<1>1. /\ pc[c] = "write" /\ eState'[c] = WRITER_FINISHED /\ pc'[c] = "idle" /\ mem[c].dirty = {}
      /\ tx' = [tx EXCEPT ![c] = t] /\ dbDisk' \in {dbDisk, db} /\ (~noSync => dbDisk' = db)
      /\ UNCHANGED <<db, jrnl, jDisk, jSame, mem, txns, setting>>
  BY DEF SyncDb, DbIsSynced, TInv, IInv, ControlTypeOK
<1>2. t \in TxType /\ t.orig = tx[c].orig /\ t.off = tx[c].off /\ t.hdr = tx[c].hdr /\ t.job = "none"
  <2>1. tx[c] \in TxType
    BY Parts
  <2> QED BY <2>1 DEF TxType
<1> HIDE DEF t
<1>3. FilesOK'
  <2>1. FilesOK /\ DbOK(db)
    BY Parts DEF FilesOK
  <2>2. DbOK(db')
    BY <1>1, <2>1 DEF DbOK, Pages
  <2> QED BY <1>1, <2>1, <2>2, DbFiles
<1>4. eState[c] \in {WRITER_CACHEMOD, WRITER_DBMOD} /\ eLock[c] >= RESERVED_LOCK
  BY <1>1, Flushed
<1>5. Reading(eState'[c], mem[c], db')
  BY <1>1, <1>4, Parts DEF Reading
<1>6. Writing(pc'[c], eState'[c], mem[c], t, db')
  BY <1>1, <1>2, <1>4, Parts DEF Writing
<1>7. Journalling(pc'[c], eState'[c], t, jrnl')
  BY <1>1, <1>2, Flushed DEF Journalling
<1>8. Committed(pc'[c], eState'[c], t, db', dbDisk', jrnl', jDisk', jSame')
  BY <1>1, <1>2 DEF Committed
<1>9. mem' = [mem EXCEPT ![c] = mem[c]] /\ txns' \in Nat /\ CacheOK(mem[c]) /\ setting' = setting
  BY <1>1, SameMem, Parts
<1> QED BY <1>1, <1>2, <1>3, <1>4, <1>5, <1>6, <1>7, <1>8, <1>9, StepKeeps

-----------------------------------------------------------------------------
(* The end of a transaction.                                               *)

LEMMA CleanedIs ==
    ASSUME NEW m, CacheOK(m)
    PROVE  /\ CacheOK(Cleaned(m)) /\ Cleaned(m).dirty = {} /\ Cleaned(m).dbSize = m.dbSize
           /\ DOMAIN Cleaned(m).cache = DOMAIN m.cache \ {p \in DOMAIN m.cache : p > m.dbSize}
<1> DEFINE S == {p \in DOMAIN m.cache : p > m.dbSize}
           f == Without(m.cache, S)
           x == [m EXCEPT !.dirty = {}, !.needSync = {}, !.cache = f]
<1>1. /\ DOMAIN m = MemFields
      /\ DOMAIN m.cache \subseteq Pages /\ \A q \in DOMAIN m.cache : m.cache[q] \in Contents
      /\ m.fileVers \in Contents /\ m.dbSize \in 0 .. setting.pages
  BY MemIs
<1>2. x = Cleaned(m)
  BY DEF Cleaned
<1> HIDE DEF S
<1>3. DOMAIN f = DOMAIN m.cache \ S /\ \A q \in DOMAIN f : f[q] \in Contents
  BY <1>1, CacheWithout
<1> HIDE DEF f
<1>4. /\ DOMAIN x = DOMAIN m /\ x.cache = f /\ x.dirty = {} /\ x.needSync = {}
      /\ x.fileVers = m.fileVers /\ x.dbSize = m.dbSize
  BY <1>1 DEF MemFields
<1>5. x = [y \in DOMAIN x |-> x[y]]
  OBVIOUS
<1> HIDE DEF x
<1>6. CacheOK(x)
  <2>1. DOMAIN f \subseteq Pages /\ x.dirty \subseteq DOMAIN f
    BY <1>1, <1>3, <1>4
  <2> QED BY <1>1, <1>3, <1>4, <1>5, <2>1, CacheOf
<1> QED BY <1>2, <1>3, <1>4, <1>6 DEF S

LEMMA ZappedIs ==
    ASSUME FilesOK
    PROVE  Put(jrnl.data, 1, Junk) \in Seq(Sectors)
<1>1. jrnl.data \in Seq(Sectors)
  BY DEF FilesOK
<1>2. Len(jrnl.data) \in Nat /\ Junk \in Sectors
  BY <1>1, SectorOf DEF Junk, Sectors, Sector
<1> QED BY <1>1, <1>2, PutSector

LEMMA FinalizedIs ==
    ASSUME FilesOK, setting \in Settings, NEW c, JournalFinalized(c), tx[c].off \in Nat
    PROVE  /\ jrnl' \in [exists : BOOLEAN, data : Seq(Sectors)]
           /\ jDisk' \in {jDisk, jrnl'} /\ jSame' \in BOOLEAN
           /\ tx[c].off > 0 /\ EndIsSynced => jDisk' = jrnl' /\ jSame' = TRUE
           /\ tx[c].off > 0 => jrnl'.exists \/ jrnl'.data = <<>>
<1>1. /\ jrnl \in [exists : BOOLEAN, data : Seq(Sectors)] /\ jSame \in BOOLEAN
      /\ <<>> \in Seq(Sectors) /\ JournalMode \in {"delete", "truncate", "persist"}
  BY Bounds DEF FilesOK, JournalMode
<1>2. CASE JournalMode = "delete"
  <2>1. /\ jrnl' = NoJournal
        /\ IF extraSync THEN jDisk' = jrnl' /\ jSame' = TRUE ELSE jSame' = FALSE /\ jDisk' = jDisk
    BY <1>2 DEF JournalFinalized, UnlinkIsSynced, JournalSynced
  <2>2. jrnl' \in [exists : BOOLEAN, data : Seq(Sectors)]
    BY <1>1, <2>1 DEF NoJournal
  <2>3. jrnl'.data = <<>>
    BY <2>1 DEF NoJournal
  <2> QED BY <1>2, <2>1, <2>2, <2>3 DEF EndIsSynced
<1>3. CASE JournalMode # "delete" /\ tx[c].off = 0
  <2>1. UNCHANGED <<jrnl, jDisk, jSame>>
    BY <1>3 DEF JournalFinalized
  <2> QED BY <1>1, <1>3, <2>1
<1>4. CASE JournalMode = "truncate" /\ tx[c].off > 0
  <2>1. /\ jrnl' = [exists |-> TRUE, data |-> <<>>]
        /\ IF fullSync THEN jDisk' = jrnl' /\ jSame' = TRUE ELSE UNCHANGED <<jDisk, jSame>>
    <3>1. /\ JournalMode = "truncate" /\ JournalMode # "delete" /\ JournalMode # "persist"
          /\ tx[c].off > 0 /\ tx[c].off # 0
      BY <1>4
    <3> QED BY <3>1, Zenon DEF JournalFinalized, TruncationIsSynced, JournalSynced, JournalIs
  <2>2. jrnl' \in [exists : BOOLEAN, data : Seq(Sectors)]
    BY <1>1, <2>1
  <2>3. extraSync => fullSync
    BY DEF extraSync, fullSync
  <2> QED BY <1>1, <2>1, <2>2, <2>3 DEF EndIsSynced
<1>5. CASE JournalMode = "persist" /\ tx[c].off > 0
  <2> DEFINE s == Put(jrnl.data, 1, Junk)
  <2>1. /\ jrnl' = [exists |-> TRUE, data |-> s]
        /\ IF noSync THEN UNCHANGED <<jDisk, jSame>> ELSE jDisk' = jrnl' /\ jSame' = TRUE
    <3>1. /\ JournalMode = "persist" /\ JournalMode # "delete" /\ JournalMode # "truncate"
          /\ tx[c].off > 0 /\ tx[c].off # 0
      BY <1>5
    <3> QED BY <3>1, Zenon DEF JournalFinalized, JournalSynced, JournalIs
  <2>2. s \in Seq(Sectors)
    BY ZappedIs
  <2> HIDE DEF s
  <2>3. jrnl' \in [exists : BOOLEAN, data : Seq(Sectors)]
    BY <2>1, <2>2
  <2>4. extraSync \/ fullSync => ~noSync
    BY DEF extraSync, fullSync, noSync
  <2> QED BY <1>1, <2>1, <2>3, <2>4 DEF EndIsSynced
<1>6. tx[c].off = 0 \/ tx[c].off > 0
  OBVIOUS
<1> QED BY <1>1, <1>2, <1>3, <1>4, <1>5, <1>6, Zenon

LEMMA CommitPhaseTwoKeeps ==
    ASSUME TInv, NEW c \in Conns, CommitPhaseTwo(c)
    PROVE  Keeps(c)
<1> DEFINE m == Cleaned(mem[c])
<1>1. /\ pc[c] = "idle" /\ eState[c] = WRITER_FINISHED /\ eState'[c] = eState[c] /\ pc'[c] = "unlock"
      /\ mem' = [mem EXCEPT ![c] = m] /\ JournalFinalized(c)
      /\ UNCHANGED <<db, dbDisk, tx, txns, setting>>
  BY DEF CommitPhaseTwo, TInv, IInv, ControlTypeOK
<1>2. /\ CacheOK(m) /\ m.dirty = {} /\ m.dbSize = mem[c].dbSize
      /\ DOMAIN m.cache = DOMAIN mem[c].cache \ {p \in DOMAIN mem[c].cache : p > mem[c].dbSize}
  BY Parts, CleanedIs
<1> HIDE DEF m
<1>3. tx[c].off \in Nat /\ tx[c].off > 0
  <2>1. tx[c].off \in Nat
    BY Parts DEF TxType
  <2> QED BY <1>1, <2>1, Parts DEF Journalling
<1>4. /\ jrnl' \in [exists : BOOLEAN, data : Seq(Sectors)]
      /\ jDisk' \in {jDisk, jrnl'} /\ jSame' \in BOOLEAN
      /\ EndIsSynced => jDisk' = jrnl' /\ jSame' = TRUE
      /\ jrnl'.exists \/ jrnl'.data = <<>>
  BY <1>1, <1>3, Parts, FinalizedIs
<1>5. FilesOK'
  <2>1. FilesOK /\ jDisk' \in {jDisk, jrnl, jrnl'}
    BY <1>4, Parts
  <2> QED BY <1>1, <1>4, <2>1, JournalFiles
<1>6. mem[c].dirty = {} /\ 1 \in DOMAIN mem[c].cache /\ mem[c].dbSize \in Pages /\ setting.pages \in Nat
  BY <1>1, Parts, Bounds DEF Writing, Reading
<1>7. Reading(eState'[c], m, db')
  <2>1. \A q \in 1 .. mem[c].dbSize : q \in mem[c].dirty \/ q <= Len(db)
    BY <1>1, Parts DEF Reading
  <2>2. 1 \in DOMAIN m.cache
    <3>1. ~(1 > mem[c].dbSize)
      BY <1>6 DEF Pages
    <3> QED BY <1>2, <1>6, <3>1
  <2> QED BY <1>1, <1>2, <1>6, <2>1, <2>2 DEF Reading
<1>8. Writing(pc'[c], eState'[c], m, tx[c], db')
  <2>1. /\ tx[c].orig \in 1 .. mem[c].dbSize /\ tx[c].orig <= Len(db)
        /\ tx[c].job # "spill"
    BY <1>1, <1>6, Parts DEF Writing
  <2> QED BY <1>1, <1>2, <2>1 DEF Writing
<1>9. Journalling(pc'[c], eState'[c], tx[c], jrnl')
  BY <1>1 DEF Journalling
<1>10. Committed(pc'[c], eState'[c], tx[c], db', dbDisk', jrnl', jDisk', jSame')
  <2>1. tx[c].job = "none" /\ ~noSync => dbDisk = db
    BY <1>1, Parts DEF Committed
  <2> QED BY <1>1, <1>4, <2>1 DEF Committed
<1>11. /\ tx' = [tx EXCEPT ![c] = tx[c]] /\ txns' \in Nat /\ tx[c] \in TxType /\ setting' = setting
       /\ eLock[c] >= RESERVED_LOCK
  BY <1>1, SameMem, Parts DEF Fits
<1> QED BY <1>1, <1>2, <1>5, <1>7, <1>8, <1>9, <1>10, <1>11, StepKeeps

LEMMA UnlockKeeps ==
    ASSUME TInv, NEW c \in Conns, Unlock(c)
    PROVE  Keeps(c)
<1>1. /\ pc[c] = "unlock" /\ tx' = [tx EXCEPT ![c] = NoTx] /\ UNCHANGED <<files, mem, txns, setting>>
      /\ eState[c] = OPEN => eState'[c] = OPEN
      /\ eState[c] # OPEN => eState'[c] = READER
  BY DEF Unlock, TInv, IInv, ControlTypeOK
<1>2. mem[c].dirty = {}
  BY <1>1, Parts DEF Writing
<1>3. Reading(eState'[c], mem[c], db)
  <2>1. CASE eState[c] = OPEN
    BY <1>1, <2>1 DEF Reading
  <2>2. CASE eState[c] # OPEN
    <3>1. CASE eState[c] # ERROR
      <4>1. Reading(eState[c], mem[c], db) /\ eState[c] \in 1 .. 5
        BY <2>2, <3>1, Parts
      <4> QED BY <4>1 DEF Reading
    <3>2. CASE eState[c] = ERROR
      BY <1>1, <3>2, Parts DEF Writing
    <3> QED BY <3>1, <3>2
  <2> QED BY <2>1, <2>2
<1>4. /\ Writing(pc'[c], eState'[c], mem[c], NoTx, db) /\ Journalling(pc'[c], eState'[c], NoTx, jrnl)
      /\ Committed(pc'[c], eState'[c], NoTx, db, dbDisk, jrnl, jDisk, jSame)
  BY <1>1, <1>2, NoTxIs DEF Writing, Journalling, Committed
<1>5. /\ mem' = [mem EXCEPT ![c] = mem[c]] /\ txns' \in Nat /\ CacheOK(mem[c]) /\ NoTx \in TxType
      /\ UNCHANGED <<files, setting>>
  BY <1>1, SameMem, Parts, NoTxIs
<1> QED BY <1>1, <1>3, <1>4, <1>5, MemKeeps

-----------------------------------------------------------------------------
(* The roll-back.                                                          *)

LEMMA RollbackTx ==
    ASSUME NEW t \in TxType
    PROVE  LET u == [t EXCEPT !.off = 0, !.job = "rollback"]
           IN  /\ u \in TxType /\ u.orig = t.orig /\ u.off = 0 /\ u.hdr = t.hdr
               /\ u.job = "rollback"
BY DEF TxType

LEMMA RollbackKeeps ==
    ASSUME TInv, NEW c \in Conns, Rollback(c)
    PROVE  Keeps(c)
<1>1. /\ pc[c] \in {"idle", "failed"} /\ eState[c] \in WRITER_LOCKED .. WRITER_FINISHED
      /\ eState' = eState /\ UNCHANGED <<files, eState, mem, txns, setting>>
  BY DEF Rollback
<1>2. CASE eState[c] = WRITER_LOCKED
  <2>1. pc'[c] = "unlock" /\ UNCHANGED <<files, mem, tx, txns, setting>>
    BY <1>1, <1>2 DEF Rollback, TInv, IInv, ControlTypeOK
  <2>2. Writing(pc'[c], eState'[c], mem[c], tx[c], db)
    BY <1>1, <1>2, <2>1, Parts DEF Writing
  <2>3. Reading(eState'[c], mem[c], db) /\ Journalling(pc'[c], eState'[c], tx[c], jrnl)
    BY <1>1, <1>2, Parts DEF Journalling
  <2>4. Committed(pc'[c], eState'[c], tx[c], db, dbDisk, jrnl, jDisk, jSame)
    BY <1>1, <1>2, Unfinished
  <2> QED BY <2>1, <2>2, <2>3, <2>4, MoveKeeps
<1>3. CASE eState[c] # WRITER_LOCKED
  <2> DEFINE t == [tx[c] EXCEPT !.off = 0, !.job = "rollback"]
  <2>1. pc'[c] = "header" /\ tx' = [tx EXCEPT ![c] = t]
    BY <1>1, <1>3 DEF Rollback, TInv, IInv, ControlTypeOK
  <2>2. t \in TxType /\ t.orig = tx[c].orig /\ t.off = 0 /\ t.hdr = tx[c].hdr /\ t.job = "rollback"
    BY Parts, RollbackTx
  <2> HIDE DEF t
  <2>3. Writing(pc'[c], eState'[c], mem[c], t, db)
    BY <1>1, <1>3, <2>1, <2>2, Parts DEF Writing
  <2>4. Journalling(pc'[c], eState'[c], t, jrnl)
    <3>1. jrnl.data \in Seq(Sectors) /\ Len(jrnl.data) \in Nat
      BY Parts, SectorOf DEF FilesOK
    <3> QED BY <1>1, <1>3, <2>1, <2>2, <3>1, Parts DEF Journalling
  <2>5. Reading(eState'[c], mem[c], db) /\ Committed(pc'[c], eState'[c], t, db, dbDisk, jrnl, jDisk, jSame)
    BY <1>1, <2>2, Parts, Unfinished
  <2>6. mem' = [mem EXCEPT ![c] = mem[c]] /\ txns' \in Nat /\ CacheOK(mem[c]) /\ UNCHANGED <<files, setting>>
    BY <1>1, SameMem, Parts
  <2> QED BY <2>1, <2>2, <2>3, <2>4, <2>5, <2>6, MemKeeps
<1> QED BY <1>2, <1>3

LEMMA Restored ==
    ASSUME TInv, NEW c \in Conns, pc[c] \in {"header", "record", "restored", "final"}
    PROVE  /\ eState[c] = OPEN \/ eState[c] \in WRITER_CACHEMOD .. WRITER_FINISHED
           /\ eLock[c] >= RESERVED_LOCK /\ setting \in Settings /\ DbOK(db) /\ CacheOK(mem[c])
           /\ jrnl.data \in Seq(Sectors) /\ Len(jrnl.data) \in Nat
           /\ tx[c].off \in Nat /\ tx[c].hdr \in Nat /\ tx[c].left \in Nat /\ tx[c].orig \in Nat
           /\ tx[c].job # "spill" /\ (tx[c].job # "none" \/ eState[c] # WRITER_FINISHED)
           /\ eState[c] = OPEN => mem[c].dirty = {}
           /\ eState[c] # OPEN =>
                 /\ Len(jrnl.data) >= 1 /\ jrnl.data[1].pg = tx[c].orig /\ tx[c].off <= Len(jrnl.data)
                 /\ tx[c].hdr # 0 => jrnl.data[1].kind = "hdr"
                 /\ tx[c].orig \in Pages /\ tx[c].orig <= Len(db)
                 /\ 1 \in DOMAIN mem[c].cache /\ mem[c].dbSize \in Pages
                 /\ \A q \in 1 .. mem[c].dbSize : q \in mem[c].dirty \/ q <= Len(db)
                 /\ (pc[c] = "header" /\ tx[c].off = 0) \/ mem[c].dbSize = tx[c].orig
                 /\ eState[c] = WRITER_FINISHED => mem[c].dirty = {}
<1>1. /\ eState[c] = OPEN \/ eState[c] \in WRITER_CACHEMOD .. WRITER_FINISHED
      /\ eLock[c] >= RESERVED_LOCK
  BY Parts DEF Fits, Writing
<1>2. /\ setting \in Settings /\ DbOK(db) /\ CacheOK(mem[c]) /\ jrnl.data \in Seq(Sectors)
      /\ tx[c].off \in Nat /\ tx[c].hdr \in Nat /\ tx[c].left \in Nat /\ tx[c].orig \in Nat
  BY Parts DEF FilesOK, TxType
<1>3. Len(jrnl.data) \in Nat
  BY <1>2, SectorOf
<1>4. tx[c].job # "spill" /\ (eState[c] = OPEN => mem[c].dirty = {})
  BY Parts DEF Writing
<1>5. tx[c].job # "none" \/ eState[c] # WRITER_FINISHED
  BY Parts DEF Committed
<1>6. ASSUME eState[c] # OPEN
      PROVE  /\ Len(jrnl.data) >= 1 /\ jrnl.data[1].pg = tx[c].orig /\ tx[c].off <= Len(jrnl.data)
             /\ tx[c].hdr # 0 => jrnl.data[1].kind = "hdr"
  BY <1>1, <1>6, Parts DEF Journalling
<1>7. ASSUME eState[c] # OPEN
      PROVE  /\ 1 \in DOMAIN mem[c].cache /\ mem[c].dbSize \in Pages
             /\ \A q \in 1 .. mem[c].dbSize : q \in mem[c].dirty \/ q <= Len(db)
  BY <1>1, <1>7, Parts DEF Reading
<1>8. ASSUME eState[c] # OPEN
      PROVE  /\ tx[c].orig \in 1 .. mem[c].dbSize /\ tx[c].orig <= Len(db)
             /\ (pc[c] = "header" /\ tx[c].off = 0) \/ mem[c].dbSize = tx[c].orig
             /\ eState[c] = WRITER_FINISHED => mem[c].dirty = {}
  BY <1>1, <1>8, Parts DEF Writing
<1>9. eState[c] # OPEN => tx[c].orig \in Pages
  BY <1>2, <1>7, <1>8, Bounds DEF Pages
<1> QED BY <1>1, <1>2, <1>3, <1>4, <1>5, <1>6, <1>7, <1>8, <1>9

LEMMA RecordsAre ==
    ASSUME TInv, NEW c \in Conns, pc[c] = "header", HeaderReadable(c)
    PROVE  LET h == AsHeader(jrnl.data[tx[c].off + 1])
           IN  /\ RecordsAfter(c, h) \in Nat /\ h.nonce \in Nat
               /\ tx[c].off = 0 => h.pg \in Pages
               /\ tx[c].off = 0 /\ eState[c] # OPEN => h.pg = tx[c].orig
               /\ tx[c].off + 1 <= Len(jrnl.data)
<1> DEFINE e == jrnl.data[tx[c].off + 1]
           h == AsHeader(e)
           rest == Len(jrnl.data) - (tx[c].off + 1)
<1>1. /\ tx[c].off \in Nat /\ tx[c].off < Len(jrnl.data) /\ Len(jrnl.data) \in Nat
      /\ tx[c].off + 1 \in 1 .. Len(jrnl.data)
      /\ eState[c] = OPEN => e.kind = "hdr"
  BY Restored DEF HeaderReadable, isHot
<1>2. e \in Sectors
  <2> DEFINE k == tx[c].off + 1
  <2>1. k \in 1 .. Len(jrnl.data) /\ jrnl.data \in Seq(Sectors)
    BY <1>1, Restored
  <2> HIDE DEF k
  <2>2. jrnl.data[k] \in Sectors
    BY <2>1, SectorOf
  <2> QED BY <2>2 DEF k
<1>3. rest \in Nat /\ tx[c].off + 1 <= Len(jrnl.data)
  BY <1>1
<1>4. tx[c].off = 0 => e = jrnl.data[1]
  OBVIOUS
<1> HIDE DEF e
<1>5. h.pg = e.pg /\ h.nonce \in Nat /\ h.val \in Nat \cup {ToEndOfFile}
  BY <1>2 DEF AsHeader, Sectors, Sector
<1>6. RecordsAfter(c, h) \in Nat
  <2> HIDE DEF h
  <2> QED BY <1>3, <1>5 DEF RecordsAfter, ToEndOfFile
<1>7. tx[c].off = 0 /\ eState[c] # OPEN => h.pg = tx[c].orig
  BY <1>4, <1>5, Restored
<1>8. tx[c].off = 0 => h.pg \in Pages
  <2>1. CASE eState[c] = OPEN
    BY <1>1, <1>2, <1>5, <2>1 DEF Sectors
  <2>2. CASE eState[c] # OPEN
    BY <1>7, <2>2, Restored
  <2> QED BY <2>1, <2>2
<1> QED BY <1>3, <1>5, <1>6, <1>7, <1>8 DEF e

LEMMA HeaderTx ==
    ASSUME NEW t \in TxType, NEW n \in Nat, NEW r \in Nat
    PROVE  LET u == [t EXCEPT !.off = @ + 1, !.nonce = n, !.left = r]
           IN  /\ u \in TxType /\ u.orig = t.orig /\ u.off = t.off + 1 /\ u.hdr = t.hdr
               /\ u.job = t.job
<1> DEFINE u == [t EXCEPT !.off = @ + 1, !.nonce = n, !.left = r]
<1>1. /\ u.off = t.off + 1 /\ u.hdr = t.hdr /\ u.orig = t.orig /\ u.job = t.job /\ u.left = r
      /\ u.nRec = t.nRec /\ u.inJournal = t.inJournal
      /\ u.stamp = t.stamp /\ u.changeCountDone = t.changeCountDone /\ u.nonce = n
  BY DEF TxType
<1>2. u = [y \in DOMAIN u |-> u[y]] /\ DOMAIN u = DOMAIN t
  OBVIOUS
<1>3. u \in TxType
  <2>1. /\ t.orig \in Nat /\ t.stamp \in Nat /\ t.inJournal \in SUBSET Pages
        /\ t.changeCountDone \in BOOLEAN /\ t.hdr \in Nat /\ t.off + 1 \in Nat /\ t.nRec \in Nat
        /\ t.job \in {"none", "spill", "commit", "rollback", "hot"}
    BY DEF TxType
  <2> HIDE DEF u
  <2> QED BY <1>1, <1>2, <2>1, TxOf
<1> QED BY <1>1, <1>3

LEMMA SizeSet ==
    ASSUME NEW m, CacheOK(m), NEW n \in Pages, setting.pages \in Nat
    PROVE  LET x == [m EXCEPT !.dbSize = n]
           IN  CacheOK(x) /\ x.cache = m.cache /\ x.dirty = m.dirty /\ x.dbSize = n
<1> DEFINE x == [m EXCEPT !.dbSize = n]
<1>1. /\ DOMAIN x = DOMAIN m /\ x.cache = m.cache /\ x.dirty = m.dirty /\ x.needSync = m.needSync
      /\ x.fileVers = m.fileVers /\ x.dbSize = n
  BY MemIs DEF MemFields
<1>2. x = [y \in DOMAIN x |-> x[y]]
  OBVIOUS
<1> HIDE DEF x
<1>3. n \in 0 .. setting.pages
  BY DEF Pages
<1>4. CacheOK(x)
  BY <1>1, <1>2, <1>3, MemIs, CacheOf
<1> QED BY <1>1, <1>4 DEF x

(* A step of the roll-back that leaves the journal alone.                  *)
LEMMA RestoreKeeps ==
    ASSUME TInv, NEW c \in Conns, pc[c] \in {"header", "record", "restored", "final"},
           NEW m, NEW t \in TxType, CacheOK(m),
           mem' = [mem EXCEPT ![c] = m], tx' = [tx EXCEPT ![c] = t],
           UNCHANGED <<jrnl, jDisk, jSame, eState, txns, setting>>,
           DbOK(db'), dbDisk' \in {dbDisk, db, db'},
           t.orig = tx[c].orig, t.hdr = tx[c].hdr, t.job = tx[c].job,
           t.off \in Nat, t.off <= Len(jrnl.data) \/ eState[c] = OPEN,
           m.dirty = mem[c].dirty,
           pc'[c] \in {"header", "record", "restored", "final"},
           eState[c] # OPEN => /\ DOMAIN m.cache = DOMAIN mem[c].cache
                               /\ m.dbSize = tx[c].orig /\ tx[c].orig <= Len(db')
    PROVE  Keeps(c)
<1>1. eState'[c] = eState[c] /\ jrnl' = jrnl
  OBVIOUS
<1>2. FilesOK'
  BY Parts, DbFiles
<1>3. Reading(eState'[c], m, db')
  <2>1. CASE eState[c] = OPEN
    BY <1>1, <2>1 DEF Reading
  <2>2. CASE eState[c] # OPEN
    <3>1. 1 \in DOMAIN m.cache /\ m.dbSize \in Pages
      BY <2>2, Restored
    <3>2. \A q \in 1 .. m.dbSize : q <= Len(db')
      <4>1. m.dbSize \in Nat /\ m.dbSize <= Len(db') /\ Len(db') \in Nat
        BY <2>2, Restored DEF DbOK
      <4> QED BY <4>1
    <3> QED BY <3>1, <3>2 DEF Reading
  <2> QED BY <2>1, <2>2
<1>4. Writing(pc'[c], eState'[c], m, t, db')
  <2>1. t.job # "spill"
    BY Restored
  <2>2. CASE eState[c] = OPEN
    BY <1>1, <2>1, <2>2, Restored DEF Writing
  <2>3. CASE eState[c] # OPEN
    <3>1. /\ t.orig = m.dbSize /\ t.orig <= Len(db') /\ t.orig \in Pages
          /\ eState[c] \in WRITER_CACHEMOD .. WRITER_FINISHED
          /\ eState[c] = WRITER_FINISHED => m.dirty = {}
      BY <2>3, Restored
    <3>2. t.orig \in 1 .. m.dbSize
      BY <3>1, Restored, Bounds DEF Pages
    <3> QED BY <1>1, <2>1, <3>1, <3>2 DEF Writing
  <2> QED BY <2>2, <2>3
<1>5. Journalling(pc'[c], eState'[c], t, jrnl')
  <2>1. CASE eState[c] = OPEN
    BY <1>1, <2>1 DEF Journalling
  <2>2. CASE eState[c] # OPEN
    BY <1>1, <2>2, Restored DEF Journalling
  <2> QED BY <2>1, <2>2
<1>6. Committed(pc'[c], eState'[c], t, db', dbDisk', jrnl', jDisk', jSame')
  <2>1. t.job # "none" \/ eState'[c] # WRITER_FINISHED
    BY <1>1, Restored
  <2> QED BY <2>1, Unfinished
<1>7. txns' \in Nat /\ setting' = setting /\ eLock[c] >= RESERVED_LOCK
  BY SameMem, Restored
<1> QED BY <1>2, <1>3, <1>4, <1>5, <1>6, <1>7, StepKeeps

LEMMA ReadHeaderKeeps ==
    ASSUME TInv, NEW c \in Conns, ReadHeader(c)
    PROVE  Keeps(c)
<1>1. pc[c] = "header" /\ UNCHANGED <<dbDisk, jrnl, jDisk, jSame, eState, eLock, txns, setting>>
  BY DEF ReadHeader
<1>2. CASE HeaderReadable(c)
  <2> DEFINE h == AsHeader(jrnl.data[tx[c].off + 1])
             r == RecordsAfter(c, h)
             first == tx[c].off = 0
             t == [tx[c] EXCEPT !.off = @ + 1, !.nonce = h.nonce, !.left = r]
             m == IF first THEN [mem[c] EXCEPT !.dbSize = h.pg] ELSE mem[c]
  <2>1. /\ tx' = [tx EXCEPT ![c] = t] /\ mem' = [mem EXCEPT ![c] = m]
        /\ db' = IF first /\ RestoresDb(c) THEN Resized(h.pg) ELSE db
        /\ pc'[c] = "record"
    BY <1>2 DEF ReadHeader, TInv, IInv, ControlTypeOK
  <2>2. /\ r \in Nat /\ h.nonce \in Nat /\ (first => h.pg \in Pages)
        /\ first /\ eState[c] # OPEN => h.pg = tx[c].orig
        /\ tx[c].off + 1 <= Len(jrnl.data)
    BY <1>1, <1>2, RecordsAre
  <2> HIDE DEF h, r
  <2>3. /\ t \in TxType /\ t.orig = tx[c].orig /\ t.off = tx[c].off + 1 /\ t.hdr = tx[c].hdr
        /\ t.job = tx[c].job
    <3> DEFINE n == h.nonce
               u == tx[c]
    <3>1. u \in TxType /\ n \in Nat /\ r \in Nat
      BY <2>2, Parts
    <3> HIDE DEF n, u
    <3>2. LET x == [u EXCEPT !.off = @ + 1, !.nonce = n, !.left = r]
          IN  x \in TxType /\ x.orig = u.orig /\ x.off = u.off + 1 /\ x.hdr = u.hdr /\ x.job = u.job
      BY <3>1, HeaderTx
    <3> QED BY <3>2 DEF n, u
  <2> HIDE DEF t
  <2>4. /\ CacheOK(m) /\ m.cache = mem[c].cache /\ m.dirty = mem[c].dirty
        /\ m.dbSize = IF first THEN h.pg ELSE mem[c].dbSize
    <3>1. CASE first
      BY <2>2, <3>1, Parts, Bounds, SizeSet
    <3>2. CASE ~first
      BY <3>2, Parts
    <3> QED BY <3>1, <3>2
  <2> HIDE DEF m
  <2>5. DbOK(db') /\ (db' = db \/ (first /\ Len(db') = h.pg))
    <3>1. CASE first /\ RestoresDb(c)
      BY <1>1, <2>1, <2>2, <3>1, Restored, ResizedIs
    <3>2. CASE ~(first /\ RestoresDb(c))
      BY <1>1, <2>1, <3>2, Restored DEF DbOK, Pages
    <3> QED BY <3>1, <3>2
  <2>6. eState[c] # OPEN => /\ DOMAIN m.cache = DOMAIN mem[c].cache
                            /\ m.dbSize = tx[c].orig /\ tx[c].orig <= Len(db')
    <3> SUFFICES ASSUME eState[c] # OPEN
                 PROVE  m.dbSize = tx[c].orig /\ tx[c].orig <= Len(db')
      BY <2>4
    <3>1. /\ tx[c].orig <= Len(db) /\ tx[c].orig \in Nat
          /\ first \/ mem[c].dbSize = tx[c].orig
      BY <1>1, Restored
    <3> HIDE DEF first
    <3>2. m.dbSize = tx[c].orig
      BY <2>2, <2>4, <3>1
    <3>3. tx[c].orig <= Len(db')
      <4>1. CASE db' = db
        BY <3>1, <4>1
      <4>2. CASE first /\ Len(db') = h.pg
        BY <2>2, <3>1, <4>2
      <4> QED BY <2>5, <4>1, <4>2
    <3> QED BY <3>2, <3>3
  <2>7. t.off \in Nat /\ t.off <= Len(jrnl.data)
    BY <1>1, <2>2, <2>3, Restored
  <2>8. /\ pc[c] \in {"header", "record", "restored", "final"}
        /\ pc'[c] \in {"header", "record", "restored", "final"}
        /\ dbDisk' \in {dbDisk, db, db'}
        /\ UNCHANGED <<jrnl, jDisk, jSame, eState, txns, setting>>
    BY <1>1, <2>1
  <2> QED BY <2>1, <2>3, <2>4, <2>5, <2>6, <2>7, <2>8, RestoreKeeps
<1>3. CASE ~HeaderReadable(c)
  <2>1. pc'[c] = "restored" /\ UNCHANGED <<db, mem, tx>>
    BY <1>3 DEF ReadHeader, TInv, IInv, ControlTypeOK
  <2>2. eState[c] # OPEN => tx[c].off # 0
    <3> SUFFICES ASSUME eState[c] # OPEN, tx[c].off = 0 PROVE HeaderReadable(c)
      BY <1>3
    <3>1. /\ Len(jrnl.data) >= 1 /\ Len(jrnl.data) \in Nat
          /\ tx[c].hdr # 0 => jrnl.data[1].kind = "hdr"
      BY <1>1, Restored
    <3>2. jrnl.data[tx[c].off + 1] = jrnl.data[1] /\ tx[c].off < Len(jrnl.data)
      BY <3>1
    <3> QED BY <3>1, <3>2 DEF HeaderReadable, isHot
  <2>3. eState[c] # OPEN => mem[c].dbSize = tx[c].orig /\ tx[c].orig <= Len(db)
    BY <1>1, <2>2, Restored
  <2>4. /\ mem' = [mem EXCEPT ![c] = mem[c]] /\ tx' = [tx EXCEPT ![c] = tx[c]]
        /\ CacheOK(mem[c]) /\ tx[c] \in TxType /\ tx[c].off \in Nat
        /\ tx[c].off <= Len(jrnl.data) \/ eState[c] = OPEN
    BY <1>1, <2>1, SameMem, Parts, Restored
  <2>5. DbOK(db') /\ dbDisk' \in {dbDisk, db, db'} /\ db' = db
    BY <1>1, <2>1, Restored DEF DbOK, Pages
  <2>6. /\ pc[c] \in {"header", "record", "restored", "final"}
        /\ pc'[c] \in {"header", "record", "restored", "final"}
        /\ UNCHANGED <<jrnl, jDisk, jSame, eState, txns, setting>>
    BY <1>1, <2>1
  <2> QED BY <2>3, <2>4, <2>5, <2>6, RestoreKeeps
<1> QED BY <1>2, <1>3

LEMMA RestoreMoves ==
    ASSUME TInv, NEW c \in Conns, pc[c] \in {"record", "restored"},
           UNCHANGED <<db, jrnl, jDisk, jSame, eState, mem, tx, txns, setting>>,
           dbDisk' \in {dbDisk, db}, pc'[c] \in {"header", "record", "restored", "final"}
    PROVE  Keeps(c)
<1>1. /\ mem' = [mem EXCEPT ![c] = mem[c]] /\ tx' = [tx EXCEPT ![c] = tx[c]]
      /\ CacheOK(mem[c]) /\ tx[c] \in TxType
  BY SameMem, Parts
<1>2. DbOK(db') /\ dbDisk' \in {dbDisk, db, db'} /\ db' = db
  BY Parts DEF FilesOK, DbOK, Pages
<1>3. /\ tx[c].off \in Nat /\ (tx[c].off <= Len(jrnl.data) \/ eState[c] = OPEN)
      /\ eState[c] # OPEN => mem[c].dbSize = tx[c].orig /\ tx[c].orig <= Len(db)
  BY Restored
<1>4. /\ pc[c] \in {"header", "record", "restored", "final"}
      /\ UNCHANGED <<jrnl, jDisk, jSame, eState, txns, setting>>
  OBVIOUS
<1> QED BY <1>1, <1>2, <1>3, <1>4, RestoreKeeps

LEMMA SyncRestoredKeeps ==
    ASSUME TInv, NEW c \in Conns, SyncRestored(c)
    PROVE  Keeps(c)
<1>1. /\ pc[c] = "restored" /\ pc'[c] = "final" /\ dbDisk' \in {dbDisk, db}
      /\ UNCHANGED <<db, jrnl, jDisk, jSame, eState, mem, tx, txns, setting>>
  BY DEF SyncRestored, TInv, IInv, ControlTypeOK
<1> QED BY <1>1, RestoreMoves

LEMMA RecordTx ==
    ASSUME NEW t \in TxType, t.left > 0
    PROVE  LET u == [t EXCEPT !.off = @ + 1, !.left = @ - 1]
           IN  /\ u \in TxType /\ u.orig = t.orig /\ u.off = t.off + 1 /\ u.hdr = t.hdr
               /\ u.job = t.job
<1> DEFINE u == [t EXCEPT !.off = @ + 1, !.left = @ - 1]
<1>1. /\ u.off = t.off + 1 /\ u.hdr = t.hdr /\ u.orig = t.orig /\ u.job = t.job
      /\ u.left = t.left - 1 /\ u.nRec = t.nRec /\ u.inJournal = t.inJournal
      /\ u.stamp = t.stamp /\ u.changeCountDone = t.changeCountDone /\ u.nonce = t.nonce
  BY DEF TxType
<1>2. u = [y \in DOMAIN u |-> u[y]] /\ DOMAIN u = DOMAIN t
  OBVIOUS
<1>3. u \in TxType
  <2>1. /\ t.orig \in Nat /\ t.stamp \in Nat /\ t.inJournal \in SUBSET Pages
        /\ t.changeCountDone \in BOOLEAN /\ t.hdr \in Nat /\ t.off + 1 \in Nat /\ t.nRec \in Nat
        /\ t.left - 1 \in Nat /\ t.nonce \in Nat
        /\ t.job \in {"none", "spill", "commit", "rollback", "hot"}
    BY DEF TxType
  <2> HIDE DEF u
  <2> QED BY <1>1, <1>2, <2>1, TxOf
<1> QED BY <1>1, <1>3

LEMMA RestoredMem ==
    ASSUME NEW m, CacheOK(m), NEW p, NEW v \in Contents
    PROVE  LET held == p \in DOMAIN m.cache
               x == [m EXCEPT !.cache = IF held THEN Put(@, p, v) ELSE @,
                              !.fileVers = IF held /\ p = 1 THEN v ELSE @]
           IN  /\ CacheOK(x) /\ x.dirty = m.dirty /\ x.dbSize = m.dbSize
               /\ DOMAIN x.cache = DOMAIN m.cache
<1> DEFINE held == p \in DOMAIN m.cache
           f == IF held THEN Put(m.cache, p, v) ELSE m.cache
           w == IF held /\ p = 1 THEN v ELSE m.fileVers
           x == [m EXCEPT !.cache = f, !.fileVers = w]
<1>1. /\ DOMAIN m = MemFields
      /\ DOMAIN m.cache \subseteq Pages /\ \A q \in DOMAIN m.cache : m.cache[q] \in Contents
      /\ m.dirty \subseteq DOMAIN m.cache /\ m.needSync \subseteq Pages
      /\ m.fileVers \in Contents /\ m.dbSize \in 0 .. setting.pages
  BY MemIs
<1>2. DOMAIN f = DOMAIN m.cache /\ \A q \in DOMAIN f : f[q] \in Contents
  <2>1. CASE held
    BY <1>1, <2>1, CacheReplaced
  <2>2. CASE ~held
    BY <1>1, <2>2
  <2> QED BY <2>1, <2>2
<1>3. w \in Contents
  BY <1>1
<1> HIDE DEF f, w
<1>4. /\ DOMAIN x = DOMAIN m /\ x.cache = f /\ x.dirty = m.dirty
      /\ x.needSync = m.needSync /\ x.fileVers = w /\ x.dbSize = m.dbSize
  BY <1>1 DEF MemFields
<1>5. x = [y \in DOMAIN x |-> x[y]]
  OBVIOUS
<1>6. x = [m EXCEPT !.cache = IF p \in DOMAIN m.cache THEN Put(@, p, v) ELSE @,
                    !.fileVers = IF p \in DOMAIN m.cache /\ p = 1 THEN v ELSE @]
  BY DEF f, w
<1> HIDE DEF x, held
<1>7. CacheOK(x)
  BY <1>1, <1>2, <1>3, <1>4, <1>5, CacheOf
<1> QED BY <1>2, <1>4, <1>6, <1>7

(* A record restores its page to the cache and to the file.                *)
LEMMA RestoreIs ==
    ASSUME TInv, NEW c \in Conns, pc[c] = "record", NEW e \in Sectors,
           ~Beyond(c, e), ChecksumOK(c, e), Restore(c, e)
    PROVE  /\ DbOK(db') /\ Len(db') >= Len(db)
           /\ \E m : /\ mem' = [mem EXCEPT ![c] = m] /\ CacheOK(m) /\ m.dirty = mem[c].dirty
                     /\ eState[c] # OPEN => /\ DOMAIN m.cache = DOMAIN mem[c].cache
                                            /\ m.dbSize = mem[c].dbSize
<1>1. e.kind = "rec" /\ e.pg \in Pages /\ e.val \in Contents
  BY DEF ChecksumOK, Sectors, Sector, Contents, Torn, ToEndOfFile
<1>2. DbOK(db) /\ setting \in Settings /\ CacheOK(mem[c]) /\ (eState[c] = OPEN => mem[c].dirty = {})
      /\ Len(db) \in Nat
  BY Restored DEF DbOK
<1>3. DbOK(db') /\ Len(db') >= Len(db)
  <2>1. CASE RestoresDb(c) /\ IsSynced(c)
    BY <1>1, <1>2, <2>1, StoredIs DEF Restore
  <2>2. CASE ~(RestoresDb(c) /\ IsSynced(c))
    <3>1. db' = db
      BY <2>2 DEF Restore
    <3> QED BY <1>2, <3>1
  <2> QED BY <2>1, <2>2
<1> DEFINE b == IF isHot(c) THEN Emptied(mem[c]) ELSE mem[c]
           held == e.pg \in DOMAIN b.cache
           m == [b EXCEPT !.cache = IF held THEN Put(@, e.pg, e.val) ELSE @,
                          !.fileVers = IF held /\ e.pg = 1 THEN e.val ELSE @]
<1>4. mem' = [mem EXCEPT ![c] = m]
  BY DEF Restore
<1>5. CacheOK(b) /\ b.dirty = mem[c].dirty /\ (eState[c] # OPEN => b = mem[c])
  <2>1. CASE eState[c] = OPEN
    BY <1>2, <2>1, CacheEmptied DEF isHot
  <2>2. CASE eState[c] # OPEN
    BY <1>2, <2>2 DEF isHot
  <2> QED BY <2>1, <2>2
<1> HIDE DEF b
<1>6. CacheOK(m) /\ m.dirty = b.dirty /\ m.dbSize = b.dbSize /\ DOMAIN m.cache = DOMAIN b.cache
  <2> DEFINE p == e.pg
             v == e.val
  <2>1. v \in Contents
    BY <1>1
  <2> HIDE DEF p, v
  <2>2. LET x == [b EXCEPT !.cache = IF p \in DOMAIN b.cache THEN Put(@, p, v) ELSE @,
                           !.fileVers = IF p \in DOMAIN b.cache /\ p = 1 THEN v ELSE @]
        IN  /\ CacheOK(x) /\ x.dirty = b.dirty /\ x.dbSize = b.dbSize
            /\ DOMAIN x.cache = DOMAIN b.cache
    BY <1>5, <2>1, RestoredMem
  <2> QED BY <2>2 DEF p, v
<1> HIDE DEF m
<1> QED BY <1>3, <1>4, <1>5, <1>6

LEMMA ReadRecordKeeps ==
    ASSUME TInv, NEW c \in Conns, ReadRecord(c)
    PROVE  Keeps(c)
<1>1. pc[c] = "record" /\ UNCHANGED <<dbDisk, jrnl, jDisk, jSame, eState, eLock, txns, setting>>
  BY DEF ReadRecord
<1>2. CASE pc'[c] \in {"header", "restored"} /\ UNCHANGED <<db, mem, tx>>
  BY <1>1, <1>2, RestoreMoves
<1>3. CASE /\ RecordFollows(c)
           /\ \/ UNCHANGED <<db, mem>>
              \/ ~Beyond(c, NextRecord(c)) /\ ChecksumOK(c, NextRecord(c)) /\ Restore(c, NextRecord(c))
           /\ SetTx(c, [tx[c] EXCEPT !.off = @ + 1, !.left = @ - 1])
           /\ UNCHANGED pc
  <2> DEFINE t == [tx[c] EXCEPT !.off = @ + 1, !.left = @ - 1]
             e == NextRecord(c)
  <2>1. /\ t \in TxType /\ t.orig = tx[c].orig /\ t.off = tx[c].off + 1 /\ t.hdr = tx[c].hdr
        /\ t.job = tx[c].job
    BY <1>3, Parts, RecordTx DEF RecordFollows
  <2>2. tx' = [tx EXCEPT ![c] = t]
    BY <1>3
  <2> HIDE DEF t
  <2>3. /\ tx[c].off \in Nat /\ Len(jrnl.data) \in Nat /\ tx[c].off < Len(jrnl.data)
        /\ jrnl.data \in Seq(Sectors)
        /\ DbOK(db) /\ setting \in Settings /\ CacheOK(mem[c]) /\ Len(db) \in Nat
        /\ eState[c] # OPEN => mem[c].dbSize = tx[c].orig /\ tx[c].orig <= Len(db) /\ tx[c].orig \in Nat
    BY <1>1, <1>3, Restored DEF RecordFollows, DbOK
  <2>4. e \in Sectors
    <3> DEFINE k == tx[c].off + 1
    <3>1. k \in 1 .. Len(jrnl.data)
      BY <2>3
    <3> HIDE DEF k
    <3>2. jrnl.data[k] \in Sectors
      BY <2>3, <3>1, SectorOf
    <3> QED BY <3>2 DEF k, NextRecord
  <2> HIDE DEF e
  <2>5. /\ DbOK(db') /\ Len(db') >= Len(db) /\ Len(db') \in Nat
        /\ \E m : /\ mem' = [mem EXCEPT ![c] = m] /\ CacheOK(m) /\ m.dirty = mem[c].dirty
                  /\ eState[c] # OPEN => /\ DOMAIN m.cache = DOMAIN mem[c].cache
                                         /\ m.dbSize = mem[c].dbSize
    <3>1. CASE UNCHANGED <<db, mem>>
      <4>1. mem' = [mem EXCEPT ![c] = mem[c]]
        BY <3>1, SameMem
      <4>2. \E m : /\ mem' = [mem EXCEPT ![c] = m] /\ CacheOK(m) /\ m.dirty = mem[c].dirty
                   /\ eState[c] # OPEN => /\ DOMAIN m.cache = DOMAIN mem[c].cache
                                          /\ m.dbSize = mem[c].dbSize
        BY <2>3, <4>1, Zenon
      <4>3. DbOK(db') /\ Len(db') >= Len(db) /\ Len(db') \in Nat
        <5>1. db' = db
          BY <3>1
        <5> QED BY <2>3, <5>1
      <4> QED BY <4>2, <4>3
    <3>2. CASE ~Beyond(c, e) /\ ChecksumOK(c, e) /\ Restore(c, e)
      BY <1>1, <2>4, <3>2, RestoreIs DEF DbOK
    <3> QED BY <1>3, <3>1, <3>2 DEF e
  <2>6. PICK m : /\ mem' = [mem EXCEPT ![c] = m] /\ CacheOK(m) /\ m.dirty = mem[c].dirty
                 /\ eState[c] # OPEN => /\ DOMAIN m.cache = DOMAIN mem[c].cache
                                        /\ m.dbSize = mem[c].dbSize
    BY <2>5
  <2>7. /\ t.off \in Nat /\ t.off <= Len(jrnl.data)
        /\ eState[c] # OPEN => m.dbSize = tx[c].orig /\ tx[c].orig <= Len(db')
    BY <2>1, <2>3, <2>5, <2>6
  <2>8. /\ pc[c] \in {"header", "record", "restored", "final"}
        /\ pc'[c] \in {"header", "record", "restored", "final"}
        /\ dbDisk' \in {dbDisk, db, db'}
        /\ UNCHANGED <<jrnl, jDisk, jSame, eState, txns, setting>>
    BY <1>1, <1>3
  <2>9. /\ eState[c] # OPEN => /\ DOMAIN m.cache = DOMAIN mem[c].cache
                              /\ m.dbSize = tx[c].orig /\ tx[c].orig <= Len(db')
        /\ t.off <= Len(jrnl.data) \/ eState[c] = OPEN
        /\ CacheOK(m) /\ mem' = [mem EXCEPT ![c] = m] /\ m.dirty = mem[c].dirty
        /\ t.off \in Nat /\ DbOK(db')
    BY <2>5, <2>6, <2>7
  <2> QED BY <2>1, <2>2, <2>8, <2>9, RestoreKeeps
<1>4. pc \in [Conns -> Steps]
  BY DEF TInv, IInv, ControlTypeOK
<1> QED BY <1>2, <1>3, <1>4 DEF ReadRecord

LEMMA FinishPlaybackKeeps ==
    ASSUME TInv, NEW c \in Conns, FinishPlayback(c)
    PROVE  Keeps(c)
<1> DEFINE m == Cleaned(mem[c])
<1>1. /\ pc[c] = "final" /\ eState'[c] = eState[c] /\ pc'[c] = "unlock"
      /\ mem' = [mem EXCEPT ![c] = m] /\ JournalFinalized(c)
      /\ UNCHANGED <<db, dbDisk, tx, txns, setting>>
  BY DEF FinishPlayback, TInv, IInv, ControlTypeOK
<1>2. /\ CacheOK(m) /\ m.dirty = {} /\ m.dbSize = mem[c].dbSize
      /\ DOMAIN m.cache = DOMAIN mem[c].cache \ {p \in DOMAIN mem[c].cache : p > mem[c].dbSize}
  BY Parts, CleanedIs
<1> HIDE DEF m
<1>3. /\ jrnl' \in [exists : BOOLEAN, data : Seq(Sectors)]
      /\ jDisk' \in {jDisk, jrnl'} /\ jSame' \in BOOLEAN
  BY <1>1, Parts, Restored, FinalizedIs
<1>4. FilesOK'
  <2>1. FilesOK /\ jDisk' \in {jDisk, jrnl, jrnl'}
    BY <1>3, Parts
  <2> QED BY <1>1, <1>3, <2>1, JournalFiles
<1>5. Reading(eState'[c], m, db')
  <2>1. CASE eState[c] = OPEN
    BY <1>1, <2>1 DEF Reading
  <2>2. CASE eState[c] # OPEN
    <3>1. /\ 1 \in DOMAIN mem[c].cache /\ mem[c].dbSize \in Pages /\ setting.pages \in Nat
          /\ mem[c].dbSize = tx[c].orig /\ tx[c].orig <= Len(db) /\ tx[c].orig \in Nat /\ Len(db) \in Nat
      BY <1>1, <2>2, Restored, Bounds DEF DbOK
    <3>2. 1 \in DOMAIN m.cache
      <4>1. ~(1 > mem[c].dbSize)
        BY <3>1 DEF Pages
      <4> QED BY <1>2, <3>1, <4>1
    <3>3. \A q \in 1 .. m.dbSize : q <= Len(db)
      BY <1>2, <3>1
    <3> QED BY <1>1, <1>2, <3>1, <3>2, <3>3 DEF Reading
  <2> QED BY <2>1, <2>2
<1>6. Writing(pc'[c], eState'[c], m, tx[c], db')
  <2>1. tx[c].job # "spill" /\ (eState[c] = OPEN \/ eState[c] \in WRITER_CACHEMOD .. WRITER_FINISHED)
    BY <1>1, Restored
  <2>2. eState[c] # OPEN => tx[c].orig \in 1 .. mem[c].dbSize /\ tx[c].orig <= Len(db)
    BY <1>1, <2>1, Parts DEF Writing
  <2> QED BY <1>1, <1>2, <2>1, <2>2 DEF Writing
<1>7. Journalling(pc'[c], eState'[c], tx[c], jrnl')
  BY <1>1 DEF Journalling
<1>8. Committed(pc'[c], eState'[c], tx[c], db', dbDisk', jrnl', jDisk', jSame')
  <2>1. tx[c].job # "none" \/ eState'[c] # WRITER_FINISHED
    BY <1>1, Restored
  <2> QED BY <2>1, Unfinished
<1>9. /\ tx' = [tx EXCEPT ![c] = tx[c]] /\ txns' \in Nat /\ tx[c] \in TxType /\ setting' = setting
      /\ eLock[c] >= RESERVED_LOCK
  BY <1>1, SameMem, Parts, Restored
<1> QED BY <1>1, <1>2, <1>4, <1>5, <1>6, <1>7, <1>8, <1>9, StepKeeps

-----------------------------------------------------------------------------
(* Failures.                                                               *)

LEMMA GivenUp ==
    ASSUME TInv, NEW c \in Conns, NEW m, CacheOK(m), m.dirty = {}, Unlocked(c, m),
           txns' = txns, setting' = setting, FilesOK',
           eLock[c] >= RESERVED_LOCK \/ UNCHANGED <<dbDisk, jDisk, jSame>>
    PROVE  Keeps(c)
<1>1. pc'[c] = "idle" /\ eState'[c] = OPEN
  BY DEF Unlocked, TInv, IInv, ControlTypeOK
<1>2. /\ Reading(OPEN, m, db') /\ Writing("idle", OPEN, m, NoTx, db')
      /\ Journalling("idle", OPEN, NoTx, jrnl')
      /\ Committed("idle", OPEN, NoTx, db', dbDisk', jrnl', jDisk', jSame')
  BY NoTxIs DEF Reading, Writing, Journalling, Committed
<1>3. mem' = [mem EXCEPT ![c] = m] /\ tx' = [tx EXCEPT ![c] = NoTx] /\ txns' \in Nat
  BY DEF Unlocked, TInv, Shapes
<1> QED BY <1>1, <1>2, <1>3, StepKeeps, NoTxIs

LEMMA ErrorKeeps ==
    ASSUME TInv, NEW c \in Conns, EnterError(c), UNCHANGED <<mem, tx, txns, setting>>, FilesOK',
           eLock[c] >= RESERVED_LOCK \/ UNCHANGED <<dbDisk, jDisk, jSame>>
    PROVE  Keeps(c)
<1>1. pc'[c] = "idle" /\ eState'[c] = ERROR
  BY DEF EnterError, TInv, IInv, ControlTypeOK
<1>2. Writing("idle", ERROR, mem[c], tx[c], db')
  BY Parts DEF Writing
<1>3. /\ Reading(ERROR, mem[c], db') /\ Journalling("idle", ERROR, tx[c], jrnl')
      /\ Committed("idle", ERROR, tx[c], db', dbDisk', jrnl', jDisk', jSame')
  BY DEF Reading, Journalling, Committed
<1>4. /\ mem' = [mem EXCEPT ![c] = mem[c]] /\ tx' = [tx EXCEPT ![c] = tx[c]] /\ txns' \in Nat
      /\ CacheOK(mem[c]) /\ tx[c] \in TxType /\ setting' = setting
  BY SameMem, Parts
<1> QED BY <1>1, <1>2, <1>3, <1>4, StepKeeps

LEMMA UnlockFailedKeeps ==
    ASSUME TInv, NEW c \in Conns, UnlockFailed(c)
    PROVE  Keeps(c)
<1>1. UNCHANGED <<files, mem, tx, txns, setting>> /\ EnterError(c)
  BY DEF UnlockFailed
<1>2. FilesOK' /\ UNCHANGED <<dbDisk, jDisk, jSame>>
  BY <1>1, FilesStay, Parts
<1> QED BY <1>1, <1>2, ErrorKeeps

LEMMA WorkFailsKeeps ==
    ASSUME TInv, NEW c \in Conns, WorkFails(c)
    PROVE  Keeps(c)
<1>1. /\ pc[c] \in {"zeroNext", "count", "journalSync", "write"}
      /\ UNCHANGED <<dbDisk, jDisk, jSame, mem, tx, txns, setting>>
  BY DEF WorkFails
<1>2. /\ db' = db
         \/ \E p \in Pages, v \in Contents : db' = Stored(p, v)
      /\ \/ jrnl' = jrnl
         \/ pc[c] = "zeroNext" /\ jrnl' = [exists |-> TRUE, data |-> NextZeroed(c)]
         \/ pc[c] = "count" /\ jrnl' = [exists |-> TRUE, data |-> Counted(c)]
  <2>1. CASE /\ pc[c] = "write"
             /\ tx[c].job = "spill" \/ mem[c].dirty # {}
             /\ \E v \in {Torn, ContentOut(c, NextOut(c))} : db' = Stored(NextOut(c), v)
             /\ UNCHANGED jrnl
    <3>1. NextOut(c) \in Pages /\ ContentOut(c, NextOut(c)) \in Contents /\ Torn \in Contents
      BY <2>1, NextOutIs DEF Contents
    <3> QED BY <2>1, <3>1
  <2>2. CASE \/ UNCHANGED <<db, jrnl>>
             \/ pc[c] = "zeroNext" /\ ~noSync /\ JournalIs(NextZeroed(c)) /\ UNCHANGED db
             \/ pc[c] = "count" /\ JournalIs(Counted(c)) /\ UNCHANGED db
    BY <2>2 DEF JournalIs
  <2> QED BY <2>1, <2>2 DEF WorkFails
<1>3. DbOK(db') /\ Len(db') >= Len(db)
  <2>1. DbOK(db) /\ setting \in Settings /\ Len(db) \in Nat
    BY PageOf, Parts DEF FilesOK
  <2>2. CASE db' = db
    BY <2>1, <2>2
  <2>3. CASE \E p \in Pages, v \in Contents : db' = Stored(p, v)
    BY <2>1, <2>3, StoredIs
  <2> QED BY <1>2, <2>2, <2>3
<1>4. /\ jrnl' \in [exists : BOOLEAN, data : Seq(Sectors)]
      /\ Len(jrnl'.data) = Len(jrnl.data) /\ jrnl'.data[1].pg = tx[c].orig
      /\ tx[c].hdr # 0 => jrnl'.data[1].kind = "hdr"
  <2>1. /\ jrnl \in [exists : BOOLEAN, data : Seq(Sectors)] /\ jrnl.data[1].pg = tx[c].orig
        /\ tx[c].hdr # 0 => jrnl.data[1].kind = "hdr"
    BY <1>1, Flushed, Parts DEF FilesOK
  <2>2. CASE jrnl' = jrnl
    BY <2>1, <2>2
  <2>3. CASE pc[c] = "zeroNext" /\ jrnl' = [exists |-> TRUE, data |-> NextZeroed(c)]
    BY <2>1, <2>3, ZeroedIs
  <2>4. CASE pc[c] = "count" /\ jrnl' = [exists |-> TRUE, data |-> Counted(c)]
    BY <2>4, CountedIs
  <2> QED BY <1>2, <2>2, <2>3, <2>4
<1>5. FilesOK'
  <2>1. db' \in Seq(Contents) /\ Len(db') \in Pages
    BY <1>3 DEF DbOK
  <2>2. FilesOK
    BY Parts
  <2> QED BY <1>1, <1>4, <2>1, <2>2 DEF FilesOK, DbOK, Sectors, Pages
<1>6. CASE tx[c].job = "spill"
  BY <1>1, <1>5, <1>6, ErrorKeeps DEF WorkFails
<1>7. CASE tx[c].job # "spill"
  <2>1. pc'[c] = "failed" /\ eState'[c] = eState[c]
    BY <1>7 DEF WorkFails, TInv, IInv, ControlTypeOK
  <2>2. eState[c] \in {WRITER_CACHEMOD, WRITER_DBMOD}
    BY <1>1, Flushed
  <2>3. Reading(eState'[c], mem[c], db')
    <3>1. /\ 1 \in DOMAIN mem[c].cache /\ mem[c].dbSize \in Pages /\ setting.pages \in Nat
          /\ \A q \in 1 .. mem[c].dbSize : q \in mem[c].dirty \/ q <= Len(db)
      BY <2>2, Parts, Bounds DEF Reading
    <3>2. Len(db) \in Nat /\ Len(db') \in Nat
      BY <1>3, Parts, LenProperties DEF FilesOK, DbOK
    <3>3. \A q \in 1 .. mem[c].dbSize : q \in mem[c].dirty \/ q <= Len(db')
      BY <1>3, <3>1, <3>2 DEF Pages
    <3> QED BY <3>1, <3>3 DEF Reading
  <2>4. Writing(pc'[c], eState'[c], mem[c], tx[c], db')
    <3>1. tx[c].orig \in 1 .. mem[c].dbSize /\ tx[c].orig <= Len(db) /\ tx[c].orig \in Nat
      BY <2>2, Parts DEF Writing, TxType
    <3>2. Len(db) \in Nat /\ Len(db') \in Nat
      BY <1>3, Parts, LenProperties DEF FilesOK, DbOK
    <3>3. tx[c].orig <= Len(db')
      BY <1>3, <3>1, <3>2
    <3> QED BY <1>7, <2>1, <2>2, <3>1, <3>3 DEF Writing
  <2>5. Journalling(pc'[c], eState'[c], tx[c], jrnl')
    BY <1>1, <1>4, <2>1, Flushed DEF Journalling
  <2>6. Committed(pc'[c], eState'[c], tx[c], db', dbDisk', jrnl', jDisk', jSame')
    BY <2>1, <2>2, Unfinished
  <2>7. /\ mem' = [mem EXCEPT ![c] = mem[c]] /\ tx' = [tx EXCEPT ![c] = tx[c]] /\ txns' \in Nat
        /\ CacheOK(mem[c]) /\ tx[c] \in TxType /\ setting' = setting
        /\ UNCHANGED <<dbDisk, jDisk, jSame>>
    BY <1>1, SameMem, Parts
  <2> QED BY <1>5, <2>3, <2>4, <2>5, <2>6, <2>7, StepKeeps
<1> QED BY <1>6, <1>7

LEMMA HalfFinalizedIs ==
    ASSUME FilesOK, NEW c, JournalHalfFinalized(c)
    PROVE  jrnl' \in [exists : BOOLEAN, data : Seq(Sectors)] /\ jSame' \in BOOLEAN
<1>1. /\ jrnl \in [exists : BOOLEAN, data : Seq(Sectors)] /\ jSame \in BOOLEAN
      /\ <<>> \in Seq(Sectors)
  BY DEF FilesOK
<1>2. CASE UNCHANGED <<jrnl, jSame>>
  BY <1>1, <1>2
<1>3. CASE jrnl' = NoJournal /\ jSame' = FALSE
  BY <1>1, <1>3 DEF NoJournal
<1>4. CASE JournalIs(<<>>) /\ UNCHANGED jSame
  BY <1>1, <1>4 DEF JournalIs
<1>5. CASE JournalIs(Put(jrnl.data, 1, Junk)) /\ UNCHANGED jSame
  <2> DEFINE s == Put(jrnl.data, 1, Junk)
  <2>1. s \in Seq(Sectors) /\ jrnl' = [exists |-> TRUE, data |-> s]
    BY <1>5, ZappedIs DEF JournalIs
  <2> HIDE DEF s
  <2> QED BY <1>1, <1>5, <2>1
<1> QED BY <1>2, <1>3, <1>4, <1>5 DEF JournalHalfFinalized

LEMMA CommitPhaseTwoFailsKeeps ==
    ASSUME TInv, NEW c \in Conns, CommitPhaseTwoFails(c)
    PROVE  Keeps(c)
<1>1. /\ pc[c] = "idle" /\ eState[c] = WRITER_FINISHED /\ JournalHalfFinalized(c)
      /\ pc'[c] = "unlockFailed" /\ eState' = eState
      /\ UNCHANGED <<db, dbDisk, jDisk, mem, tx, txns, setting>>
  BY DEF CommitPhaseTwoFails, TInv, IInv, ControlTypeOK
<1>2. FilesOK'
  <2>1. FilesOK /\ jrnl' \in [exists : BOOLEAN, data : Seq(Sectors)] /\ jSame' \in BOOLEAN
    BY <1>1, Parts, HalfFinalizedIs
  <2>2. jDisk' \in {jDisk, jrnl, jrnl'}
    BY <1>1
  <2> QED BY <1>1, <2>1, <2>2, JournalFiles
<1>3. eState'[c] = eState[c] /\ Reading(eState'[c], mem[c], db')
  BY <1>1, Parts
<1>4. Writing(pc'[c], eState'[c], mem[c], tx[c], db')
  BY <1>1, <1>3, Parts DEF Writing
<1>5. Journalling(pc'[c], eState'[c], tx[c], jrnl')
  BY <1>1 DEF Journalling
<1>6. Committed(pc'[c], eState'[c], tx[c], db', dbDisk', jrnl', jDisk', jSame')
  BY <1>1, <1>3, Parts DEF Committed
<1>7. /\ mem' = [mem EXCEPT ![c] = mem[c]] /\ tx' = [tx EXCEPT ![c] = tx[c]] /\ txns' \in Nat
      /\ CacheOK(mem[c]) /\ tx[c] \in TxType /\ setting' = setting /\ eLock[c] >= RESERVED_LOCK
  BY <1>1, SameMem, Parts DEF Fits
<1> QED BY <1>2, <1>3, <1>4, <1>5, <1>6, <1>7, StepKeeps

LEMMA FinishPlaybackFailsKeeps ==
    ASSUME TInv, NEW c \in Conns, FinishPlaybackFails(c)
    PROVE  Keeps(c)
<1>1. /\ pc[c] = "final" /\ JournalHalfFinalized(c)
      /\ UNCHANGED <<db, dbDisk, jDisk, txns, setting>>
  BY DEF FinishPlaybackFails
<1>2. FilesOK'
  <2>1. FilesOK /\ jrnl' \in [exists : BOOLEAN, data : Seq(Sectors)] /\ jSame' \in BOOLEAN
    BY <1>1, Parts, HalfFinalizedIs
  <2>2. jDisk' \in {jDisk, jrnl, jrnl'}
    BY <1>1
  <2> QED BY <1>1, <2>1, <2>2, JournalFiles
<1>3. eLock[c] >= RESERVED_LOCK /\ CacheOK(mem[c])
  BY <1>1, Restored
<1>4. CASE eState[c] = OPEN
  <2>1. Unlocked(c, Emptied(mem[c]))
    BY <1>4 DEF FinishPlaybackFails, isHot
  <2>2. CacheOK(Emptied(mem[c])) /\ Emptied(mem[c]).dirty = {}
    BY <1>3, CacheEmptied
  <2>3. txns' = txns /\ setting' = setting
    BY <1>1
  <2> QED BY <1>2, <1>3, <2>1, <2>2, <2>3, GivenUp
<1>5. CASE eState[c] # OPEN
  <2>1. pc'[c] = "unlockFailed" /\ eState'[c] = eState[c] /\ UNCHANGED <<mem, tx>>
    BY <1>5 DEF FinishPlaybackFails, isHot, TInv, IInv, ControlTypeOK
  <2>2. Reading(eState'[c], mem[c], db')
    BY <1>1, <2>1, Parts
  <2>3. Writing(pc'[c], eState'[c], mem[c], tx[c], db')
    <3>1. Writing(pc[c], eState[c], mem[c], tx[c], db)
      BY Parts
    <3>2. tx[c].job # "spill"
      BY <1>1, Restored
    <3> QED BY <1>1, <2>1, <3>1, <3>2 DEF Writing
  <2>4. Journalling(pc'[c], eState'[c], tx[c], jrnl')
    BY <2>1 DEF Journalling
  <2>5. Committed(pc'[c], eState'[c], tx[c], db', dbDisk', jrnl', jDisk', jSame')
    <3>1. tx[c].job # "none" \/ eState'[c] # WRITER_FINISHED
      BY <1>1, <2>1, Restored
    <3> QED BY <3>1, Unfinished
  <2>6. /\ mem' = [mem EXCEPT ![c] = mem[c]] /\ tx' = [tx EXCEPT ![c] = tx[c]] /\ txns' \in Nat
        /\ tx[c] \in TxType /\ setting' = setting
    BY <1>1, <2>1, SameMem, Parts
  <2> QED BY <1>2, <1>3, <2>2, <2>3, <2>4, <2>5, <2>6, StepKeeps
<1> QED BY <1>4, <1>5

LEMMA PlaybackFailsKeeps ==
    ASSUME TInv, NEW c \in Conns, PlaybackFails(c)
    PROVE  Keeps(c)
<1>1. /\ pc[c] \in {"hotOpen", "header", "record", "restored"}
      /\ UNCHANGED <<dbDisk, jrnl, jDisk, jSame, txns, setting>>
  BY DEF PlaybackFails
<1>2. DbOK(db')
  <2>1. CASE db' = db
    BY <2>1, Parts DEF FilesOK
  <2>2. CASE /\ pc[c] = "record" /\ RecordFollows(c)
             /\ LET e == NextRecord(c)
                IN  /\ ~Beyond(c, e) /\ ChecksumOK(c, e)
                    /\ \E v \in {Torn, e.val} : db' = Stored(e.pg, v)
    <3> DEFINE e == NextRecord(c)
    <3>1. e.pg \in Pages /\ e.val \in Contents /\ Torn \in Contents
      <4>1. /\ jrnl.data \in Seq(Sectors) /\ Len(jrnl.data) \in Nat /\ tx[c].off \in Nat
            /\ tx[c].off < Len(jrnl.data)
        BY <2>2, Restored DEF RecordFollows
      <4>2. e \in Sectors /\ e.kind = "rec"
        BY <2>2, <4>1, SectorOf DEF NextRecord, ChecksumOK
      <4> HIDE DEF e
      <4> QED BY <4>2 DEF Sectors, Sector, Contents, Torn, ToEndOfFile
    <3>2. DbOK(db) /\ setting \in Settings
      BY Parts DEF FilesOK
    <3>3. PICK v \in {Torn, e.val} : db' = Stored(e.pg, v)
      BY <2>2
    <3> HIDE DEF e
    <3> QED BY <3>1, <3>2, <3>3, StoredIs
  <2> QED BY <2>1, <2>2 DEF PlaybackFails
<1>3. FilesOK'
  BY <1>1, <1>2, Parts, DbFiles
<1>4. CASE eState[c] = OPEN
  <2>1. Unlocked(c, Emptied(mem[c])) /\ txns' = txns /\ setting' = setting
        /\ UNCHANGED <<dbDisk, jDisk, jSame>>
    BY <1>1, <1>4 DEF PlaybackFails, isHot
  <2>2. CacheOK(Emptied(mem[c])) /\ Emptied(mem[c]).dirty = {}
    BY Parts, CacheEmptied
  <2> QED BY <1>3, <2>1, <2>2, GivenUp
<1>5. CASE eState[c] # OPEN
  <2>1. EnterError(c) /\ UNCHANGED <<mem, tx, txns, setting>> /\ UNCHANGED <<dbDisk, jDisk, jSame>>
    BY <1>1, <1>5 DEF PlaybackFails, isHot
  <2> QED BY <1>3, <2>1, ErrorKeeps
<1> QED BY <1>4, <1>5

LEMMA NothingCached ==
    /\ setting \in Settings => CacheOK(EmptyCache)
    /\ EmptyCache.dirty = {}
<1>1. DOMAIN <<>> = {} /\ 0 \in Contents
  BY DEF Contents
<1>2. setting \in Settings => 0 \in 0 .. setting.pages
  BY Bounds
<1> QED BY <1>1, <1>2 DEF CacheOK, EmptyCache

LEMMA ProcessDeathKeeps ==
    ASSUME TInv, NEW c \in Conns, ProcessDeath(c)
    PROVE  Keeps(c)
<1>1. UNCHANGED files /\ UNCHANGED <<txns, setting>> /\ Dead({c}) /\ FilesOK /\ setting \in Settings
  BY Parts DEF ProcessDeath
<1>2. /\ pc'[c] = "idle" /\ eState'[c] = OPEN
      /\ mem' = [mem EXCEPT ![c] = EmptyCache] /\ tx' = [tx EXCEPT ![c] = NoTx]
  <2>1. mem' = [mem EXCEPT ![c] = EmptyCache]
    BY <1>1 DEF Dead, TInv, Shapes
  <2>2. tx' = [tx EXCEPT ![c] = NoTx]
    BY <1>1 DEF Dead, TInv, Shapes
  <2> QED BY <1>1, <2>1, <2>2 DEF Dead
<1>3. /\ Reading(OPEN, EmptyCache, db) /\ Writing("idle", OPEN, EmptyCache, NoTx, db)
      /\ Journalling("idle", OPEN, NoTx, jrnl)
      /\ Committed("idle", OPEN, NoTx, db, dbDisk, jrnl, jDisk, jSame)
  BY NoTxIs, NothingCached DEF Reading, Writing, Journalling, Committed
<1>4. UNCHANGED <<files, setting>> /\ txns' \in Nat /\ CacheOK(EmptyCache) /\ NoTx \in TxType
  BY <1>1, NothingCached, NoTxIs DEF TInv, Shapes
<1> QED BY <1>2, <1>3, <1>4, MemKeeps

-----------------------------------------------------------------------------
(* The steps of one connection.                                            *)

LEMMA WriteStepKeeps ==
    ASSUME TInv, NEW c \in Conns, WriteStep(c)
    PROVE  Keeps(c)
<1>1. CASE Begin(c) \/ CommitPhaseOne(c) \/ \E p \in Pages : Write(c, p) \/ Spill(c, p)
  BY <1>1, BeginKeeps, CommitPhaseOneKeeps, WriteKeeps, SpillKeeps
<1>2. CASE CommitNothing(c) \/ AskExclusive(c) \/ GetExclusive(c) \/ Busy(c)
  BY <1>2, FlushStartKeeps, BusyKeeps
<1>3. CASE ZeroNext(c) \/ WriteCount(c) \/ SkipSync(c) \/ SyncJournal(c)
  BY <1>3, ZeroNextKeeps, WriteCountKeeps, SkipSyncKeeps, SyncJournalKeeps
<1>4. CASE PageOut(c) \/ SyncDb(c) \/ CommitPhaseTwo(c) \/ Unlock(c)
  BY <1>4, PageOutKeeps, SyncDbKeeps, CommitPhaseTwoKeeps, UnlockKeeps
<1> QED BY <1>1, <1>2, <1>3, <1>4 DEF WriteStep

LEMMA RollbackStepKeeps ==
    ASSUME TInv, NEW c \in Conns, RollbackStep(c)
    PROVE  Keeps(c)
BY RollbackKeeps, ReadHeaderKeeps, ReadRecordKeeps, SyncRestoredKeeps, FinishPlaybackKeeps
   DEF RollbackStep

LEMMA FailStepKeeps ==
    ASSUME TInv, NEW c \in Conns, FailStep(c)
    PROVE  Keeps(c)
BY WorkFailsKeeps, CommitPhaseTwoFailsKeeps, UnlockFailedKeeps, PlaybackFailsKeeps,
   FinishPlaybackFailsKeeps, LeaveErrorKeeps, ProcessDeathKeeps DEF FailStep

LEMMA ConnStepKeeps ==
    ASSUME TInv, NEW c \in Conns, ReadStep(c) \/ WriteStep(c) \/ RollbackStep(c) \/ FailStep(c)
    PROVE  TInv'
<1>1. IInv
  BY DEF TInv
<1>2. Moves(c) /\ InHand(c)
  BY <1>1, ReadStepMoves, WriteStepMoves, RollbackStepMoves, FailStepMoves
<1>3. Keeps(c)
  BY ReadStepKeeps, WriteStepKeeps, RollbackStepKeeps, FailStepKeeps
<1> QED BY <1>2, <1>3, OthersKept

-----------------------------------------------------------------------------
(* What a power failure leaves of a file.  A recursive function needs to   *)
(* be shown to exist before it can be reasoned about.                      *)

Layers(new, old, junk, N, upTo) ==
    upTo = [n \in 0 .. N |->
               IF n = 0 THEN {<<>>} ELSE Longer(upTo[n - 1], Leftovers(new, old, junk, n))]

LEMMA LayersExist ==
    ASSUME NEW new, NEW old, NEW junk, NEW N \in Nat
    PROVE  \E upTo : Layers(new, old, junk, N, upTo)
<1> DEFINE Made(S, n) == Longer(S, Leftovers(new, old, junk, n))
           T == {m \in 0 .. N : ~\E at : Layers(new, old, junk, m, at)}
<1>1. SUFFICES ASSUME T # {} PROVE FALSE
  OBVIOUS
<1>0. T \subseteq 0 .. N /\ T \subseteq Nat
  OBVIOUS
<1>2. PICK m \in T : \A y \in T : m <= y
  <2> HIDE DEF T
  <2> QED BY <1>0, <1>1, Least
<1>3. CASE m = 0
  <2> DEFINE at == [k \in 0 .. 0 |-> {<<>>}]
  <2>1. Layers(new, old, junk, 0, at)
    BY DEF Layers
  <2> HIDE DEF at
  <2> QED BY <1>3, <2>1
<1>4. CASE m # 0
  <2>1. m - 1 \in 0 .. N /\ m - 1 \notin T
    <3> HIDE DEF T
    <3> QED BY <1>0, <1>2, <1>4
  <2>2. PICK g : Layers(new, old, junk, m - 1, g)
    BY <2>1
  <2> DEFINE h == [k \in 0 .. m |-> IF k = m THEN Made(g[m - 1], m) ELSE g[k]]
  <2>3. ASSUME NEW k \in 0 .. m
        PROVE  h[k] = IF k = 0 THEN {<<>>} ELSE Made(h[k - 1], k)
    <3> HIDE DEF Made
    <3>1. CASE k = m
      BY <1>2, <1>4, <3>1
    <3>2. CASE k # m
      <4>1. k \in 0 .. m - 1 /\ h[k] = g[k] /\ (k # 0 => h[k - 1] = g[k - 1])
        BY <1>2, <3>2
      <4>2. g[k] = IF k = 0 THEN {<<>>} ELSE Made(g[k - 1], k)
        BY <2>2, <4>1 DEF Layers, Made
      <4> QED BY <4>1, <4>2
    <3> QED BY <3>1, <3>2
  <2>4. h = [k \in 0 .. m |-> h[k]]
    OBVIOUS
  <2>5. Layers(new, old, junk, m, h)
    <3> HIDE DEF h
    <3> QED BY <2>3, <2>4 DEF Layers
  <2> HIDE DEF h
  <2> QED BY <1>2, <2>5
<1> QED BY <1>3, <1>4

LEMMA LongerAre ==
    ASSUME NEW S, NEW n \in Nat, NEW A, NEW B, \A s \in A : s \in Seq(S) /\ Len(s) = n, B \subseteq S
    PROVE  \A t \in Longer(A, B) : t \in Seq(S) /\ Len(t) = n + 1
<1>1. ASSUME NEW s \in A, NEW x \in B
      PROVE  Append(s, x) \in Seq(S) /\ Len(Append(s, x)) = n + 1
  <2>1. s \in Seq(S) /\ Len(s) = n /\ x \in S
    OBVIOUS
  <2> QED BY <2>1, AppendProperties
<1> QED BY <1>1 DEF Longer

LEMMA LayersAre ==
    ASSUME NEW S, NEW new \in Seq(S), NEW old \in Seq(S), NEW junk \in S, NEW N \in Nat,
           NEW upTo, Layers(new, old, junk, N, upTo)
    PROVE  \A n \in 0 .. N : \A s \in upTo[n] : s \in Seq(S) /\ Len(s) = n
<1> DEFINE Good(n) == \A s \in upTo[n] : s \in Seq(S) /\ Len(s) = n
           T == {n \in 0 .. N : ~Good(n)}
<1>1. SUFFICES ASSUME T # {} PROVE FALSE
  OBVIOUS
<1>0. T \subseteq 0 .. N /\ T \subseteq Nat
  OBVIOUS
<1>2. PICK m \in T : \A y \in T : m <= y
  <2> HIDE DEF T
  <2> QED BY <1>0, <1>1, Least
<1>3. ~Good(m) /\ m \in 0 .. N
  BY <1>2
<1>4. m # 0
  <2>1. upTo[0] = {<<>>}
    BY DEF Layers
  <2>2. Good(0)
    BY <2>1
  <2> QED BY <1>3, <2>2
<1>5. Good(m - 1) /\ m \in 1 .. N
  <2>1. m - 1 \in 0 .. N /\ m - 1 \notin T /\ m \in 1 .. N
    <3> HIDE DEF T
    <3> QED BY <1>0, <1>2, <1>4
  <2> QED BY <2>1
<1>6. upTo[m] = Longer(upTo[m - 1], Leftovers(new, old, junk, m))
  <2>1. m \in 0 .. N /\ m # 0
    BY <1>3, <1>4
  <2> HIDE DEF Good, T
  <2> QED BY <2>1 DEF Layers
<1>7. Leftovers(new, old, junk, m) \subseteq S
  <2>1. \A t \in {new, old} : m <= Len(t) => t[m] \in S
    BY <1>5, ElementOfSeq
  <2> QED BY <2>1 DEF Leftovers
<1>8. m - 1 \in Nat /\ (m - 1) + 1 = m /\ \A s \in upTo[m - 1] : s \in Seq(S) /\ Len(s) = m - 1
  BY <1>5
<1>9. \A t \in Longer(upTo[m - 1], Leftovers(new, old, junk, m)) : t \in Seq(S) /\ Len(t) = (m - 1) + 1
  <2> HIDE DEF T, Good
  <2> QED BY <1>7, <1>8, LongerAre
<1> QED BY <1>3, <1>6, <1>8, <1>9

(* Where the processes and the disk agree there is only one outcome.       *)
LEMMA LayersAgree ==
    ASSUME NEW S, NEW x \in Seq(S), NEW junk, NEW upTo, Layers(x, x, junk, Len(x), upTo)
    PROVE  \A n \in 0 .. Len(x) : upTo[n] = {SubSeq(x, 1, n)}
<1> DEFINE N == Len(x)
           Good(n) == upTo[n] = {SubSeq(x, 1, n)}
           T == {n \in 0 .. N : ~Good(n)}
<1>1. SUFFICES ASSUME T # {} PROVE FALSE
  OBVIOUS
<1>l. N \in Nat
  BY LenProperties
<1>0. T \subseteq 0 .. N /\ T \subseteq Nat
  BY <1>l
<1>2. PICK m \in T : \A y \in T : m <= y
  <2> HIDE DEF T
  <2> QED BY <1>0, <1>1, Least
<1>3. ~Good(m) /\ m \in 0 .. N
  BY <1>2
<1>4. m # 0
  <2>1. upTo[0] = {<<>>}
    BY <1>l DEF Layers
  <2>2. SubSeq(x, 1, 0) = <<>>
    BY SubSeqProperties
  <2>3. Good(0)
    BY <2>1, <2>2
  <2> QED BY <1>3, <2>3
<1>5. Good(m - 1) /\ m \in 1 .. N
  <2>1. m - 1 \in 0 .. N /\ m - 1 \notin T /\ m \in 1 .. N
    <3> HIDE DEF T
    <3> QED BY <1>0, <1>2, <1>4
  <2> QED BY <2>1
<1>6. upTo[m] = Longer(upTo[m - 1], Leftovers(x, x, junk, m))
  <2>1. m \in 0 .. N /\ m # 0
    BY <1>3, <1>4
  <2> HIDE DEF Good, T
  <2> QED BY <2>1 DEF Layers
<1>7. Leftovers(x, x, junk, m) = {x[m]}
  BY <1>5, <1>l DEF Leftovers
<1>8. upTo[m] = {Append(SubSeq(x, 1, m - 1), x[m])}
  BY <1>5, <1>6, <1>7 DEF Longer
<1>9. SubSeq(x, 1, m) = Append(SubSeq(x, 1, m - 1), x[m])
  <2> DEFINE u == SubSeq(x, 1, m)
             v == SubSeq(x, 1, m - 1)
  <2>1. u \in Seq(S) /\ Len(u) = m /\ \A i \in 1 .. m : u[i] = x[i]
    BY <1>5, <1>l, SubSeqProperties
  <2>2. v \in Seq(S) /\ Len(v) = m - 1 /\ \A i \in 1 .. m - 1 : v[i] = x[i]
    BY <1>5, <1>l, SubSeqProperties
  <2>3. x[m] \in S
    BY <1>5, ElementOfSeq
  <2> HIDE DEF u, v
  <2>4. Append(v, x[m]) \in Seq(S) /\ Len(Append(v, x[m])) = m
        /\ Append(v, x[m])[m] = x[m] /\ \A i \in 1 .. m - 1 : Append(v, x[m])[i] = x[i]
    BY <1>5, <2>2, <2>3, AppendProperties
  <2>5. \A i \in 1 .. m : u[i] = Append(v, x[m])[i]
    BY <1>5, <2>1, <2>4
  <2>6. u = Append(v, x[m])
    BY <2>1, <2>4, <2>5, SeqEqual
  <2> QED BY <2>6 DEF u, v
<1> QED BY <1>3, <1>8, <1>9

LEMMA WrecksByLayers ==
    ASSUME NEW S, NEW new \in Seq(S), NEW old \in Seq(S), NEW junk
    PROVE  LET N == Larger(Len(new), Len(old))
           IN  /\ N \in Nat /\ Len(new) \in 0 .. N /\ Len(old) \in 0 .. N
               /\ \E upTo : /\ Layers(new, old, junk, N, upTo)
                            /\ Wrecks(new, old, junk) = upTo[Len(new)] \cup upTo[Len(old)]
<1> DEFINE N == Larger(Len(new), Len(old))
           upTo == CHOOSE upTo : upTo = [n \in 0 .. N |->
                       IF n = 0 THEN {<<>>}
                       ELSE Longer(upTo[n - 1], Leftovers(new, old, junk, n))]
<1>1. N \in Nat /\ Len(new) \in 0 .. N /\ Len(old) \in 0 .. N
  BY LenProperties DEF Larger
<1>2. Layers(new, old, junk, N, upTo)
  <2>1. \E f : f = [n \in 0 .. N |->
                       IF n = 0 THEN {<<>>}
                       ELSE Longer(f[n - 1], Leftovers(new, old, junk, n))]
    <3>1. \E f : Layers(new, old, junk, N, f)
      <4> HIDE DEF N
      <4> QED BY <1>1, LayersExist
    <3> HIDE DEF N
    <3> QED BY <3>1, Zenon DEF Layers
  <2>2. upTo = [n \in 0 .. N |->
                   IF n = 0 THEN {<<>>}
                   ELSE Longer(upTo[n - 1], Leftovers(new, old, junk, n))]
    BY <2>1, ZenonT(60)
  <2> HIDE DEF N, upTo
  <2> QED BY <2>2, Zenon DEF Layers
<1>3. Wrecks(new, old, junk) = upTo[Len(new)] \cup upTo[Len(old)]
  BY DEF Wrecks
<1> HIDE DEF upTo
<1> QED BY <1>1, <1>2, <1>3

LEMMA WrecksAre ==
    ASSUME NEW S, NEW new \in Seq(S), NEW old \in Seq(S), NEW junk \in S,
           NEW s \in Wrecks(new, old, junk)
    PROVE  s \in Seq(S) /\ Len(s) \in {Len(new), Len(old)}
<1> DEFINE N == Larger(Len(new), Len(old))
<1>1. N \in Nat /\ Len(new) \in 0 .. N /\ Len(old) \in 0 .. N
  BY WrecksByLayers
<1>2. PICK upTo : /\ Layers(new, old, junk, N, upTo)
                  /\ Wrecks(new, old, junk) = upTo[Len(new)] \cup upTo[Len(old)]
  BY WrecksByLayers
<1> HIDE DEF N
<1>3. \A n \in 0 .. N : \A t \in upTo[n] : t \in Seq(S) /\ Len(t) = n
  BY <1>1, <1>2, LayersAre
<1> QED BY <1>1, <1>2, <1>3

LEMMA NothingToWreck ==
    ASSUME NEW S, NEW x \in Seq(S), NEW junk
    PROVE  Wrecks(x, x, junk) = {x}
<1>1. Larger(Len(x), Len(x)) = Len(x) /\ Len(x) \in Nat
  BY LenProperties DEF Larger
<1>2. PICK upTo : /\ Layers(x, x, junk, Len(x), upTo)
                  /\ Wrecks(x, x, junk) = upTo[Len(x)] \cup upTo[Len(x)]
  BY <1>1, WrecksByLayers
<1>3. upTo[Len(x)] = {SubSeq(x, 1, Len(x))}
  BY <1>1, <1>2, LayersAgree
<1>4. SubSeq(x, 1, Len(x)) = x
  <2>1. /\ SubSeq(x, 1, Len(x)) \in Seq(S) /\ Len(SubSeq(x, 1, Len(x))) = Len(x)
        /\ \A i \in 1 .. Len(x) : SubSeq(x, 1, Len(x))[i] = x[i]
    BY <1>1, SubSeqProperties
  <2> QED BY <2>1, SeqEqual
<1> QED BY <1>2, <1>3, <1>4

-----------------------------------------------------------------------------
(* The machine.                                                            *)

LEMMA WreckedFiles ==
    ASSUME FilesOK, PowerFailure
    PROVE  FilesOK'
<1>1. /\ db \in Seq(Contents) /\ dbDisk \in Seq(Contents) /\ Len(db) \in Pages /\ Len(dbDisk) \in Pages
      /\ jrnl.data \in Seq(Sectors) /\ jDisk.data \in Seq(Sectors) /\ <<>> \in Seq(Sectors)
      /\ Torn \in Contents /\ Junk \in Sectors
  BY DEF FilesOK, DbOK, Contents, Junk, Sectors, Sector
<1>2. PICK d \in Wrecks(db, dbDisk, Torn) : db' = d /\ dbDisk' = d
  BY DEF PowerFailure
<1>3. d \in Seq(Contents) /\ Len(d) \in {Len(db), Len(dbDisk)}
  BY <1>1, <1>2, WrecksAre
<1>4. jrnl' \in [exists : BOOLEAN, data : Seq(Sectors)]
  <2>1. CASE jrnl' = jDisk
    BY <2>1 DEF FilesOK
  <2>2. CASE jrnl' = NoJournal
    BY <1>1, <2>2 DEF NoJournal
  <2>3. CASE \E e \in Wrecks(jrnl.data, IF jSame THEN jDisk.data ELSE <<>>, Junk) : JournalIs(e)
    <3> DEFINE old == IF jSame THEN jDisk.data ELSE <<>>
    <3>1. PICK e \in Wrecks(jrnl.data, old, Junk) : jrnl' = [exists |-> TRUE, data |-> e]
      BY <2>3 DEF JournalIs
    <3>2. old \in Seq(Sectors)
      BY <1>1
    <3> HIDE DEF old
    <3>3. e \in Seq(Sectors)
      BY <1>1, <3>1, <3>2, WrecksAre
    <3> QED BY <3>1, <3>3
  <2> QED BY <2>1, <2>2, <2>3 DEF PowerFailure
<1>5. jDisk' = jrnl' /\ jSame' = TRUE /\ setting' = setting
  BY DEF PowerFailure
<1> QED BY <1>1, <1>2, <1>3, <1>4, <1>5 DEF FilesOK, DbOK, Sectors, Pages

LEMMA PowerFailureKeepsTypes ==
    ASSUME TInv, PowerFailure
    PROVE  TInv'
<1>1. IInv /\ FilesOK /\ setting \in Settings
  BY DEF TInv, Shapes
<1>2. IInv' /\ FilesOK'
  BY <1>1, PowerFailureKeeps, WreckedFiles
<1>3. /\ eState' = [c \in Conns |-> OPEN] /\ pc' = [c \in Conns |-> "idle"]
      /\ mem' = [c \in Conns |-> EmptyCache] /\ tx' = [c \in Conns |-> NoTx]
      /\ txns' = txns /\ setting' = setting
  BY DEF PowerFailure, Dead
<1>4. NoTx \in TxType' /\ CacheOK(EmptyCache)'
  <2>1. NoTx \in TxType /\ CacheOK(EmptyCache)
    BY <1>1, NoTxIs, NothingCached
  <2> QED BY <1>3, <2>1 DEF TxType, CacheOK, Pages
<1>5. Shapes'
  BY <1>3, <1>4 DEF TInv, Shapes
<1>6. ASSUME NEW c \in Conns PROVE Conn(c)'
  <2>1. mem'[c] = EmptyCache /\ tx'[c] = NoTx /\ pc'[c] = "idle" /\ eState'[c] = OPEN
    BY <1>3
  <2>2. CacheOK(mem[c])'
    BY <1>4, <2>1 DEF CacheOK, Pages
  <2>3. Reading(eState[c], mem[c], db)' /\ Journalling(pc[c], eState[c], tx[c], jrnl)'
    BY <2>1 DEF Reading, Journalling
  <2>4. Writing(pc[c], eState[c], mem[c], tx[c], db)'
    BY <2>1, NoTxIs, NothingCached DEF Writing
  <2>5. Committed(pc[c], eState[c], tx[c], db, dbDisk, jrnl, jDisk, jSame)'
    BY <2>1 DEF Committed
  <2> QED BY <2>2, <2>3, <2>4, <2>5 DEF Conn
<1> QED BY <1>2, <1>5, <1>6 DEF TInv

-----------------------------------------------------------------------------
(* A new database file, and nobody has opened it.                          *)
THEOREM InitTyped == Init => TInv
<1> SUFFICES ASSUME Init PROVE TInv
  OBVIOUS
<1>1. IInv /\ setting \in Settings /\ InitSize \in Nat /\ InitSize \in Pages
  BY InitFits, Bounds, PagerAssumption DEF Init
<1>2. DbOK(db)
  <2> DEFINE d == [p \in 1 .. InitSize |-> 0]
  <2>1. d \in [1 .. InitSize -> Contents]
    BY DEF Contents
  <2>2. d \in Seq(Contents) /\ Len(d) = InitSize
    BY <1>1, <2>1, SeqDef, LenProperties
  <2>3. db = d
    BY DEF Init
  <2> HIDE DEF d
  <2> QED BY <1>1, <2>2, <2>3 DEF DbOK
<1>3. FilesOK
  <2>1. <<>> \in Seq(Sectors)
    OBVIOUS
  <2>2. dbDisk = db /\ jrnl = NoJournal /\ jDisk = NoJournal /\ jSame = TRUE
    BY DEF Init
  <2> QED BY <1>2, <2>1, <2>2 DEF FilesOK, NoJournal
<1>4. /\ eState = [c \in Conns |-> OPEN] /\ pc = [c \in Conns |-> "idle"] /\ txns = 0
      /\ mem = [c \in Conns |-> EmptyCache] /\ tx = [c \in Conns |-> NoTx]
  BY DEF Init
<1>5. NoTx \in TxType /\ CacheOK(EmptyCache)
  BY <1>1, NoTxIs, NothingCached
<1>6. Shapes
  BY <1>1, <1>4, <1>5 DEF Shapes
<1>7. ASSUME NEW c \in Conns PROVE Conn(c)
  <2>1. mem[c] = EmptyCache /\ tx[c] = NoTx /\ pc[c] = "idle" /\ eState[c] = OPEN
    BY <1>4
  <2> QED BY <1>5, <2>1, NoTxIs, NothingCached DEF Conn, Reading, Writing, Journalling, Committed
<1> QED BY <1>1, <1>3, <1>6, <1>7 DEF TInv

LEMMA NextKeepsTypes ==
    TInv /\ [Next]_vars => TInv'
<1> SUFFICES ASSUME TInv, [Next]_vars PROVE TInv'
  OBVIOUS
<1>1. CASE UNCHANGED vars
  <2>1. IInv' /\ UNCHANGED <<db, dbDisk, jrnl, jDisk, jSame, eState, eLock, pc, mem, tx, txns, setting>>
    BY <1>1, NextKeeps DEF TInv, vars, files
  <2>2. FilesOK' /\ Shapes'
    BY <2>1 DEF TInv, FilesOK, DbOK, Sectors, Shapes, TxType, Pages
  <2>3. ASSUME NEW c \in Conns PROVE Conn(c)'
    <3>1. Conn(c)
      BY DEF TInv
    <3> QED BY <2>1, <3>1 DEF Conn, CacheOK, Reading, Writing, Journalling, Committed, Pages,
                EndIsSynced, noSync, fullSync, extraSync, JournalMode
  <2> QED BY <2>1, <2>2, <2>3 DEF TInv
<1>2. CASE Next
  BY <1>2, ConnStepKeeps, PowerFailureKeepsTypes DEF Next
<1> QED BY <1>1, <1>2

LEMMA TypesFollow == TInv => TypeOK
<1> SUFFICES ASSUME TInv PROVE TypeOK
  OBVIOUS
<1>1. Seq(Sectors) \subseteq Seq(Sector)
  <2>1. Sectors \subseteq Sector
    BY DEF Sectors
  <2> QED BY <2>1
<1>2. db \in Seq(Contents) /\ dbDisk \in Seq(Contents) /\ jSame \in BOOLEAN
  BY DEF TInv, FilesOK, DbOK
<1>3. jrnl \in JournalFile /\ jDisk \in JournalFile
  BY <1>1 DEF TInv, FilesOK, JournalFile
<1>4. eState \in [Conns -> OPEN .. ERROR] /\ eLock \in [Conns -> Locks!Levels] /\ pc \in [Conns -> Steps]
  <2>1. Locks!Levels = 0 .. 4
    BY DEF Locks!Levels
  <2> QED BY <2>1 DEF TInv, IInv, ControlTypeOK
<1>5. /\ DOMAIN mem = Conns /\ \A c \in Conns : CacheOK(mem[c])
      /\ tx \in [Conns -> TxType] /\ txns \in Nat /\ setting \in Settings
  BY DEF TInv, Shapes, Conn
<1> QED BY <1>2, <1>3, <1>4, <1>5 DEF TypeOK

(* Every reachable state satisfies TInv: the shapes of the files and of    *)
(* every connection's cache and transaction.                               *)
THEOREM StatesTyped == Spec => []TInv
<1> QED BY InitTyped, NextKeepsTypes, PTL DEF Spec

(* No count goes below zero, no page beyond the bound is cached, and every *)
(* record and header of a journal is well formed, whatever dies or fails.  *)
THEOREM Typing == Spec => []TypeOK
<1> QED BY StatesTyped, TypesFollow, PTL

-----------------------------------------------------------------------------
(* Where the files on the disk are what the processes see, a power failure *)
(* leaves the image that it finds.                                         *)
LEMMA SyncedIsFinal ==
    ASSUME FilesOK, dbDisk = db, jDisk = jrnl, jSame = TRUE, jrnl.exists \/ jrnl.data = <<>>
    PROVE  AfterPowerFailure \subseteq {Image}
<1>1. /\ db \in Seq(Contents) /\ jrnl \in [exists : BOOLEAN, data : Seq(Sectors)]
      /\ jrnl.data \in Seq(Sectors)
  BY DEF FilesOK, DbOK
<1>2. Wrecks(db, dbDisk, Torn) = {db} /\ Wrecks(jrnl.data, jDisk.data, Junk) = {jrnl.data}
  BY <1>1, NothingToWreck
<1> DEFINE D == Wrecks(db, dbDisk, Torn)
           J == {jDisk.data} \cup
                   (IF jrnl.exists THEN Wrecks(jrnl.data, IF jSame THEN jDisk.data ELSE <<>>, Junk)
                                   ELSE {<<>>})
           Back(d, j) == Recovered(d, [exists |-> TRUE, data |-> j])
           image == Back(db, jrnl.data)
<1>3. \A d \in D, j \in J : d = db /\ j = jrnl.data
  BY <1>2
<1>4. Recovered(db, [exists |-> TRUE, data |-> jrnl.data]) = Recovered(db, jrnl)
  <2> DEFINE j == [exists |-> TRUE, data |-> jrnl.data]
  <2>1. CASE jrnl.exists
    <3>1. jrnl = j
      BY <1>1, <2>1
    <3> QED BY <3>1
  <2>2. CASE jrnl.data = <<>>
    <3>1. j.data = <<>>
      BY <2>2
    <3> HIDE DEF j
    <3>2. ~LooksHot(j) /\ ~LooksHot(jrnl)
      BY <2>2, <3>1 DEF LooksHot
    <3>3. Recovered(db, j) = db
      BY <3>2, Zenon DEF Recovered
    <3>4. Recovered(db, jrnl) = db
      BY <3>2, Zenon DEF Recovered
    <3> QED BY <3>3, <3>4 DEF j
  <2> QED BY <2>1, <2>2
<1>5. AfterPowerFailure = {Back(d, j) : d \in D, j \in J}
  BY DEF AfterPowerFailure
<1> HIDE DEF D, J, Back
<1>6. \A x \in AfterPowerFailure : x = Back(db, jrnl.data)
  <2>1. \A x \in AfterPowerFailure : \E d \in D, j \in J : x = Back(d, j)
    BY <1>5
  <2> QED BY <1>3, <2>1
<1> QED BY <1>4, <1>6 DEF Image, Back

LEMMA FinalityFollows == TInv => SyncedCommitIsFinal
<1> SUFFICES ASSUME TInv, extraSync \/ (fullSync /\ JournalMode # "delete"), NEW c \in Conns,
                    pc[c] = "unlock", eState[c] = WRITER_FINISHED, tx[c].job = "none"
             PROVE  AfterPowerFailure \subseteq {Image}
  BY DEF SyncedCommitIsFinal
<1>1. EndIsSynced /\ ~noSync
  BY DEF EndIsSynced, extraSync, fullSync, noSync
<1>2. /\ dbDisk = db /\ jDisk = jrnl /\ jSame = TRUE /\ (jrnl.exists \/ jrnl.data = <<>>)
      /\ FilesOK
  BY <1>1, Parts DEF Committed
<1> QED BY <1>2, SyncedIsFinal

(* Where sqlite3PagerCommitPhaseTwo syncs the end of the journal, no power *)
(* failure takes the transaction back once it has come to the unlock.      *)
THEOREM SyncedCommitsLast == Spec => []SyncedCommitIsFinal
<1> QED BY StatesTyped, FinalityFollows, PTL
=============================================================================
