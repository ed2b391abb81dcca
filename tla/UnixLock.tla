------------------------------ MODULE UnixLock ------------------------------
(***************************************************************************)
(* The POSIX advisory locking of os_unix.c: unixLock, posixUnlock,         *)
(* unixCheckReservedLock, unixClose and unixOpen on one database file.     *)
(*                                                                         *)
(* The kernel keeps fcntl() locks per PROCESS and inode, and drops every   *)
(* one of them when the process closes ANY descriptor of the file.  The    *)
(* code therefore keeps, per process, a unixInodeInfo that counts locks    *)
(* and parks descriptors it must not close yet.  A step of this module is  *)
(* one fcntl() or close() call, with the bookkeeping done under            *)
(* unixInodeInfo.pLockMutex around it: other processes interleave between  *)
(* those calls, threads of the same process do not, except in unixClose,   *)
(* which leaves pLockMutex before it closes the descriptor.                *)
(*                                                                         *)
(* fcntl() answers "granted" or "conflict" here (I/O errors of the calls   *)
(* are left out), and the WAL test unixIsSharingShmNode() is always false. *)
(***************************************************************************)
EXTENDS Naturals, FiniteSets

CONSTANTS
    Procs,      \* processes that use the database file
    Conns,      \* connections, one unixFile each
    ProcOf,     \* the process of each connection
    Threaded    \* processes that use their connections from several threads

ASSUME ConnsAssumption ==
    /\ IsFiniteSet(Conns)
    /\ ProcOf \in [Conns -> Procs]
    /\ Threaded \subseteq Procs

NO_LOCK        == 0
SHARED_LOCK    == 1
RESERVED_LOCK  == 2
PENDING_LOCK   == 3
EXCLUSIVE_LOCK == 4

Levels == NO_LOCK .. EXCLUSIVE_LOCK

VARIABLES
    open,       \* connections whose unixFile is open
    eFileLock,  \* unixFile.eFileLock
    pc,         \* where a connection's call stands between two system calls
    inode,      \* unixInodeInfo of each process
    kernel      \* kernel[p]: the fcntl() locks of process p

vars == <<open, eFileLock, pc, inode, kernel>>

(* PENDING_BYTE, RESERVED_BYTE and the SHARED_FIRST..SHARED_SIZE range. *)
Ranges == {"pending", "reserved", "shared"}

Modes == {"none", "read", "write"}

Unlocked == [r \in Ranges |-> "none"]

FreshInode == [eFileLock |-> NO_LOCK, nShared |-> 0, nLock |-> 0, nUnused |-> 0]

PCs == {"idle",
        "sharedRange",    \* unixLock(SHARED) holds the pending byte
        "sharedDrop",     \* ... and the shared range: drop the pending byte
        "sharedFail",     \* ... was refused the range: drop the pending byte
        "exclusiveRange", \* unixLock(EXCLUSIVE) has just become PENDING
        "unlockBytes",    \* posixUnlock(SHARED) has read-locked the range
        "unlockAll",      \* posixUnlock(NO_LOCK) has dropped the two bytes
        "closing"}        \* unixClose has left pLockMutex, close() to come

Peers(c) == {d \in Conns : ProcOf[d] = ProcOf[c]}

(* pLockMutex is free: no connection of the process is inside it. *)
MutexFree(c) == \A d \in Peers(c) : pc[d] \in {"idle", "closing"}

(* unixBigLock, taken by open and close, is free. *)
BigLockFree(c) == \A d \in Peers(c) : pc[d] # "closing"

(* Connection c may enter a VFS method: it is not inside one, and a        *)
(* single-threaded process is inside none.                                 *)
CanCall(c) ==
    /\ c \in open
    /\ pc[c] = "idle"
    /\ ProcOf[c] \in Threaded \/ \A d \in Peers(c) : pc[d] = "idle"

(* fcntl(F_SETLK) conflicts only with locks of OTHER processes. *)
Grants(p, r, mode) ==
    \A q \in Procs \ {p} :
        IF mode = "read" THEN kernel[q][r] # "write" ELSE kernel[q][r] = "none"

SetRange(p, r, mode) == [kernel EXCEPT ![p][r] = mode]

(* What a successful unixLock or posixUnlock writes on its way out. *)
SetBoth(c, lvl) ==
    /\ eFileLock' = [eFileLock EXCEPT ![c] = lvl]
    /\ inode' = [inode EXCEPT ![ProcOf[c]].eFileLock = lvl]

-----------------------------------------------------------------------------
Init ==
    /\ open = {}
    /\ eFileLock = [c \in Conns |-> NO_LOCK]
    /\ pc = [c \in Conns |-> "idle"]
    /\ inode = [p \in Procs |-> FreshInode]
    /\ kernel = [p \in Procs |-> Unlocked]

(* unixOpen: a descriptor parked on the inode is used again, otherwise a   *)
(* new one is opened.                                                      *)
Open(c) ==
    /\ c \notin open
    /\ ProcOf[c] \in Threaded \/ \A d \in Peers(c) : pc[d] = "idle"
    /\ BigLockFree(c) /\ MutexFree(c)
    /\ open' = open \cup {c}
    /\ LET n == inode[ProcOf[c]].nUnused
       IN  inode' = [inode EXCEPT ![ProcOf[c]].nUnused = IF n = 0 THEN 0 ELSE n - 1]
    /\ UNCHANGED <<eFileLock, pc, kernel>>

(* The levels at which an inode lets one more handle in without a call. *)
InProcessLevels_Pending == {SHARED_LOCK, RESERVED_LOCK, PENDING_LOCK}   \* mutant

InProcessLevels == {SHARED_LOCK, RESERVED_LOCK}

(* unixLock(SHARED) when this process already has a SHARED or RESERVED     *)
(* lock: no system call, only the reference counts.                        *)
LockSharedInProcess(c) ==
    /\ CanCall(c) /\ MutexFree(c)
    /\ eFileLock[c] = NO_LOCK
    /\ inode[ProcOf[c]].eFileLock \in InProcessLevels
    /\ eFileLock' = [eFileLock EXCEPT ![c] = SHARED_LOCK]
    /\ inode' = [inode EXCEPT ![ProcOf[c]].nShared = @ + 1,
                              ![ProcOf[c]].nLock = @ + 1]
    /\ UNCHANGED <<open, pc, kernel>>

DoorOpen_Unchecked(c) == TRUE                                           \* mutant

(* No other process holds the pending byte for writing. *)
DoorOpen(c) == Grants(ProcOf[c], "pending", "read")

(* unixLock(SHARED) otherwise: first a read-lock on the pending byte, so   *)
(* that a waiting writer keeps new readers out.  A refusal is SQLITE_BUSY. *)
LockShared(c) ==
    /\ CanCall(c) /\ MutexFree(c)
    /\ eFileLock[c] = NO_LOCK
    /\ inode[ProcOf[c]].eFileLock = NO_LOCK
    /\ DoorOpen(c)
    /\ kernel' = SetRange(ProcOf[c], "pending", "read")
    /\ pc' = [pc EXCEPT ![c] = "sharedRange"]
    /\ UNCHANGED <<open, eFileLock, inode>>

SharedRange(c) ==
    /\ pc[c] = "sharedRange"
    /\ IF Grants(ProcOf[c], "shared", "read")
       THEN /\ kernel' = SetRange(ProcOf[c], "shared", "read")
            /\ pc' = [pc EXCEPT ![c] = "sharedDrop"]
       ELSE /\ pc' = [pc EXCEPT ![c] = "sharedFail"]
            /\ UNCHANGED kernel
    /\ UNCHANGED <<open, eFileLock, inode>>

Acquired_Uncounted(i) == [i EXCEPT !.eFileLock = SHARED_LOCK]           \* mutant

(* An inode whose process has just got its first SHARED lock. *)
Acquired(i) ==
    [eFileLock |-> SHARED_LOCK, nShared |-> 1, nLock |-> i.nLock + 1, nUnused |-> i.nUnused]

(* The temporary lock on the pending byte is dropped whether or not the    *)
(* range was granted.                                                      *)
SharedDrop(c) ==
    /\ pc[c] \in {"sharedDrop", "sharedFail"}
    /\ kernel' = SetRange(ProcOf[c], "pending", "none")
    /\ pc' = [pc EXCEPT ![c] = "idle"]
    /\ IF pc[c] = "sharedDrop"
       THEN /\ eFileLock' = [eFileLock EXCEPT ![c] = SHARED_LOCK]
            /\ inode' = [inode EXCEPT ![ProcOf[c]] = Acquired(inode[ProcOf[c]])]
       ELSE UNCHANGED <<eFileLock, inode>>
    /\ UNCHANGED open

AgreesWithInode_Dropped(c) == TRUE                                      \* mutant

(* Another handle of this process bars any lock above SHARED. *)
AgreesWithInode(c) == eFileLock[c] = inode[ProcOf[c]].eFileLock

LockReserved(c) ==
    /\ CanCall(c) /\ MutexFree(c)
    /\ eFileLock[c] = SHARED_LOCK
    /\ AgreesWithInode(c)
    /\ Grants(ProcOf[c], "reserved", "write")
    /\ kernel' = SetRange(ProcOf[c], "reserved", "write")
    /\ SetBoth(c, RESERVED_LOCK)
    /\ UNCHANGED <<open, pc>>

(* unixLock(EXCLUSIVE) from RESERVED: the pending byte first.  What        *)
(* follows may fail, and then the connection keeps the PENDING lock.       *)
LockPending(c) ==
    /\ CanCall(c) /\ MutexFree(c)
    /\ eFileLock[c] = RESERVED_LOCK
    /\ AgreesWithInode(c)
    /\ Grants(ProcOf[c], "pending", "write")
    /\ kernel' = SetRange(ProcOf[c], "pending", "write")
    /\ SetBoth(c, PENDING_LOCK)
    /\ pc' = [pc EXCEPT ![c] = "exclusiveRange"]
    /\ UNCHANGED open

RangeIsFree_Kernel(c) == Grants(ProcOf[c], "shared", "write")           \* mutant

(* The shared range can be write-locked: no other handle of this process   *)
(* and no other process holds SHARED.                                      *)
RangeIsFree(c) ==
    /\ inode[ProcOf[c]].nShared <= 1
    /\ Grants(ProcOf[c], "shared", "write")

TakeRange(c) ==
    /\ kernel' = SetRange(ProcOf[c], "shared", "write")
    /\ SetBoth(c, EXCLUSIVE_LOCK)

ExclusiveRange(c) ==
    /\ pc[c] = "exclusiveRange"
    /\ pc' = [pc EXCEPT ![c] = "idle"]
    /\ IF RangeIsFree(c) THEN TakeRange(c)
                         ELSE UNCHANGED <<eFileLock, inode, kernel>>
    /\ UNCHANGED open

(* unixLock(EXCLUSIVE) from SHARED (the rollback of a hot journal) or as a *)
(* retry from PENDING: the pending byte is not touched.                    *)
LockExclusive(c) ==
    /\ CanCall(c) /\ MutexFree(c)
    /\ eFileLock[c] \in {SHARED_LOCK, PENDING_LOCK}
    /\ AgreesWithInode(c)
    /\ RangeIsFree(c)
    /\ TakeRange(c)
    /\ UNCHANGED <<open, pc>>

(* posixUnlock(SHARED) from a higher level, first call: the range becomes  *)
(* a read-lock.                                                            *)
Downgrade(c) ==
    /\ CanCall(c) /\ MutexFree(c)
    /\ eFileLock[c] > SHARED_LOCK
    /\ kernel' = SetRange(ProcOf[c], "shared", "read")
    /\ pc' = [pc EXCEPT ![c] = "unlockBytes"]
    /\ UNCHANGED <<open, eFileLock, inode>>

DropBytes_One(p) == [kernel EXCEPT ![p]["pending"] = "none"]            \* mutant

(* One fcntl() unlocks both bytes: RESERVED_BYTE is PENDING_BYTE + 1. *)
DropBytes(p) == [kernel EXCEPT ![p]["pending"] = "none", ![p]["reserved"] = "none"]

DowngradeBytes(c) ==
    /\ pc[c] = "unlockBytes"
    /\ kernel' = DropBytes(ProcOf[c])
    /\ SetBoth(c, SHARED_LOCK)
    /\ pc' = [pc EXCEPT ![c] = "idle"]
    /\ UNCHANGED open

(* posixUnlock(NO_LOCK) from above SHARED, first call. *)
ReleaseBytes(c) ==
    /\ CanCall(c) /\ MutexFree(c)
    /\ eFileLock[c] > SHARED_LOCK
    /\ kernel' = DropBytes(ProcOf[c])
    /\ inode' = [inode EXCEPT ![ProcOf[c]].eFileLock = SHARED_LOCK]
    /\ pc' = [pc EXCEPT ![c] = "unlockAll"]
    /\ UNCHANGED <<open, eFileLock>>

LastShared(i) == i.nShared = 1

Released_KeepsFds(i) ==                                                 \* mutant
    [eFileLock |-> IF LastShared(i) THEN NO_LOCK ELSE i.eFileLock,
     nShared |-> i.nShared - 1, nLock |-> i.nLock - 1, nUnused |-> i.nUnused]

(* An inode that counts one handle less; the last one lets the parked      *)
(* descriptors go (closePendingFds).                                       *)
Released(i) ==
    [eFileLock |-> IF LastShared(i) THEN NO_LOCK ELSE i.eFileLock,
     nShared   |-> i.nShared - 1,
     nLock     |-> i.nLock - 1,
     nUnused   |-> IF i.nLock = 1 THEN 0 ELSE i.nUnused]

(* The rest of posixUnlock(NO_LOCK): the last handle of the process drops  *)
(* the kernel locks, and closing a parked descriptor drops them too.       *)
Release(c) ==
    /\ \/ CanCall(c) /\ MutexFree(c) /\ eFileLock[c] = SHARED_LOCK
       \/ pc[c] = "unlockAll"
    /\ LET p == ProcOf[c]
           i == inode[p]
       IN  /\ inode' = [inode EXCEPT ![p] = Released(i)]
           /\ kernel' = IF LastShared(i) \/ (i.nLock = 1 /\ i.nUnused > 0)
                        THEN [kernel EXCEPT ![p] = Unlocked] ELSE kernel
    /\ eFileLock' = [eFileLock EXCEPT ![c] = NO_LOCK]
    /\ pc' = [pc EXCEPT ![c] = "idle"]
    /\ UNCHANGED open

MustPark_OffByOne(c) == inode[ProcOf[c]].nLock > 1                      \* mutant

(* Some handle of the process holds a lock that a close() would drop. *)
MustPark(c) == inode[ProcOf[c]].nLock > 0

(* unixClose, after its unixUnlock(NO_LOCK), inside pLockMutex: while any  *)
(* handle of the process holds a lock the descriptor is parked.            *)
Close(c) ==
    /\ CanCall(c) /\ MutexFree(c) /\ BigLockFree(c)
    /\ eFileLock[c] = NO_LOCK
    /\ IF MustPark(c)
       THEN /\ open' = open \ {c}
            /\ inode' = [inode EXCEPT ![ProcOf[c]].nUnused = @ + 1]
            /\ UNCHANGED pc
       ELSE /\ pc' = [pc EXCEPT ![c] = "closing"]
            /\ UNCHANGED <<open, inode>>
    /\ UNCHANGED <<eFileLock, kernel>>

(* closeUnixFile, outside pLockMutex: close() drops every lock this        *)
(* process has on the file.  The last handle also frees the inode record.  *)
CloseFd(c) ==
    /\ pc[c] = "closing"
    /\ kernel' = [kernel EXCEPT ![ProcOf[c]] = Unlocked]
    /\ pc' = [pc EXCEPT ![c] = "idle"]
    /\ open' = open \ {c}
    /\ inode' = IF open \cap Peers(c) = {c}
                THEN [inode EXCEPT ![ProcOf[c]] = FreshInode] ELSE inode
    /\ UNCHANGED eFileLock

(* The process dies at any point; the kernel drops its locks. *)
Crash(p) ==
    /\ open' = {c \in open : ProcOf[c] # p}
    /\ eFileLock' = [c \in Conns |-> IF ProcOf[c] = p THEN NO_LOCK ELSE eFileLock[c]]
    /\ pc' = [c \in Conns |-> IF ProcOf[c] = p THEN "idle" ELSE pc[c]]
    /\ inode' = [inode EXCEPT ![p] = FreshInode]
    /\ kernel' = [kernel EXCEPT ![p] = Unlocked]

Step(c) ==
    \/ Open(c) \/ Close(c) \/ CloseFd(c)
    \/ LockSharedInProcess(c) \/ LockShared(c) \/ SharedRange(c) \/ SharedDrop(c)
    \/ LockReserved(c) \/ LockPending(c) \/ ExclusiveRange(c) \/ LockExclusive(c)
    \/ Downgrade(c) \/ DowngradeBytes(c) \/ ReleaseBytes(c) \/ Release(c)

Next == (\E c \in Conns : Step(c)) \/ (\E p \in Procs : Crash(p))

Spec == Init /\ [][Next]_vars

(* A call that has begun returns; a writer that was refused tries again    *)
(* (the busy handler); a reader finishes its transaction.                  *)
Fairness ==
    \A c \in Conns :
        /\ WF_vars(SharedRange(c)) /\ WF_vars(SharedDrop(c))
        /\ WF_vars(ExclusiveRange(c)) /\ WF_vars(DowngradeBytes(c))
        /\ WF_vars(CloseFd(c))
        /\ WF_vars(LockExclusive(c) /\ eFileLock[c] = PENDING_LOCK)
        /\ WF_vars(Release(c))

FairSpec == Spec /\ Fairness

-----------------------------------------------------------------------------
(* The answer of unixCheckReservedLock on connection c. *)
CheckReservedLock(c) ==
    \/ inode[ProcOf[c]].eFileLock > SHARED_LOCK
    \/ ~Grants(ProcOf[c], "reserved", "write")

(* Closing is safe only where no thread of the process can take a lock     *)
(* between the two halves of unixClose.                                    *)
SerialClose == Threaded = {}

TypeOK ==
    /\ open \subseteq Conns
    /\ eFileLock \in [Conns -> Levels]
    /\ pc \in [Conns -> PCs]
    /\ inode \in [Procs -> [eFileLock : Levels, nShared : Nat, nLock : Nat, nUnused : Nat]]
    /\ kernel \in [Procs -> [Ranges -> Modes]]

(* The level a connection has given to the others: while posixUnlock       *)
(* steps down, its range is already open to readers, and what still keeps  *)
(* them out is the pending byte, which a hot-journal rollback never took.  *)
LevelOf(c) ==
    IF pc[c] \notin {"unlockBytes", "unlockAll"} THEN eFileLock[c]
    ELSE IF kernel[ProcOf[c]]["pending"] = "write" THEN PENDING_LOCK
    ELSE IF kernel[ProcOf[c]]["reserved"] = "write" THEN RESERVED_LOCK
    ELSE SHARED_LOCK

DB == INSTANCE DbLock WITH level <- [c \in Conns |-> LevelOf(c)]

(* os_unix.c implements the lock levels of os.h: every fcntl()/close()     *)
(* step is a legal change of the abstract levels or no change at all.      *)
ImplementsDbLock == DB!Spec

(* No two connections, in one process or in two, hold levels that os.h     *)
(* calls incompatible, whatever the interleaving of their system calls.    *)
LocksCompatible == DB!LocksCompatible

(* A lock a connection believes it holds is backed by the kernel lock that *)
(* keeps OTHER processes out: none is lost to a close(), to another        *)
(* handle's unlock or to a step of another thread.                         *)
KernelBacksHandles ==
    \A c \in Conns :
        LET k == kernel[ProcOf[c]]
            settled == pc[c] \in {"idle", "closing"}
        IN  /\ LevelOf(c) >= SHARED_LOCK => k["shared"] # "none"
            /\ LevelOf(c) = EXCLUSIVE_LOCK => k["shared"] = "write"
            /\ settled /\ LevelOf(c) = RESERVED_LOCK => k["reserved"] = "write"
            /\ settled /\ LevelOf(c) = PENDING_LOCK =>
                   k["pending"] = "write" /\ k["reserved"] = "write"

(* hasHotJournal relies on this: a connection that holds SHARED is told    *)
(* "reserved" exactly when some connection is at RESERVED or above.        *)
ReservedProbeExact ==
    \A c \in Conns :
        (c \in open /\ pc[c] = "idle" /\ MutexFree(c) /\ eFileLock[c] = SHARED_LOCK)
            => (CheckReservedLock(c) <=> \E d \in Conns : LevelOf(d) >= RESERVED_LOCK)

(* No process leaks a lock: when none of its connections holds or is       *)
(* taking one, the kernel has none for it and no descriptor stays parked.  *)
NothingLeaks ==
    \A p \in Procs :
        (\A c \in Conns : ProcOf[c] = p => eFileLock[c] = NO_LOCK /\ pc[c] = "idle")
            => kernel[p] = Unlocked /\ inode[p] = FreshInode

WaitingWriter(w) == LevelOf(w) >= PENDING_LOCK /\ LevelOf(w)' >= PENDING_LOCK

Admitted(c) == LevelOf(c) = NO_LOCK /\ LevelOf(c)' # NO_LOCK

(* While a writer holds PENDING or more, no connection is admitted whose   *)
(* process has no reader yet, nor any of the writer's own process.         *)
PendingBarsNewProcesses ==
    [][\A w \in Conns : WaitingWriter(w) =>
          \A c \in Conns \ {w} : Admitted(c) =>
              /\ ProcOf[c] # ProcOf[w]
              /\ \E d \in Peers(c) : LevelOf(d) >= SHARED_LOCK]_vars

(* A writer that has reached PENDING and keeps trying is not starved: it   *)
(* gets EXCLUSIVE (or gives up or dies) once the readers finish, provided  *)
(* that no other process has several connections, whose overlapping reads  *)
(* the pending byte does not stop.                                         *)
PendingWriterProceeds ==
    \A c \in {d \in Conns : \A e \in Conns : ProcOf[e] = ProcOf[d] \/ Peers(e) \subseteq {e}} :
        eFileLock[c] = PENDING_LOCK ~> eFileLock[c] # PENDING_LOCK
=============================================================================
