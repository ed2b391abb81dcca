--------------------------- MODULE UnixLockProofs ---------------------------
(***************************************************************************)
(* What is proved of UnixLock, for any number of processes and             *)
(* connections: the levels of two connections are always compatible, every *)
(* lock a connection holds is backed by the kernel, none is left behind    *)
(* when nobody uses the file any more, and the fcntl() protocol implements *)
(* DbLock.  All of it under SerialClose: without it unixClose can lose a   *)
(* lock (the run unixlock_close_race).                                     *)
(***************************************************************************)
EXTENDS UnixLock, FiniteSetTheorems, TLAPS

Holders(p) == {c \in Conns : ProcOf[c] = p /\ eFileLock[c] # NO_LOCK}

(* The counters of an inode count the handles that hold a lock, and its    *)
(* level tells whether there is one.                                       *)
CountInv ==
    \A p \in Procs :
        /\ inode[p].nShared = Cardinality(Holders(p))
        /\ inode[p].nLock = inode[p].nShared
        /\ inode[p].eFileLock = NO_LOCK <=> inode[p].nShared = 0

(* One call at a time is inside a process. *)
OneCallInv ==
    \A c, d \in Conns :
        ProcOf[c] = ProcOf[d] /\ pc[c] # "idle" /\ pc[d] # "idle" => c = d

(* What a call knows where it stands. *)
CallInv ==
    \A c \in Conns :
        /\ c \notin open => eFileLock[c] = NO_LOCK /\ pc[c] = "idle"
        /\ pc[c] \in {"sharedRange", "sharedDrop", "sharedFail", "closing"} =>
               inode[ProcOf[c]].eFileLock = NO_LOCK
        /\ pc[c] = "sharedDrop" => kernel[ProcOf[c]]["shared"] # "none"
        /\ pc[c] = "exclusiveRange" => eFileLock[c] = PENDING_LOCK
        /\ pc[c] \in {"unlockBytes", "unlockAll"} => eFileLock[c] > SHARED_LOCK
        /\ pc[c] = "unlockAll" => inode[ProcOf[c]].eFileLock = SHARED_LOCK

(* How the handles of one process stand to its inode and to each other. *)
InodeInv ==
    \A c \in Conns :
        /\ inode[ProcOf[c]].eFileLock = NO_LOCK => eFileLock[c] = NO_LOCK
        /\ eFileLock[c] > SHARED_LOCK /\ pc[c] # "unlockAll" => AgreesWithInode(c)
        /\ \A d \in Peers(c) \ {c} :
              /\ eFileLock[c] > SHARED_LOCK => eFileLock[d] <= SHARED_LOCK
              /\ eFileLock[c] = EXCLUSIVE_LOCK => eFileLock[d] = NO_LOCK

(* fcntl() never grants two conflicting locks. *)
KernelInv ==
    /\ \A p, q \in Procs : \A r \in Ranges :
          p # q /\ kernel[p][r] = "write" => kernel[q][r] = "none"
    /\ \A p \in Procs :
          kernel[p]["pending"] = "write" => kernel[p]["reserved"] = "write"

(* How the kernel backs what a handle believes it holds. *)
BackInv ==
    \A c \in Conns :
        LET k == kernel[ProcOf[c]]
        IN  /\ eFileLock[c] # NO_LOCK => k["shared"] # "none"
            /\ eFileLock[c] = EXCLUSIVE_LOCK /\ pc[c] # "unlockBytes" => k["shared"] = "write"
            /\ eFileLock[c] \in {RESERVED_LOCK, PENDING_LOCK} /\ pc[c] # "unlockAll" =>
                   k["reserved"] = "write"
            /\ eFileLock[c] = PENDING_LOCK /\ pc[c] # "unlockAll" => k["pending"] = "write"
            /\ eFileLock[c] = RESERVED_LOCK => k["pending"] # "write"
            /\ pc[c] = "unlockAll" => k["reserved"] # "write" /\ k["pending"] # "write"

(* A reserved byte or an inode level above SHARED has an owner. *)
OwnerInv ==
    \A p \in Procs :
        /\ kernel[p]["reserved"] # "read"
        /\ kernel[p]["reserved"] = "write" =>
               \E d \in Conns : ProcOf[d] = p /\ eFileLock[d] > SHARED_LOCK
        /\ inode[p].eFileLock > SHARED_LOCK =>
               \E d \in Conns : ProcOf[d] = p /\ eFileLock[d] = inode[p].eFileLock

IInv ==
    /\ TypeOK
    /\ CountInv
    /\ OneCallInv
    /\ CallInv
    /\ InodeInv
    /\ KernelInv
    /\ BackInv
    /\ OwnerInv

-----------------------------------------------------------------------------
(* The set an inode counts is finite; a counter of at most one means that  *)
(* no other handle of the process holds a lock.                            *)
LEMMA HoldersFinite == \A p : IsFiniteSet(Holders(p)) /\ Cardinality(Holders(p)) \in Nat
  <1>1. \A p : Holders(p) \subseteq Conns
    BY DEF Holders
  <1> QED BY <1>1, ConnsAssumption, FS_Subset, FS_CardinalityType

LEMMA SoleHolder ==
  ASSUME CountInv, NEW c \in Conns, eFileLock[c] # NO_LOCK,
         inode[ProcOf[c]].nShared <= 1
  PROVE  Holders(ProcOf[c]) = {c}
  <1> DEFINE H == Holders(ProcOf[c])
  <1>1. c \in H /\ IsFiniteSet(H) /\ ProcOf[c] \in Procs
    BY HoldersFinite, ConnsAssumption DEF Holders
  <1>2. Cardinality(H \ {c}) = Cardinality(H) - 1 /\ IsFiniteSet(H \ {c})
    BY <1>1, FS_RemoveElement
  <1>3. Cardinality(H) <= 1 /\ Cardinality(H) \in Nat /\ Cardinality(H \ {c}) \in Nat
    BY <1>1, <1>2, FS_CardinalityType DEF CountInv
  <1>4. H \ {c} = {}
    BY <1>2, <1>3, FS_EmptySet
  <1> QED BY <1>1, <1>4

(* Adding a holder counts one more, removing one counts one less. *)
LEMMA HolderAdded ==
  ASSUME NEW c \in Conns, eFileLock \in [Conns -> Levels], eFileLock[c] = NO_LOCK,
         NEW l \in Levels \ {NO_LOCK},
         eFileLock' = [eFileLock EXCEPT ![c] = l], NEW p
  PROVE  Cardinality(Holders(p)') =
             IF p = ProcOf[c] THEN Cardinality(Holders(p)) + 1 ELSE Cardinality(Holders(p))
  <1>1. Holders(p)' = IF p = ProcOf[c] THEN Holders(p) \cup {c} ELSE Holders(p)
    BY DEF Holders, Levels, NO_LOCK, EXCLUSIVE_LOCK
  <1>2. c \notin Holders(p)
    BY DEF Holders
  <1> QED BY <1>1, <1>2, HoldersFinite, FS_AddElement

LEMMA HolderRemoved ==
  ASSUME NEW c \in Conns, eFileLock \in [Conns -> Levels], eFileLock[c] # NO_LOCK,
         eFileLock' = [eFileLock EXCEPT ![c] = NO_LOCK], NEW p
  PROVE  Cardinality(Holders(p)') =
             IF p = ProcOf[c] THEN Cardinality(Holders(p)) - 1 ELSE Cardinality(Holders(p))
  <1>1. Holders(p)' = IF p = ProcOf[c] THEN Holders(p) \ {c} ELSE Holders(p)
    BY DEF Holders, Levels, NO_LOCK, EXCLUSIVE_LOCK
  <1>2. p = ProcOf[c] => c \in Holders(p)
    BY DEF Holders
  <1> QED BY <1>1, <1>2, HoldersFinite, FS_RemoveElement, ZenonT(30)

LEMMA HoldersSame ==
  ASSUME NEW c \in Conns, eFileLock \in [Conns -> Levels], eFileLock[c] # NO_LOCK,
         NEW l \in Levels \ {NO_LOCK},
         eFileLock' = [eFileLock EXCEPT ![c] = l], NEW p
  PROVE  Holders(p)' = Holders(p)
  BY DEF Holders, Levels, NO_LOCK, EXCLUSIVE_LOCK

(* The levels are the numbers 0 to 4 in every proof below; the small       *)
(* helpers of the actions are always expanded.                             *)
USE DEF NO_LOCK, SHARED_LOCK, RESERVED_LOCK, PENDING_LOCK, EXCLUSIVE_LOCK, Levels,
        InProcessLevels, DoorOpen, Acquired, LastShared, Released, MustPark

LEMMA TypeOKStep ==
  ASSUME IInv, NEW c \in Conns, Step(c)
  PROVE  TypeOK'
  <1> DEFINE p == ProcOf[c]
  <1>0. TypeOK /\ p \in Procs
    BY ConnsAssumption DEF IInv
  <1>a. inode[p] \in [eFileLock : Levels, nShared : Nat, nLock : Nat, nUnused : Nat]
    BY <1>0 DEF TypeOK
  <1>b. inode' \in [Procs -> [eFileLock : Levels, nShared : Nat, nLock : Nat, nUnused : Nat]]
    <2>1. CASE Open(c)
      <3> DEFINE n == IF inode[p].nUnused = 0 THEN 0 ELSE inode[p].nUnused - 1
      <3>1. n \in Nat
        BY <1>a
      <3>2. inode' = [inode EXCEPT ![p].nUnused = n]
        BY <2>1 DEF Open
      <3> HIDE DEF n
      <3> QED BY <3>1, <3>2, <1>0, <1>a DEF TypeOK
    <2>2. CASE Close(c)
      <3> DEFINE n == inode[p].nUnused + 1
      <3>1. n \in Nat
        BY <1>a
      <3>2. inode' = [inode EXCEPT ![p].nUnused = n] \/ inode' = inode
        BY <2>2 DEF Close
      <3> HIDE DEF n
      <3> QED BY <3>1, <3>2, <1>0, <1>a, ZenonT(30) DEF TypeOK
    <2>3. CASE CloseFd(c)
      BY <2>3, <1>0, <1>a DEF TypeOK, CloseFd, SetBoth, TakeRange, FreshInode
    <2>4. CASE LockSharedInProcess(c)
      BY <2>4, <1>0, <1>a
         DEF TypeOK, LockSharedInProcess, SetBoth, TakeRange, FreshInode
    <2>5. CASE LockShared(c)
      BY <2>5, <1>0, <1>a DEF TypeOK, LockShared, SetBoth, TakeRange, FreshInode
    <2>6. CASE SharedRange(c)
      BY <2>6, <1>0, <1>a DEF TypeOK, SharedRange, SetBoth, TakeRange, FreshInode
    <2>7. CASE SharedDrop(c)
      BY <2>7, <1>0, <1>a, SMTT(30) DEF TypeOK, SharedDrop, SetBoth, TakeRange, FreshInode
    <2>8. CASE LockReserved(c)
      BY <2>8, <1>0, <1>a, SMTT(30) DEF TypeOK, LockReserved, SetBoth, TakeRange, FreshInode
    <2>9. CASE LockPending(c)
      <3>1. inode' = [inode EXCEPT ![p].eFileLock = PENDING_LOCK]
        BY <2>9 DEF LockPending, SetBoth
      <3> QED BY <3>1, <1>0, <1>a, SMTT(30) DEF TypeOK
    <2>10. CASE ExclusiveRange(c)
      BY <2>10, <1>0, <1>a, SMTT(30) DEF TypeOK, ExclusiveRange, SetBoth, TakeRange, FreshInode
    <2>11. CASE LockExclusive(c)
      BY <2>11, <1>0, <1>a, SMTT(30) DEF TypeOK, LockExclusive, SetBoth, TakeRange, FreshInode
    <2>12. CASE Downgrade(c)
      BY <2>12, <1>0, <1>a DEF TypeOK, Downgrade, SetBoth, TakeRange, FreshInode
    <2>13. CASE DowngradeBytes(c)
      BY <2>13, <1>0, <1>a, SMTT(30) DEF TypeOK, DowngradeBytes, SetBoth, TakeRange, FreshInode
    <2>14. CASE ReleaseBytes(c)
      BY <2>14, <1>0, <1>a DEF TypeOK, ReleaseBytes, SetBoth, TakeRange, FreshInode
    <2>15. CASE Release(c)
      <3>1. inode[p].nShared - 1 \in Nat /\ inode[p].nLock - 1 \in Nat
        <4>1. c \in Holders(p)
          BY <2>15 DEF Release, CanCall, Holders, IInv, CallInv
        <4>2. inode[p].nShared = Cardinality(Holders(p)) /\ inode[p].nLock = inode[p].nShared
          BY <1>0 DEF IInv, CountInv
        <4>3. Cardinality(Holders(p) \ {c}) = Cardinality(Holders(p)) - 1
          BY <4>1, HoldersFinite, FS_RemoveElement
        <4>4. Cardinality(Holders(p) \ {c}) \in Nat
          BY HoldersFinite, FS_RemoveElement, <4>1, FS_CardinalityType
        <4> QED BY <4>2, <4>3, <4>4
      <3> QED BY <2>15, <1>0, <1>a, <3>1
         DEF TypeOK, Release, SetBoth, TakeRange, FreshInode
    <2> QED BY <2>1, <2>2, <2>3, <2>4, <2>5, <2>6, <2>7, <2>8, <2>9, <2>10, <2>11,
       <2>12, <2>13, <2>14, <2>15
       DEF Step
  <1>c. kernel' \in [Procs -> [Ranges -> Modes]]
    BY SMTT(60), <1>0
       DEF TypeOK, Step, Open, Close, CloseFd, LockSharedInProcess, LockShared,
           SharedRange, SharedDrop, LockReserved, LockPending, ExclusiveRange,
           LockExclusive, Downgrade, DowngradeBytes, ReleaseBytes, Release, SetRange,
           DropBytes, TakeRange, Unlocked, Ranges, Modes
  <1>d. open' \subseteq Conns
    BY <1>0
       DEF TypeOK, Step, Open, Close, CloseFd, LockSharedInProcess, LockShared,
           SharedRange, SharedDrop, LockReserved, LockPending, ExclusiveRange,
           LockExclusive, Downgrade, DowngradeBytes, ReleaseBytes, Release
  <1>e. eFileLock' \in [Conns -> Levels]
    BY <1>0
       DEF TypeOK, Step, Open, Close, CloseFd, LockSharedInProcess, LockShared,
           SharedRange, SharedDrop, LockReserved, LockPending, ExclusiveRange,
           LockExclusive, Downgrade, DowngradeBytes, ReleaseBytes, Release, SetBoth,
           TakeRange
  <1>f. pc' \in [Conns -> PCs]
    BY <1>0
       DEF TypeOK, Step, Open, Close, CloseFd, LockSharedInProcess, LockShared,
           SharedRange, SharedDrop, LockReserved, LockPending, ExclusiveRange,
           LockExclusive, Downgrade, DowngradeBytes, ReleaseBytes, Release, PCs
  <1> QED BY <1>b, <1>c, <1>d, <1>e, <1>f DEF TypeOK

(* A step touches its own connection and its own process only. *)
LEMMA Frame ==
  ASSUME TypeOK, NEW c \in Conns, Step(c)
  PROVE  /\ \A d \in Conns \ {c} : eFileLock'[d] = eFileLock[d] /\ pc'[d] = pc[d]
         /\ \A d \in Conns \ {c} : d \in open' <=> d \in open
         /\ \A q \in Procs \ {ProcOf[c]} : inode'[q] = inode[q] /\ kernel'[q] = kernel[q]
  <1>1. \A d \in Conns \ {c} : eFileLock'[d] = eFileLock[d] /\ pc'[d] = pc[d]
    BY
       DEF TypeOK, Step, SetBoth, TakeRange, Open, Close, CloseFd, LockSharedInProcess,
           LockShared, SharedRange, SharedDrop, LockReserved, LockPending,
           ExclusiveRange, LockExclusive, Downgrade, DowngradeBytes, ReleaseBytes,
           Release
  <1>2. \A d \in Conns \ {c} : d \in open' <=> d \in open
    BY
       DEF TypeOK, Step, Open, Close, CloseFd, LockSharedInProcess, LockShared,
           SharedRange, SharedDrop, LockReserved, LockPending, ExclusiveRange,
           LockExclusive, Downgrade, DowngradeBytes, ReleaseBytes, Release
  <1>3. \A q \in Procs \ {ProcOf[c]} : inode'[q] = inode[q] /\ kernel'[q] = kernel[q]
    BY ConnsAssumption
       DEF TypeOK, Step, SetBoth, SetRange, DropBytes, TakeRange, Open, Close, CloseFd,
           LockSharedInProcess, LockShared, SharedRange, SharedDrop, LockReserved,
           LockPending, ExclusiveRange, LockExclusive, Downgrade, DowngradeBytes,
           ReleaseBytes, Release
  <1> QED BY <1>1, <1>2, <1>3

(* While a mutex is free, a handle above SHARED is the inode's level. *)
LEMMA InodeIsHighest ==
  ASSUME IInv, NEW c \in Conns, MutexFree(c), inode[ProcOf[c]].eFileLock <= SHARED_LOCK
  PROVE  \A d \in Peers(c) : eFileLock[d] <= SHARED_LOCK
  BY DEF IInv, TypeOK, InodeInv, MutexFree, Peers, AgreesWithInode

LEMMA InodeInvStep ==
  ASSUME SerialClose, IInv, NEW c \in Conns, Step(c)
  PROVE  InodeInv'
  <1> DEFINE p == ProcOf[c]
  <1>0. TypeOK /\ p \in Procs /\ InodeInv
    BY ConnsAssumption DEF IInv
  <1>f. /\ \A d \in Conns \ {c} : eFileLock'[d] = eFileLock[d] /\ pc'[d] = pc[d]
        /\ \A q \in Procs \ {p} : inode'[q] = inode[q]
    BY <1>0, Frame
  <1>t. /\ \A d \in Conns : eFileLock[d] \in 0 .. 4 /\ eFileLock'[d] \in 0 .. 4 /\ ProcOf[d] \in Procs
        /\ \A q \in Procs : inode[q].eFileLock \in 0 .. 4 /\ inode'[q].eFileLock \in 0 .. 4
    BY TypeOKStep, <1>0, ConnsAssumption DEF TypeOK, Levels, NO_LOCK, EXCLUSIVE_LOCK
  <1>1. CASE Open(c)
    BY <1>1, ConnsAssumption
       DEF IInv, TypeOK, OneCallInv, CallInv, InodeInv, Open, SerialClose, CanCall,
           MutexFree, BigLockFree, Peers, SetBoth, TakeRange, AgreesWithInode,
           FreshInode, PCs
  <1>2. CASE Close(c)
    BY <1>2, ConnsAssumption
       DEF IInv, TypeOK, OneCallInv, CallInv, InodeInv, Close, SerialClose, CanCall,
           MutexFree, BigLockFree, Peers, SetBoth, TakeRange, AgreesWithInode,
           FreshInode, PCs
  <1>3. CASE CloseFd(c)
    BY <1>3, ConnsAssumption
       DEF IInv, TypeOK, OneCallInv, CallInv, InodeInv, CloseFd, SerialClose, CanCall,
           MutexFree, BigLockFree, Peers, SetBoth, TakeRange, AgreesWithInode,
           FreshInode, PCs
  <1>4. CASE LockSharedInProcess(c)
    <2>1. eFileLock'[c] = SHARED_LOCK /\ inode'[p].eFileLock = inode[p].eFileLock /\ pc'[c] # "unlockAll"
      BY <1>4, <1>0 DEF LockSharedInProcess, SetBoth, TypeOK, CanCall, MutexFree, Peers
    <2>2. MutexFree(c) /\ eFileLock[c] <= RESERVED_LOCK /\ inode[p].eFileLock <= RESERVED_LOCK
      BY <1>4 DEF LockSharedInProcess, AgreesWithInode
    <2>3. inode[p].eFileLock \in {SHARED_LOCK, RESERVED_LOCK}
      BY <1>4, <1>0, InodeIsHighest
         DEF LockSharedInProcess, InodeInv, TypeOK, AgreesWithInode, Peers
    <2> QED BY <2>1, <2>2, <2>3, <1>0, <1>f, <1>t
       DEF MutexFree, InodeInv, AgreesWithInode, Peers
  <1>5. CASE LockShared(c)
    BY <1>5, ConnsAssumption
       DEF IInv, TypeOK, OneCallInv, CallInv, InodeInv, LockShared, SerialClose,
           CanCall, MutexFree, BigLockFree, Peers, SetBoth, TakeRange, AgreesWithInode,
           FreshInode, PCs
  <1>6. CASE SharedRange(c)
    BY <1>6, ConnsAssumption
       DEF IInv, TypeOK, OneCallInv, CallInv, InodeInv, SharedRange, SerialClose,
           CanCall, MutexFree, BigLockFree, Peers, SetBoth, TakeRange, AgreesWithInode,
           FreshInode, PCs
  <1>7. CASE SharedDrop(c)
    <2>1. \A d \in Peers(c) : eFileLock[d] = NO_LOCK
      BY <1>7, <1>0 DEF SharedDrop, IInv, CallInv, InodeInv, Peers
    <2>2. CASE eFileLock' = eFileLock /\ inode' = inode
      BY <1>7, <2>1, <2>2, <1>0, <1>f
         DEF SharedDrop, TypeOK, InodeInv, AgreesWithInode, Peers
    <2>3. CASE eFileLock'[c] = SHARED_LOCK /\ inode'[p].eFileLock = SHARED_LOCK
      BY <2>1, <2>3, <1>0, <1>f, <1>t DEF InodeInv, AgreesWithInode, Peers
    <2> QED BY <1>7, <1>0, <2>2, <2>3 DEF SharedDrop, TypeOK
  <1>8. CASE LockReserved(c)
    <2>1. eFileLock'[c] = RESERVED_LOCK /\ inode'[p].eFileLock = RESERVED_LOCK /\ pc'[c] # "unlockAll"
      BY <1>8, <1>0 DEF LockReserved, SetBoth, TypeOK, CanCall, MutexFree, Peers
    <2>2. MutexFree(c) /\ eFileLock[c] <= RESERVED_LOCK /\ inode[p].eFileLock <= RESERVED_LOCK
      BY <1>8 DEF LockReserved, AgreesWithInode
    <2>3. \A d \in Peers(c) \ {c} : eFileLock[d] <= SHARED_LOCK
      BY <1>8, <1>0, InodeIsHighest
         DEF LockReserved, InodeInv, TypeOK, AgreesWithInode, Peers
    <2> QED BY <2>1, <2>2, <2>3, <1>0, <1>f, <1>t
       DEF MutexFree, InodeInv, AgreesWithInode, Peers
  <1>9. CASE LockPending(c)
    <2>1. eFileLock'[c] = PENDING_LOCK /\ inode'[p].eFileLock = PENDING_LOCK /\ pc'[c] # "unlockAll"
      BY <1>9, <1>0 DEF LockPending, SetBoth, TypeOK, CanCall, MutexFree, Peers
    <2>2. MutexFree(c) /\ eFileLock[c] <= RESERVED_LOCK /\ inode[p].eFileLock <= RESERVED_LOCK
      BY <1>9 DEF LockPending, AgreesWithInode
    <2>3. \A d \in Peers(c) \ {c} : eFileLock[d] <= SHARED_LOCK
      BY <1>9, <1>0, InodeIsHighest
         DEF LockPending, InodeInv, TypeOK, AgreesWithInode, Peers
    <2> QED BY <2>1, <2>2, <2>3, <1>0, <1>f, <1>t
       DEF MutexFree, InodeInv, AgreesWithInode, Peers
  <1>10. CASE ExclusiveRange(c)
    <2>1. eFileLock[c] # NO_LOCK
      BY <1>10 DEF ExclusiveRange, IInv, CallInv
    <2>2. CASE RangeIsFree(c)
      <3>1. eFileLock'[c] = EXCLUSIVE_LOCK /\ inode'[p].eFileLock = EXCLUSIVE_LOCK /\ pc'[c] # "unlockAll"
        BY <1>10, <2>2, <1>0 DEF ExclusiveRange, TakeRange, SetBoth, TypeOK, CanCall
      <3>2. \A d \in Peers(c) \ {c} : eFileLock[d] = NO_LOCK
        BY <2>1, <2>2, SoleHolder DEF RangeIsFree, IInv, Holders, Peers
      <3> QED BY <3>1, <3>2, <1>0, <1>f, <1>t DEF InodeInv, AgreesWithInode, Peers
    <2>3. CASE ~RangeIsFree(c)
      BY <1>10, <2>3, <1>0, <1>f
         DEF ExclusiveRange, TypeOK, InodeInv, AgreesWithInode, Peers
    <2> QED BY <2>2, <2>3
  <1>11. CASE LockExclusive(c)
    <2>1. eFileLock[c] # NO_LOCK
      BY <1>11 DEF LockExclusive, IInv, CallInv
    <2>2. CASE RangeIsFree(c)
      <3>1. eFileLock'[c] = EXCLUSIVE_LOCK /\ inode'[p].eFileLock = EXCLUSIVE_LOCK /\ pc'[c] # "unlockAll"
        BY <1>11, <2>2, <1>0 DEF LockExclusive, TakeRange, SetBoth, TypeOK, CanCall
      <3>2. \A d \in Peers(c) \ {c} : eFileLock[d] = NO_LOCK
        BY <2>1, <2>2, SoleHolder DEF RangeIsFree, IInv, Holders, Peers
      <3> QED BY <3>1, <3>2, <1>0, <1>f, <1>t DEF InodeInv, AgreesWithInode, Peers
    <2> QED BY <1>11, <2>2 DEF LockExclusive
  <1>12. CASE Downgrade(c)
    BY <1>12, ConnsAssumption
       DEF IInv, TypeOK, OneCallInv, CallInv, InodeInv, Downgrade, SerialClose,
           CanCall, MutexFree, BigLockFree, Peers, SetBoth, TakeRange, AgreesWithInode,
           FreshInode, PCs
  <1>13. CASE DowngradeBytes(c)
    BY <1>13, ConnsAssumption
       DEF IInv, TypeOK, OneCallInv, CallInv, InodeInv, DowngradeBytes, SerialClose,
           CanCall, MutexFree, BigLockFree, Peers, SetBoth, TakeRange, AgreesWithInode,
           FreshInode, PCs
  <1>14. CASE ReleaseBytes(c)
    BY <1>14, ConnsAssumption
       DEF IInv, TypeOK, OneCallInv, CallInv, InodeInv, ReleaseBytes, SerialClose,
           CanCall, MutexFree, BigLockFree, Peers, SetBoth, TakeRange, AgreesWithInode,
           FreshInode, PCs
  <1>15. CASE Release(c)
    <2>1. /\ eFileLock'[c] = NO_LOCK /\ pc'[c] = "idle"
          /\ inode'[p].eFileLock =
                 IF inode[p].nShared = 1 THEN NO_LOCK ELSE inode[p].eFileLock
      BY <1>15, <1>0 DEF Release, TypeOK
    <2>2. eFileLock[c] # NO_LOCK
      BY <1>15 DEF Release, IInv, CallInv, CanCall
    <2>3. CASE inode[p].nShared = 1
      <3>1. \A d \in Peers(c) \ {c} : eFileLock[d] = NO_LOCK
        BY <2>2, <2>3, SoleHolder DEF IInv, Holders, Peers
      <3> QED BY <2>1, <2>3, <3>1, <1>0, <1>f, <1>t DEF InodeInv, AgreesWithInode, Peers
    <2>4. CASE inode[p].nShared # 1
      BY <2>1, <2>2, <2>4, <1>0, <1>f, <1>t DEF InodeInv, AgreesWithInode, Peers
    <2> QED BY <2>3, <2>4
  <1> QED BY <1>1, <1>2, <1>3, <1>4, <1>5, <1>6, <1>7, <1>8, <1>9, <1>10, <1>11, <1>12,
     <1>13, <1>14, <1>15
     DEF Step

(* Where calls of a process are serial, a stepping connection is alone in  *)
(* it.                                                                     *)
LEMMA Alone ==
  ASSUME SerialClose, IInv, NEW c \in Conns, Step(c)
  PROVE  \A d \in Peers(c) \ {c} : pc[d] = "idle"
  BY
     DEF SerialClose, IInv, TypeOK, OneCallInv, Step, CanCall, Peers, Open, Close,
         CloseFd, LockSharedInProcess, LockShared, SharedRange, SharedDrop,
         LockReserved, LockPending, ExclusiveRange, LockExclusive, Downgrade,
         DowngradeBytes, ReleaseBytes, Release

(* The simple types the steps below reason with. *)
LEMMA Types ==
  ASSUME TypeOK
  PROVE  /\ \A d \in Conns : eFileLock[d] \in 0 .. 4 /\ ProcOf[d] \in Procs
         /\ \A q \in Procs : inode[q].eFileLock \in 0 .. 4 /\ inode[q].nShared \in Nat
         /\ \A q \in Procs : \A r \in Ranges : kernel[q][r] \in Modes
         /\ \A d \in Conns : pc[d] \in PCs
  BY ConnsAssumption DEF TypeOK, Levels, NO_LOCK, EXCLUSIVE_LOCK

LEMMA OneCallInvStep ==
  ASSUME SerialClose, IInv, NEW c \in Conns, Step(c)
  PROVE  OneCallInv'
  BY Alone, Frame DEF IInv, OneCallInv, Peers

LEMMA CallInvStep ==
  ASSUME SerialClose, IInv, NEW c \in Conns, Step(c)
  PROVE  CallInv'
  <1> DEFINE p == ProcOf[c]
  <1>0. TypeOK /\ CountInv /\ CallInv /\ InodeInv /\ BackInv /\ p \in Procs
    BY ConnsAssumption DEF IInv
  <1>1. SUFFICES
          /\ c \notin open' => eFileLock'[c] = NO_LOCK /\ pc'[c] = "idle"
          /\ pc'[c] \in {"sharedRange", "sharedDrop", "sharedFail", "closing"} =>
                 inode'[p].eFileLock = NO_LOCK
          /\ pc'[c] = "sharedDrop" => kernel'[p]["shared"] # "none"
          /\ pc'[c] = "exclusiveRange" => eFileLock'[c] = PENDING_LOCK
          /\ pc'[c] \in {"unlockBytes", "unlockAll"} => eFileLock'[c] > SHARED_LOCK
          /\ pc'[c] = "unlockAll" => inode'[p].eFileLock = SHARED_LOCK
    BY <1>0, Alone, Frame, Types DEF CallInv, Peers
  <1>2. CASE Open(c)
    BY <1>2, <1>0, Types
       DEF Open, CountInv, CallInv, InodeInv, TypeOK, CanCall, SetBoth, SetRange,
           TakeRange, FreshInode, Ranges
  <1>3. CASE Close(c)
    BY <1>3, <1>0, Types
       DEF Close, CountInv, CallInv, InodeInv, TypeOK, CanCall, SetBoth, SetRange,
           TakeRange, FreshInode, Ranges
  <1>4. CASE CloseFd(c)
    BY <1>4, <1>0, Types
       DEF CloseFd, CountInv, CallInv, InodeInv, TypeOK, CanCall, SetBoth, SetRange,
           TakeRange, FreshInode, Ranges
  <1>5. CASE LockSharedInProcess(c)
    BY <1>5, <1>0, Types
       DEF LockSharedInProcess, CountInv, CallInv, InodeInv, TypeOK, CanCall, SetBoth,
           SetRange, TakeRange, FreshInode, Ranges
  <1>6. CASE LockShared(c)
    BY <1>6, <1>0, Types
       DEF LockShared, CountInv, CallInv, InodeInv, TypeOK, CanCall, SetBoth, SetRange,
           TakeRange, FreshInode, Ranges
  <1>7. CASE SharedRange(c)
    BY <1>7, <1>0, Types
       DEF SharedRange, CountInv, CallInv, InodeInv, TypeOK, CanCall, SetBoth,
           SetRange, TakeRange, FreshInode, Ranges
  <1>8. CASE SharedDrop(c)
    BY <1>8, <1>0, Types
       DEF SharedDrop, CountInv, CallInv, InodeInv, TypeOK, CanCall, SetBoth, SetRange,
           TakeRange, FreshInode, Ranges
  <1>9. CASE LockReserved(c)
    BY <1>9, <1>0, Types
       DEF LockReserved, CountInv, CallInv, InodeInv, TypeOK, CanCall, SetBoth,
           SetRange, TakeRange, FreshInode, Ranges
  <1>10. CASE LockPending(c)
    BY <1>10, <1>0, Types
       DEF LockPending, CountInv, CallInv, InodeInv, TypeOK, CanCall, SetBoth,
           SetRange, TakeRange, FreshInode, Ranges
  <1>11. CASE ExclusiveRange(c)
    BY <1>11, <1>0, Types
       DEF ExclusiveRange, CountInv, CallInv, InodeInv, TypeOK, CanCall, SetBoth,
           SetRange, TakeRange, FreshInode, Ranges
  <1>12. CASE LockExclusive(c)
    BY <1>12, <1>0, Types
       DEF LockExclusive, CountInv, CallInv, InodeInv, TypeOK, CanCall, SetBoth,
           SetRange, TakeRange, FreshInode, Ranges
  <1>13. CASE Downgrade(c)
    BY <1>13, <1>0, Types
       DEF Downgrade, CountInv, CallInv, InodeInv, TypeOK, CanCall, SetBoth, SetRange,
           TakeRange, FreshInode, Ranges
  <1>14. CASE DowngradeBytes(c)
    BY <1>14, <1>0, Types
       DEF DowngradeBytes, CountInv, CallInv, InodeInv, TypeOK, CanCall, SetBoth,
           SetRange, TakeRange, FreshInode, Ranges
  <1>15. CASE ReleaseBytes(c)
    BY <1>15, <1>0, Types
       DEF ReleaseBytes, CountInv, CallInv, InodeInv, TypeOK, CanCall, SetBoth,
           SetRange, TakeRange, FreshInode, Ranges
  <1>16. CASE Release(c)
    BY <1>16, <1>0, Types
       DEF Release, CountInv, CallInv, InodeInv, TypeOK, CanCall, SetBoth, SetRange,
           TakeRange, FreshInode, Ranges
  <1> QED BY <1>2, <1>3, <1>4, <1>5, <1>6, <1>7, <1>8, <1>9, <1>10, <1>11, <1>12,
     <1>13, <1>14, <1>15, <1>16
     DEF Step

LEMMA KernelInvStep ==
  ASSUME SerialClose, IInv, NEW c \in Conns, Step(c)
  PROVE  KernelInv'
  <1> DEFINE p == ProcOf[c]
  <1>0. TypeOK /\ CallInv /\ BackInv /\ KernelInv /\ p \in Procs
    BY ConnsAssumption DEF IInv
  <1>1. SUFFICES
          /\ \A r \in Ranges : \A q \in Procs \ {p} :
                /\ kernel'[p][r] = "write" => kernel[q][r] = "none"
                /\ kernel[q][r] = "write" => kernel'[p][r] = "none"
          /\ kernel'[p]["pending"] = "write" => kernel'[p]["reserved"] = "write"
    BY <1>0, Frame DEF KernelInv
  <1>2. CASE Open(c)
    BY <1>2, <1>0, Types
       DEF Open, KernelInv, CallInv, BackInv, TypeOK, CanCall, RangeIsFree, SetRange,
           DropBytes, TakeRange, Grants, Unlocked, Ranges, Modes
  <1>3. CASE Close(c)
    BY <1>3, <1>0, Types
       DEF Close, KernelInv, CallInv, BackInv, TypeOK, CanCall, RangeIsFree, SetRange,
           DropBytes, TakeRange, Grants, Unlocked, Ranges, Modes
  <1>4. CASE CloseFd(c)
    BY <1>4, <1>0, Types
       DEF CloseFd, KernelInv, CallInv, BackInv, TypeOK, CanCall, RangeIsFree,
           SetRange, DropBytes, TakeRange, Grants, Unlocked, Ranges, Modes
  <1>5. CASE LockSharedInProcess(c)
    BY <1>5, <1>0, Types
       DEF LockSharedInProcess, KernelInv, CallInv, BackInv, TypeOK, CanCall,
           RangeIsFree, SetRange, DropBytes, TakeRange, Grants, Unlocked, Ranges,
           Modes
  <1>6. CASE LockShared(c)
    BY <1>6, <1>0, Types
       DEF LockShared, KernelInv, CallInv, BackInv, TypeOK, CanCall, RangeIsFree,
           SetRange, DropBytes, TakeRange, Grants, Unlocked, Ranges, Modes
  <1>7. CASE SharedRange(c)
    BY <1>7, <1>0, Types
       DEF SharedRange, KernelInv, TypeOK, RangeIsFree, SetRange, DropBytes, TakeRange,
           Grants, Ranges, Modes
  <1>8. CASE SharedDrop(c)
    BY <1>8, <1>0, Types
       DEF SharedDrop, KernelInv, CallInv, BackInv, TypeOK, CanCall, RangeIsFree,
           SetRange, DropBytes, TakeRange, Grants, Unlocked, Ranges, Modes
  <1>9. CASE LockReserved(c)
    BY <1>9, <1>0, Types
       DEF LockReserved, KernelInv, CallInv, BackInv, TypeOK, CanCall, RangeIsFree,
           SetRange, DropBytes, TakeRange, Grants, Unlocked, Ranges, Modes
  <1>10. CASE LockPending(c)
    BY <1>10, <1>0, Types
       DEF LockPending, KernelInv, CallInv, BackInv, TypeOK, CanCall, RangeIsFree,
           SetRange, DropBytes, TakeRange, Grants, Unlocked, Ranges, Modes
  <1>11. CASE ExclusiveRange(c)
    BY <1>11, <1>0, Types
       DEF ExclusiveRange, KernelInv, CallInv, BackInv, TypeOK, CanCall, RangeIsFree,
           SetRange, DropBytes, TakeRange, Grants, Unlocked, Ranges, Modes
  <1>12. CASE LockExclusive(c)
    BY <1>12, <1>0, Types
       DEF LockExclusive, KernelInv, CallInv, BackInv, TypeOK, CanCall, RangeIsFree,
           SetRange, DropBytes, TakeRange, Grants, Unlocked, Ranges, Modes
  <1>13. CASE Downgrade(c)
    BY <1>13, <1>0, Types
       DEF Downgrade, KernelInv, CallInv, BackInv, TypeOK, CanCall, RangeIsFree,
           SetRange, DropBytes, TakeRange, Grants, Unlocked, Ranges, Modes
  <1>14. CASE DowngradeBytes(c)
    BY <1>14, <1>0, Types
       DEF DowngradeBytes, KernelInv, CallInv, BackInv, TypeOK, CanCall, RangeIsFree,
           SetRange, DropBytes, TakeRange, Grants, Unlocked, Ranges, Modes
  <1>15. CASE ReleaseBytes(c)
    BY <1>15, <1>0, Types
       DEF ReleaseBytes, KernelInv, CallInv, BackInv, TypeOK, CanCall, RangeIsFree,
           SetRange, DropBytes, TakeRange, Grants, Unlocked, Ranges, Modes
  <1>16. CASE Release(c)
    BY <1>16, <1>0, Types
       DEF Release, KernelInv, CallInv, BackInv, TypeOK, CanCall, RangeIsFree,
           SetRange, DropBytes, TakeRange, Grants, Unlocked, Ranges, Modes
  <1> QED BY <1>2, <1>3, <1>4, <1>5, <1>6, <1>7, <1>8, <1>9, <1>10, <1>11, <1>12,
     <1>13, <1>14, <1>15, <1>16
     DEF Step

LEMMA BackInvStep ==
  ASSUME SerialClose, IInv, NEW c \in Conns, Step(c)
  PROVE  BackInv'
  <1> DEFINE p == ProcOf[c]
             Backs(d) ==
               /\ eFileLock'[d] # NO_LOCK => kernel'[p]["shared"] # "none"
               /\ eFileLock'[d] = EXCLUSIVE_LOCK /\ pc'[d] # "unlockBytes" =>
                      kernel'[p]["shared"] = "write"
               /\ eFileLock'[d] \in {RESERVED_LOCK, PENDING_LOCK} /\ pc'[d] # "unlockAll" =>
                      kernel'[p]["reserved"] = "write"
               /\ eFileLock'[d] = PENDING_LOCK /\ pc'[d] # "unlockAll" =>
                      kernel'[p]["pending"] = "write"
               /\ eFileLock'[d] = RESERVED_LOCK => kernel'[p]["pending"] # "write"
               /\ pc'[d] = "unlockAll" =>
                      kernel'[p]["reserved"] # "write" /\ kernel'[p]["pending"] # "write"
  <1>0. TypeOK /\ CountInv /\ CallInv /\ InodeInv /\ BackInv /\ KernelInv /\ OwnerInv /\ p \in Procs
    BY ConnsAssumption DEF IInv
  <1>1. SUFFICES \A d \in Peers(c) : Backs(d)
    BY <1>0, Frame, Types DEF BackInv, Peers
  <1>a. /\ \A d \in Peers(c) \ {c} : pc[d] = "idle" /\ pc'[d] = "idle" /\ eFileLock'[d] = eFileLock[d]
        /\ \A d \in Peers(c) : ProcOf[d] = p /\ d \in Conns
    BY <1>0, Alone, Frame DEF Peers
  <1>2. CASE Open(c)
    BY <1>2, <1>a, <1>0, Types
       DEF Open, BackInv, CallInv, InodeInv, TypeOK, CanCall, SetBoth, RangeIsFree,
           SetRange, DropBytes, TakeRange, Grants, Unlocked, Ranges, Modes
  <1>3. CASE Close(c)
    BY <1>3, <1>a, <1>0, Types
       DEF Close, BackInv, CallInv, InodeInv, TypeOK, CanCall, SetBoth, RangeIsFree,
           SetRange, DropBytes, TakeRange, Grants, Unlocked, Ranges, Modes
  <1>4. CASE CloseFd(c)
    <2>1. \A d \in Peers(c) : eFileLock[d] = NO_LOCK
      BY <1>4, <1>0, SoleHolder
         DEF CloseFd, Holders, Peers, RangeIsFree, CallInv, InodeInv
    <2> QED BY <1>4, <2>1, <1>a, <1>0, Types
       DEF CloseFd, CanCall, SetBoth, RangeIsFree, SetRange, DropBytes, TakeRange,
           Grants, Unlocked, Ranges, Modes, BackInv, CallInv, TypeOK
  <1>5. CASE LockSharedInProcess(c)
    BY <1>5, <1>a, <1>0, Types
       DEF LockSharedInProcess, BackInv, CallInv, InodeInv, TypeOK, CanCall, SetBoth,
           RangeIsFree, SetRange, DropBytes, TakeRange, Grants, Unlocked, Ranges,
           Modes
  <1>6. CASE LockShared(c)
    BY <1>6, <1>a, <1>0, Types
       DEF LockShared, BackInv, CallInv, InodeInv, TypeOK, CanCall, SetBoth,
           RangeIsFree, SetRange, DropBytes, TakeRange, Grants, Unlocked, Ranges,
           Modes
  <1>7. CASE SharedRange(c)
    BY <1>7, <1>a, <1>0, Types
       DEF SharedRange, BackInv, CallInv, InodeInv, TypeOK, CanCall, SetBoth,
           RangeIsFree, SetRange, DropBytes, TakeRange, Grants, Unlocked, Ranges,
           Modes
  <1>8. CASE SharedDrop(c)
    BY <1>8, <1>a, <1>0, Types
       DEF SharedDrop, BackInv, CallInv, InodeInv, TypeOK, CanCall, SetBoth,
           RangeIsFree, SetRange, DropBytes, TakeRange, Grants, Unlocked, Ranges,
           Modes
  <1>9. CASE LockReserved(c)
    <2>1. MutexFree(c) /\ inode[p].eFileLock = SHARED_LOCK /\ eFileLock[c] = SHARED_LOCK
      BY <1>9 DEF LockReserved, AgreesWithInode
    <2>2. \A d \in Peers(c) : eFileLock[d] <= SHARED_LOCK
      BY <2>1, InodeIsHighest DEF SHARED_LOCK
    <2>3. kernel[p]["pending"] # "write"
      BY <2>2, <1>0, Types DEF OwnerInv, KernelInv, Peers, SHARED_LOCK
    <2> QED BY <1>9, <2>2, <2>3, <1>a, <1>0, Types
               DEF LockReserved, BackInv, TypeOK, CanCall, SetBoth, RangeIsFree,
                   SetRange, DropBytes, TakeRange, Grants, Unlocked, Ranges, Modes
  <1>10. CASE LockPending(c)
    BY <1>10, <1>a, <1>0, Types
       DEF LockPending, BackInv, CallInv, InodeInv, TypeOK, CanCall, SetBoth,
           RangeIsFree, SetRange, DropBytes, TakeRange, Grants, Unlocked, Ranges,
           Modes
  <1>11. CASE ExclusiveRange(c)
    <2>1. RangeIsFree(c) => \A d \in Peers(c) \ {c} : eFileLock[d] = NO_LOCK
      BY <1>11, <1>0, SoleHolder
         DEF ExclusiveRange, Holders, Peers, RangeIsFree, CallInv, InodeInv
    <2> QED BY <1>11, <2>1, <1>a, <1>0, Types
       DEF ExclusiveRange, CanCall, SetBoth, RangeIsFree, SetRange, DropBytes,
           TakeRange, Grants, Unlocked, Ranges, Modes, BackInv, CallInv, TypeOK
  <1>12. CASE LockExclusive(c)
    <2>1. RangeIsFree(c) => \A d \in Peers(c) \ {c} : eFileLock[d] = NO_LOCK
      BY <1>12, <1>0, SoleHolder
         DEF LockExclusive, Holders, Peers, RangeIsFree, CallInv, InodeInv
    <2> QED BY <1>12, <2>1, <1>a, <1>0, Types
       DEF LockExclusive, CanCall, SetBoth, RangeIsFree, SetRange, DropBytes,
           TakeRange, Grants, Unlocked, Ranges, Modes, BackInv, CallInv, TypeOK
  <1>13. CASE Downgrade(c)
    BY <1>13, <1>a, <1>0, Types
       DEF Downgrade, BackInv, CallInv, InodeInv, TypeOK, CanCall, SetBoth,
           RangeIsFree, SetRange, DropBytes, TakeRange, Grants, Unlocked, Ranges,
           Modes
  <1>14. CASE DowngradeBytes(c)
    BY <1>14, <1>a, <1>0, Types
       DEF DowngradeBytes, BackInv, CallInv, InodeInv, TypeOK, CanCall, SetBoth,
           RangeIsFree, SetRange, DropBytes, TakeRange, Grants, Unlocked, Ranges,
           Modes
  <1>15. CASE ReleaseBytes(c)
    BY <1>15, <1>a, <1>0, Types
       DEF ReleaseBytes, BackInv, CallInv, InodeInv, TypeOK, CanCall, SetBoth,
           RangeIsFree, SetRange, DropBytes, TakeRange, Grants, Unlocked, Ranges,
           Modes
  <1>16. CASE Release(c)
    <2>1. eFileLock[c] # NO_LOCK
      BY <1>16, <1>0 DEF Release, CallInv, CanCall
    <2>2. CASE inode[p].nShared = 1
      <3>1. \A d \in Peers(c) \ {c} : eFileLock[d] = NO_LOCK
        BY <2>1, <2>2, <1>0, SoleHolder DEF Holders, Peers
      <3>2. eFileLock'[c] = NO_LOCK /\ pc'[c] = "idle"
        BY <1>16, <1>0 DEF Release, TypeOK
      <3> QED BY <3>1, <3>2, <1>a
    <2>3. CASE inode[p].nShared # 1
      <3>1. kernel' = kernel
        BY <1>16, <2>3, <1>0 DEF Release, CountInv
      <3>2. eFileLock'[c] = NO_LOCK /\ pc'[c] = "idle"
        BY <1>16, <1>0 DEF Release, TypeOK
      <3> QED BY <3>1, <3>2, <1>a, <1>0 DEF BackInv
    <2> QED BY <2>2, <2>3
  <1> QED BY <1>2, <1>3, <1>4, <1>5, <1>6, <1>7, <1>8, <1>9, <1>10, <1>11, <1>12,
     <1>13, <1>14, <1>15, <1>16
     DEF Step

LEMMA CountInvStep ==
  ASSUME SerialClose, IInv, NEW c \in Conns, Step(c)
  PROVE  CountInv'
  <1> DEFINE p == ProcOf[c]
             Counts(q) ==
               /\ inode'[q].nShared = Cardinality(Holders(q)')
               /\ inode'[q].nLock = inode'[q].nShared
               /\ inode'[q].eFileLock = NO_LOCK <=> inode'[q].nShared = 0
  <1>0. TypeOK /\ CountInv /\ CallInv /\ InodeInv /\ p \in Procs
    BY ConnsAssumption DEF IInv
  <1>1. SUFFICES Counts(p)
    <2>1. \A q \in Procs \ {p} : Holders(q)' = Holders(q)
      BY <1>0, Frame DEF Holders
    <2> QED BY <2>1, <1>0, Frame DEF CountInv
  <1>h. eFileLock[c] # NO_LOCK => inode[p].nShared # 0 /\ inode[p].eFileLock # NO_LOCK
    BY <1>0 DEF CountInv, InodeInv
  <1>2. CASE Open(c)
    <2>1. Holders(p)' = Holders(p)
      BY <1>2 DEF Open, Holders
    <2> QED BY <1>2, <2>1, <1>0, <1>h, Types
       DEF Open, CountInv, TypeOK, CallInv, FreshInode
  <1>3. CASE Close(c)
    <2>1. Holders(p)' = Holders(p)
      BY <1>3 DEF Close, Holders
    <2> QED BY <1>3, <2>1, <1>0, <1>h, Types
       DEF Close, CountInv, TypeOK, CallInv, FreshInode
  <1>4. CASE CloseFd(c)
    <2>1. Holders(p)' = Holders(p)
      BY <1>4 DEF CloseFd, Holders
    <2> QED BY <1>4, <2>1, <1>0, <1>h, Types
       DEF CloseFd, CountInv, TypeOK, CallInv, FreshInode
  <1>5. CASE LockSharedInProcess(c)
    <2>1. eFileLock[c] = NO_LOCK /\ eFileLock \in [Conns -> Levels]
      BY <1>5, <1>0 DEF LockSharedInProcess, TypeOK
    <2>2. Cardinality(Holders(p)') = Cardinality(Holders(p)) + 1
      <3>1. eFileLock' = [eFileLock EXCEPT ![c] = SHARED_LOCK] /\ SHARED_LOCK \in Levels \ {NO_LOCK}
        BY <1>5 DEF LockSharedInProcess
      <3> QED BY <2>1, <3>1, HolderAdded
    <2>3. /\ inode'[p].nShared = inode[p].nShared + 1
          /\ inode'[p].nLock = inode[p].nLock + 1
          /\ inode'[p].eFileLock = inode[p].eFileLock /\ inode[p].eFileLock # NO_LOCK
      BY <1>5, <1>0 DEF LockSharedInProcess, TypeOK
    <2> QED BY <2>1, <2>2, <2>3, <1>0, Types DEF CountInv
  <1>6. CASE LockShared(c)
    <2>1. Holders(p)' = Holders(p)
      BY <1>6 DEF LockShared, Holders
    <2> QED BY <1>6, <2>1, <1>0, <1>h, Types
       DEF LockShared, CountInv, TypeOK, CallInv, FreshInode
  <1>7. CASE SharedRange(c)
    <2>1. Holders(p)' = Holders(p)
      BY <1>7 DEF SharedRange, Holders
    <2> QED BY <1>7, <2>1, <1>0, <1>h, Types
       DEF SharedRange, CountInv, TypeOK, CallInv, FreshInode
  <1>8. CASE SharedDrop(c)
    <2>1. CASE pc[c] = "sharedFail"
      BY <1>8, <2>1, <1>0 DEF SharedDrop, CountInv, Holders
    <2>2. CASE pc[c] = "sharedDrop"
      <3>1. eFileLock[c] = NO_LOCK /\ eFileLock \in [Conns -> Levels] /\ inode[p].nShared = 0
        BY <2>2, <1>0 DEF CallInv, CountInv, InodeInv, TypeOK
      <3>2. Cardinality(Holders(p)') = Cardinality(Holders(p)) + 1
        BY <1>8, <2>2, <3>1, HolderAdded DEF SharedDrop
      <3>3. /\ inode'[p].nShared = 1
            /\ inode'[p].nLock = inode[p].nLock + 1
            /\ inode'[p].eFileLock = SHARED_LOCK
        BY <1>8, <2>2, <1>0 DEF SharedDrop, TypeOK
      <3> QED BY <3>1, <3>2, <3>3, <1>0 DEF CountInv
    <2> QED BY <1>8, <2>1, <2>2 DEF SharedDrop
  <1>9. CASE LockReserved(c)
    <2>1. eFileLock[c] # NO_LOCK /\ eFileLock \in [Conns -> Levels]
      BY <1>9, <1>0 DEF LockReserved, CallInv, TypeOK
    <2>2. SetBoth(c, RESERVED_LOCK)
      BY <1>9 DEF LockReserved, TakeRange
    <2>3. Holders(p)' = Holders(p)
      BY <2>1, <2>2, HoldersSame DEF SetBoth, Holders
    <2> QED BY <2>1, <2>2, <2>3, <1>0, <1>h, Types DEF SetBoth, CountInv, TypeOK
  <1>10. CASE LockPending(c)
    <2>1. eFileLock[c] # NO_LOCK /\ eFileLock \in [Conns -> Levels]
      BY <1>10, <1>0 DEF LockPending, CallInv, TypeOK
    <2>2. SetBoth(c, PENDING_LOCK)
      BY <1>10 DEF LockPending, TakeRange
    <2>3. Holders(p)' = Holders(p)
      BY <2>1, <2>2, HoldersSame DEF SetBoth, Holders
    <2> QED BY <2>1, <2>2, <2>3, <1>0, <1>h, Types DEF SetBoth, CountInv, TypeOK
  <1>11. CASE ExclusiveRange(c)
    <2>1. eFileLock[c] # NO_LOCK /\ eFileLock \in [Conns -> Levels]
      BY <1>11, <1>0 DEF ExclusiveRange, CallInv, TypeOK
    <2>2. UNCHANGED <<eFileLock, inode>> \/ SetBoth(c, EXCLUSIVE_LOCK)
      BY <1>11 DEF ExclusiveRange, TakeRange
    <2>3. Holders(p)' = Holders(p)
      BY <2>1, <2>2, HoldersSame DEF SetBoth, Holders
    <2> QED BY <2>1, <2>2, <2>3, <1>0, <1>h, Types DEF SetBoth, CountInv, TypeOK
  <1>12. CASE LockExclusive(c)
    <2>1. eFileLock[c] # NO_LOCK /\ eFileLock \in [Conns -> Levels]
      BY <1>12, <1>0 DEF LockExclusive, CallInv, TypeOK
    <2>2. SetBoth(c, EXCLUSIVE_LOCK)
      BY <1>12 DEF LockExclusive, TakeRange
    <2>3. Holders(p)' = Holders(p)
      BY <2>1, <2>2, HoldersSame DEF SetBoth, Holders
    <2> QED BY <2>1, <2>2, <2>3, <1>0, <1>h, Types DEF SetBoth, CountInv, TypeOK
  <1>13. CASE Downgrade(c)
    <2>1. Holders(p)' = Holders(p)
      BY <1>13 DEF Downgrade, Holders
    <2> QED BY <1>13, <2>1, <1>0, <1>h, Types
       DEF Downgrade, CountInv, TypeOK, CallInv, FreshInode
  <1>14. CASE DowngradeBytes(c)
    <2>1. eFileLock[c] # NO_LOCK /\ eFileLock \in [Conns -> Levels]
      BY <1>14, <1>0 DEF DowngradeBytes, CallInv, TypeOK
    <2>2. SetBoth(c, SHARED_LOCK)
      BY <1>14 DEF DowngradeBytes, TakeRange
    <2>3. Holders(p)' = Holders(p)
      BY <2>1, <2>2, HoldersSame DEF SetBoth, Holders
    <2> QED BY <2>1, <2>2, <2>3, <1>0, <1>h, Types DEF SetBoth, CountInv, TypeOK
  <1>15. CASE ReleaseBytes(c)
    <2>1. Holders(p)' = Holders(p)
      BY <1>15 DEF ReleaseBytes, Holders
    <2> QED BY <1>15, <2>1, <1>0, <1>h, Types
       DEF ReleaseBytes, CountInv, TypeOK, CallInv, FreshInode
  <1>16. CASE Release(c)
    <2>1. eFileLock[c] # NO_LOCK /\ eFileLock \in [Conns -> Levels]
      BY <1>16, <1>0 DEF Release, CallInv, TypeOK
    <2>2. Cardinality(Holders(p)') = Cardinality(Holders(p)) - 1
      BY <1>16, <2>1, HolderRemoved DEF Release
    <2>3. /\ inode'[p].nShared = inode[p].nShared - 1
          /\ inode'[p].nLock = inode[p].nLock - 1
          /\ inode'[p].eFileLock = IF inode[p].nShared = 1 THEN NO_LOCK ELSE inode[p].eFileLock
      BY <1>16, <1>0 DEF Release, TypeOK
    <2> QED BY <2>1, <2>2, <2>3, <1>0, <1>h, Types DEF CountInv
  <1> QED BY <1>2, <1>3, <1>4, <1>5, <1>6, <1>7, <1>8, <1>9, <1>10, <1>11, <1>12,
     <1>13, <1>14, <1>15, <1>16
     DEF Step

LEMMA OwnerInvStep ==
  ASSUME SerialClose, IInv, NEW c \in Conns, Step(c)
  PROVE  OwnerInv'
  <1> DEFINE p == ProcOf[c]
             Owned ==
               /\ kernel'[p]["reserved"] # "read"
               /\ kernel'[p]["reserved"] = "write" =>
                      \E d \in Peers(c) : eFileLock'[d] > SHARED_LOCK
               /\ inode'[p].eFileLock > SHARED_LOCK =>
                      \E d \in Peers(c) : eFileLock'[d] = inode'[p].eFileLock
  <1>0. TypeOK /\ CallInv /\ InodeInv /\ BackInv /\ OwnerInv /\ p \in Procs
    BY ConnsAssumption DEF IInv
  <1>f. \A d \in Conns \ {c} : eFileLock'[d] = eFileLock[d]
    BY <1>0, Frame
  <1>1. SUFFICES Owned
    <2>1. \A q \in Procs \ {p} : inode'[q] = inode[q] /\ kernel'[q] = kernel[q]
      BY <1>0, Frame
    <2>2. \A q \in Procs \ {p} : \A d \in Conns : ProcOf[d] = q => eFileLock'[d] = eFileLock[d]
      BY <1>f
    <2> QED BY <1>0, <2>1, <2>2 DEF OwnerInv, Peers
  <1>2. c \in Peers(c) /\ \A d \in Peers(c) : d \in Conns /\ ProcOf[d] = p
    BY DEF Peers
  <1>3. /\ kernel[p]["reserved"] # "read"
        /\ kernel[p]["reserved"] = "write" => \E d \in Peers(c) : eFileLock[d] > SHARED_LOCK
        /\ inode[p].eFileLock > SHARED_LOCK =>
               \E d \in Peers(c) : eFileLock[d] = inode[p].eFileLock
    BY <1>0 DEF OwnerInv, Peers
  <1>4. CASE Open(c)
    <2>1. /\ kernel'[p]["reserved"] = kernel[p]["reserved"] /\ eFileLock' = eFileLock
          /\ inode'[p].eFileLock = inode[p].eFileLock
      BY <1>4, <1>0 DEF Open, SetRange, TypeOK, Ranges
    <2> QED BY <2>1, <1>3
  <1>5. CASE Close(c)
    <2>1. /\ kernel'[p]["reserved"] = kernel[p]["reserved"] /\ eFileLock' = eFileLock
          /\ inode'[p].eFileLock = inode[p].eFileLock
      BY <1>5, <1>0 DEF Close, SetRange, TypeOK, Ranges
    <2> QED BY <2>1, <1>3
  <1>6. CASE CloseFd(c)
    <2>1. kernel'[p]["reserved"] = "none" /\ inode'[p].eFileLock = NO_LOCK
      BY <1>6, <1>0 DEF CloseFd, CallInv, TypeOK, Unlocked, Ranges, FreshInode
    <2> QED BY <2>1
  <1>7. CASE LockSharedInProcess(c)
    <2>1. /\ kernel'[p]["reserved"] = kernel[p]["reserved"] /\ eFileLock[c] = NO_LOCK
          /\ inode'[p].eFileLock \in {SHARED_LOCK, inode[p].eFileLock}
      BY <1>7, <1>0 DEF LockSharedInProcess, SetRange, TypeOK, Ranges, CallInv, InodeInv
    <2>2. \A d \in Peers(c) : eFileLock[d] > SHARED_LOCK => eFileLock'[d] = eFileLock[d]
      BY <2>1, <1>f, <1>2
    <2> QED BY <2>1, <2>2, <1>3, <1>2, Types
  <1>8. CASE LockShared(c)
    <2>1. /\ kernel'[p]["reserved"] = kernel[p]["reserved"] /\ eFileLock' = eFileLock
          /\ inode'[p].eFileLock = inode[p].eFileLock
      BY <1>8, <1>0 DEF LockShared, SetRange, TypeOK, Ranges
    <2> QED BY <2>1, <1>3
  <1>9. CASE SharedRange(c)
    <2>1. /\ kernel'[p]["reserved"] = kernel[p]["reserved"] /\ eFileLock' = eFileLock
          /\ inode'[p].eFileLock = inode[p].eFileLock
      BY <1>9, <1>0 DEF SharedRange, SetRange, TypeOK, Ranges
    <2> QED BY <2>1, <1>3
  <1>10. CASE SharedDrop(c)
    <2>1. /\ kernel'[p]["reserved"] = kernel[p]["reserved"] /\ eFileLock[c] = NO_LOCK
          /\ inode'[p].eFileLock \in {SHARED_LOCK, inode[p].eFileLock}
      BY <1>10, <1>0 DEF SharedDrop, SetRange, TypeOK, Ranges, CallInv, InodeInv
    <2>2. \A d \in Peers(c) : eFileLock[d] > SHARED_LOCK => eFileLock'[d] = eFileLock[d]
      BY <2>1, <1>f, <1>2
    <2> QED BY <2>1, <2>2, <1>3, <1>2, Types
  <1>11. CASE LockReserved(c)
    <2>1. eFileLock'[c] = RESERVED_LOCK /\ inode'[p].eFileLock = RESERVED_LOCK
      BY <1>11, <1>0 DEF LockReserved, TakeRange, SetBoth, TypeOK
    <2>2. kernel'[p]["reserved"] # "read"
      BY <1>11, <1>0, <1>3
         DEF LockReserved, TakeRange, SetRange, DropBytes, TypeOK, Ranges
    <2> QED BY <2>1, <2>2, <1>2
  <1>12. CASE LockPending(c)
    <2>1. eFileLock'[c] = PENDING_LOCK /\ inode'[p].eFileLock = PENDING_LOCK
      BY <1>12, <1>0 DEF LockPending, TakeRange, SetBoth, TypeOK
    <2>2. kernel'[p]["reserved"] # "read"
      BY <1>12, <1>0, <1>3
         DEF LockPending, TakeRange, SetRange, DropBytes, TypeOK, Ranges
    <2> QED BY <2>1, <2>2, <1>2
  <1>13. CASE ExclusiveRange(c)
    <2>1. kernel'[p]["reserved"] # "read"
      BY <1>13, <1>0, <1>3 DEF ExclusiveRange, TakeRange, SetRange, TypeOK, Ranges
    <2>2. \/ eFileLock'[c] = EXCLUSIVE_LOCK /\ inode'[p].eFileLock = EXCLUSIVE_LOCK
          \/ eFileLock' = eFileLock /\ inode' = inode /\ kernel' = kernel
      BY <1>13, <1>0 DEF ExclusiveRange, TakeRange, SetBoth, TypeOK
    <2> QED BY <2>1, <2>2, <1>2, <1>3
  <1>14. CASE LockExclusive(c)
    <2>1. eFileLock'[c] = EXCLUSIVE_LOCK /\ inode'[p].eFileLock = EXCLUSIVE_LOCK
      BY <1>14, <1>0 DEF LockExclusive, TakeRange, SetBoth, TypeOK
    <2>2. kernel'[p]["reserved"] # "read"
      BY <1>14, <1>0, <1>3
         DEF LockExclusive, TakeRange, SetRange, DropBytes, TypeOK, Ranges
    <2> QED BY <2>1, <2>2, <1>2
  <1>15. CASE Downgrade(c)
    <2>1. /\ kernel'[p]["reserved"] = kernel[p]["reserved"] /\ eFileLock' = eFileLock
          /\ inode'[p].eFileLock = inode[p].eFileLock
      BY <1>15, <1>0 DEF Downgrade, SetRange, TypeOK, Ranges
    <2> QED BY <2>1, <1>3
  <1>16. CASE DowngradeBytes(c)
    <2>1. eFileLock'[c] = SHARED_LOCK /\ inode'[p].eFileLock = SHARED_LOCK
      BY <1>16, <1>0 DEF DowngradeBytes, TakeRange, SetBoth, TypeOK
    <2>2. kernel'[p]["reserved"] = "none"
      BY <1>16, <1>0, <1>3
         DEF DowngradeBytes, TakeRange, SetRange, DropBytes, TypeOK, Ranges
    <2> QED BY <2>1, <2>2, <1>2
  <1>17. CASE ReleaseBytes(c)
    <2>1. kernel'[p]["reserved"] = "none" /\ inode'[p].eFileLock = SHARED_LOCK
      BY <1>17, <1>0 DEF ReleaseBytes, DropBytes, TypeOK, Ranges
    <2> QED BY <2>1
  <1>18. CASE Release(c)
    <2>1. /\ kernel'[p]["reserved"] \in {"none", kernel[p]["reserved"]}
          /\ inode'[p].eFileLock \in {NO_LOCK, inode[p].eFileLock}
      BY <1>18, <1>0 DEF Release, TypeOK, Unlocked, Ranges
    <2>2. eFileLock[c] > SHARED_LOCK =>
              inode[p].eFileLock = SHARED_LOCK /\ kernel[p]["reserved"] # "write"
      BY <1>18, <1>0 DEF Release, CallInv, BackInv
    <2>3. eFileLock[c] <= SHARED_LOCK =>
              \A d \in Peers(c) : eFileLock[d] > SHARED_LOCK => eFileLock'[d] = eFileLock[d]
      BY <1>f, <1>2, Types, <1>0
    <2> QED BY <2>1, <2>2, <2>3, <1>3, <1>2, <1>0, Types
  <1> QED BY <1>4, <1>5, <1>6, <1>7, <1>8, <1>9, <1>10, <1>11, <1>12, <1>13, <1>14,
     <1>15, <1>16, <1>17, <1>18
     DEF Step

LEMMA CrashStep ==
  ASSUME IInv, NEW p \in Procs, Crash(p)
  PROVE  IInv'
  <1>0. TypeOK /\ CountInv /\ OneCallInv /\ CallInv /\ InodeInv /\ KernelInv /\ BackInv /\ OwnerInv
    BY DEF IInv
  <1>1. TypeOK'
    BY <1>0 DEF Crash, TypeOK, FreshInode, Unlocked, Ranges, Modes, PCs
  <1>2. /\ \A d \in Conns : IF ProcOf[d] = p THEN eFileLock'[d] = NO_LOCK /\ pc'[d] = "idle"
                            ELSE /\ eFileLock'[d] = eFileLock[d] /\ pc'[d] = pc[d]
                                 /\ d \in open' <=> d \in open
        /\ \A q \in Procs \ {p} : inode'[q] = inode[q] /\ kernel'[q] = kernel[q]
        /\ inode'[p] = FreshInode /\ kernel'[p] = Unlocked
    BY <1>0 DEF Crash, TypeOK
  <1>3. CountInv'
    <2>1. Holders(p)' = {}
      BY <1>2 DEF Holders
    <2>2. \A q \in Procs \ {p} : Holders(q)' = Holders(q)
      BY <1>2 DEF Holders
    <2>3. inode'[p].nShared = 0 /\ inode'[p].nLock = 0 /\ inode'[p].eFileLock = NO_LOCK
      BY <1>2 DEF FreshInode
    <2>4. Cardinality(Holders(p)') = 0
      BY <2>1, FS_EmptySet
    <2> QED BY <1>0, <1>2, <2>2, <2>3, <2>4 DEF CountInv
  <1>4. OneCallInv' /\ CallInv' /\ InodeInv'
    BY <1>0, <1>2, ConnsAssumption
    DEF OneCallInv, CallInv, InodeInv, AgreesWithInode, Peers, FreshInode
  <1>5. KernelInv' /\ BackInv' /\ OwnerInv'
    BY <1>0, <1>2, ConnsAssumption
       DEF KernelInv, BackInv, OwnerInv, FreshInode, Unlocked, Ranges
  <1> QED BY <1>1, <1>3, <1>4, <1>5 DEF IInv

LEMMA InitIInv == Init => IInv
  <1> SUFFICES ASSUME Init PROVE IInv
    OBVIOUS
  <1>1. \A p : Holders(p) = {}
    BY DEF Init, Holders
  <1>2. CountInv
    BY <1>1, FS_EmptySet DEF Init, CountInv, FreshInode
  <1>3. TypeOK /\ OneCallInv /\ CallInv /\ InodeInv /\ KernelInv /\ BackInv /\ OwnerInv
    BY ConnsAssumption
    DEF Init, TypeOK, OneCallInv, CallInv, InodeInv, AgreesWithInode, Peers, KernelInv,
        BackInv, OwnerInv, FreshInode, Unlocked, Ranges, Modes, PCs
  <1> QED BY <1>2, <1>3 DEF IInv

LEMMA NextIInv ==
  ASSUME SerialClose, IInv, [Next]_vars
  PROVE  IInv'
  <1>1. ASSUME NEW c \in Conns, Step(c) PROVE IInv'
    BY <1>1, TypeOKStep, CountInvStep, OneCallInvStep, CallInvStep, InodeInvStep,
       KernelInvStep, BackInvStep, OwnerInvStep DEF IInv
  <1>2. ASSUME NEW p \in Procs, Crash(p) PROVE IInv'
    BY <1>2, CrashStep
  <1>3. CASE UNCHANGED vars
    <2>1. TypeOK' /\ OneCallInv' /\ CallInv' /\ InodeInv' /\ KernelInv' /\ BackInv' /\ OwnerInv'
      BY <1>3 DEF vars, IInv, TypeOK, OneCallInv, CallInv, InodeInv, AgreesWithInode,
                  KernelInv, BackInv, OwnerInv
    <2>2. CountInv'
      BY <1>3 DEF vars, IInv, CountInv, Holders
    <2> QED BY <2>1, <2>2 DEF IInv
  <1> QED BY <1>1, <1>2, <1>3 DEF Next

(* Counts, levels, fcntl() locks and the steps of each call fit together   *)
(* in every reachable state: the inductive invariant.                      *)
THEOREM Invariance == ASSUME SerialClose PROVE Spec => []IInv
  <1>1. IInv /\ [Next]_vars => IInv'
    BY NextIInv
  <1> QED BY <1>1, InitIInv, PTL DEF Spec

-----------------------------------------------------------------------------
(* What a level means in kernel locks. *)
LEMMA LevelMeans ==
  ASSUME IInv, NEW c \in Conns
  PROVE  LET k == kernel[ProcOf[c]]
         IN  /\ LevelOf(c) \in 0 .. 4
             /\ LevelOf(c) > SHARED_LOCK => eFileLock[c] > SHARED_LOCK
             /\ LevelOf(c) = EXCLUSIVE_LOCK => eFileLock[c] = EXCLUSIVE_LOCK
             /\ LevelOf(c) = NO_LOCK <=> eFileLock[c] = NO_LOCK
             /\ LevelOf(c) # NO_LOCK => k["shared"] # "none"
             /\ LevelOf(c) = EXCLUSIVE_LOCK => k["shared"] = "write"
             /\ LevelOf(c) >= RESERVED_LOCK => "write" \in {k["reserved"], k["shared"]}
             /\ LevelOf(c) \in {RESERVED_LOCK, PENDING_LOCK} => k["reserved"] = "write"
             /\ LevelOf(c) = PENDING_LOCK => k["pending"] = "write"
  <1> DEFINE k == kernel[ProcOf[c]]
  <1>0. TypeOK /\ CallInv /\ KernelInv /\ BackInv
    BY DEF IInv
  <1>1. CASE pc[c] \notin {"unlockBytes", "unlockAll"}
    <2>1. LevelOf(c) = eFileLock[c]
      BY <1>1 DEF LevelOf
    <2> QED BY <2>1, <1>0, <1>1, Types DEF BackInv
  <1>2. CASE pc[c] \in {"unlockBytes", "unlockAll"}
    <2>1. eFileLock[c] > SHARED_LOCK /\ k["shared"] # "none"
      BY <1>0, <1>2, Types DEF CallInv, BackInv
    <2>2. /\ LevelOf(c) \in {SHARED_LOCK, RESERVED_LOCK, PENDING_LOCK}
          /\ LevelOf(c) = PENDING_LOCK => k["pending"] = "write" /\ k["reserved"] = "write"
          /\ LevelOf(c) = RESERVED_LOCK => k["reserved"] = "write"
      BY <1>0, <1>2, Types DEF LevelOf, KernelInv
    <2> QED BY <2>1, <2>2, <1>0, Types
  <1> QED BY <1>1, <1>2

LEMMA IInvCompatible == IInv => LocksCompatible
  <1> SUFFICES ASSUME IInv, NEW c \in Conns, NEW d \in Conns, c # d
               PROVE  DB!Compatible(LevelOf(c), LevelOf(d))
    BY DEF LocksCompatible, DB!LocksCompatible
  <1>0. TypeOK /\ InodeInv /\ KernelInv
    BY DEF IInv
  <1>1. CASE ProcOf[c] = ProcOf[d]
    <2>1. /\ eFileLock[c] > SHARED_LOCK => eFileLock[d] <= SHARED_LOCK
          /\ eFileLock[c] = EXCLUSIVE_LOCK => eFileLock[d] = NO_LOCK
      BY <1>1, <1>0 DEF Peers, InodeInv
    <2> QED BY <2>1, <1>0, Types, LevelMeans
       DEF DB!Compatible, DB!NO_LOCK, DB!RESERVED_LOCK, DB!EXCLUSIVE_LOCK
  <1>2. CASE ProcOf[c] # ProcOf[d]
    <2>1. \A r \in {"reserved", "shared"} :
              "write" \in {kernel[ProcOf[c]][r], kernel[ProcOf[d]][r]} =>
                  "none" \in {kernel[ProcOf[c]][r], kernel[ProcOf[d]][r]}
      BY <1>0, <1>2, Types DEF KernelInv, Ranges
    <2> QED BY <2>1, <1>0, Types, LevelMeans
       DEF DB!Compatible, DB!NO_LOCK, DB!RESERVED_LOCK, DB!EXCLUSIVE_LOCK
  <1> QED BY <1>1, <1>2

LEMMA IInvBacked == IInv => KernelBacksHandles
  BY LevelMeans, Types DEF IInv, KernelBacksHandles

(* Handles, inodes and fcntl() locks keep their types: the counters of     *)
(* unixInodeInfo never go below zero, whoever locks, unlocks or dies.      *)
THEOREM Typing == ASSUME SerialClose PROVE Spec => []TypeOK
  <1>1. IInv => TypeOK
    BY DEF IInv
  <1> QED BY Invariance, <1>1, PTL

(* os.h's compatibility of lock levels holds in every reachable state.     *)
THEOREM Compatibility == ASSUME SerialClose PROVE Spec => []LocksCompatible
  BY Invariance, IInvCompatible, PTL

(* No lock is ever lost behind a connection's back: unixClose parks the    *)
(* descriptor, and no unlock of another handle reaches this one's locks.   *)
THEOREM NoLockLost == ASSUME SerialClose PROVE Spec => []KernelBacksHandles
  BY Invariance, IInvBacked, PTL

(* hasHotJournal may trust unixCheckReservedLock.                          *)
LEMMA IInvProbe == IInv => ReservedProbeExact
  <1> SUFFICES ASSUME IInv, NEW c \in Conns, pc[c] = "idle", MutexFree(c),
                      eFileLock[c] = SHARED_LOCK
               PROVE  CheckReservedLock(c) <=> \E d \in Conns : LevelOf(d) >= RESERVED_LOCK
    BY DEF ReservedProbeExact
  <1> DEFINE p == ProcOf[c]
  <1>0. TypeOK /\ CallInv /\ InodeInv /\ KernelInv /\ BackInv /\ OwnerInv /\ p \in Procs
    BY ConnsAssumption DEF IInv
  <1>1. \A d \in Peers(c) : LevelOf(d) = eFileLock[d] /\ pc[d] # "unlockAll"
    BY DEF MutexFree, LevelOf, Peers
  <1>2. ASSUME CheckReservedLock(c) PROVE \E d \in Conns : LevelOf(d) >= RESERVED_LOCK
    <2>1. CASE inode[p].eFileLock > SHARED_LOCK
      BY <2>1, <1>0, <1>1, Types DEF OwnerInv, Peers
    <2>2. CASE ~Grants(p, "reserved", "write")
      <3>1. PICK q \in Procs : kernel[q]["reserved"] # "none"
        BY <2>2 DEF Grants
      <3>2. kernel[q]["reserved"] = "write"
        BY <3>1, <1>0, Types DEF OwnerInv, Ranges, Modes
      <3>3. PICK d \in Conns : ProcOf[d] = q /\ eFileLock[d] > SHARED_LOCK
        BY <3>2, <1>0 DEF OwnerInv
      <3>4. pc[d] # "unlockAll"
        BY <3>2, <3>3, <1>0 DEF BackInv
      <3>5. LevelOf(d) >= RESERVED_LOCK
        BY <3>2, <3>3, <3>4, <1>0, Types DEF LevelOf
      <3> QED BY <3>5
    <2> QED BY <1>2, <2>1, <2>2 DEF CheckReservedLock
  <1>3. ASSUME NEW d \in Conns, LevelOf(d) >= RESERVED_LOCK PROVE CheckReservedLock(c)
    <2>1. CASE d \in Peers(c)
      BY <1>0, <1>1, <1>3, <2>1, Types
         DEF CheckReservedLock, InodeInv, AgreesWithInode, Peers
    <2>2. CASE d \notin Peers(c)
      <3>1. ProcOf[d] # p /\ ProcOf[d] \in Procs
        BY <2>2, <1>0, Types DEF Peers
      <3>2. kernel[p]["shared"] # "none"
        BY <1>0 DEF BackInv
      <3>3. kernel[ProcOf[d]]["shared"] # "write"
        BY <3>1, <3>2, <1>0 DEF KernelInv, Ranges
      <3>4. kernel[ProcOf[d]]["reserved"] = "write"
        BY <1>3, <3>3, LevelMeans
      <3> QED BY <3>1, <3>4 DEF CheckReservedLock, Grants
    <2> QED BY <2>1, <2>2
  <1> QED BY <1>2, <1>3

(* unixCheckReservedLock, asked by a connection at SHARED, answers that    *)
(* there is a RESERVED lock exactly when some connection holds RESERVED or *)
(* more.                                                                   *)
THEOREM ProbeExact == ASSUME SerialClose PROVE Spec => []ReservedProbeExact
  BY Invariance, IInvProbe, PTL

-----------------------------------------------------------------------------
(* No lock outlives the handles: what the kernel still has for a process   *)
(* without holders is what a call of it has just taken, and descriptors    *)
(* are parked only as long as there are locks.                             *)
LeakInv ==
    \A p \in Procs :
        /\ inode[p].nLock = 0 => inode[p].nUnused = 0
        /\ kernel[p]["shared"] # "none" =>
               inode[p].nLock # 0 \/ \E c \in Conns : ProcOf[c] = p /\ pc[c] = "sharedDrop"
        /\ kernel[p]["pending"] = "read" =>
               \E c \in Conns : ProcOf[c] = p /\ pc[c] \in {"sharedRange", "sharedDrop", "sharedFail"}

(* A handle with a lock is counted. *)
LEMMA Counted ==
  ASSUME IInv, NEW c \in Conns, eFileLock[c] # NO_LOCK
  PROVE  inode[ProcOf[c]].nLock # 0
  BY Types DEF IInv, CountInv, InodeInv

LEMMA LeakInvStep ==
  ASSUME SerialClose, IInv, LeakInv, NEW c \in Conns, Step(c)
  PROVE  LeakInv'
  <1> DEFINE p == ProcOf[c]
  <1>0. TypeOK /\ p \in Procs /\ CountInv /\ CallInv /\ InodeInv
        /\ kernel \in [Procs -> [Ranges -> Modes]]
        /\ inode \in [Procs -> [eFileLock : Levels, nShared : Nat, nLock : Nat, nUnused : Nat]]
        /\ pc \in [Conns -> PCs]
    BY ConnsAssumption DEF IInv, TypeOK
  <1>1. /\ \A d \in Conns \ {c} : pc'[d] = pc[d]
        /\ \A q \in Procs \ {p} : inode'[q] = inode[q] /\ kernel'[q] = kernel[q]
    BY <1>0, Frame
  <1>2. \A d \in Peers(c) \ {c} : pc[d] = "idle" /\ pc'[d] = "idle"
    BY <1>0, <1>1, Alone DEF Peers
  <1> DEFINE Goal == /\ inode'[p].nLock = 0 => inode'[p].nUnused = 0
                     /\ kernel'[p]["shared"] # "none" => inode'[p].nLock # 0 \/ pc'[c] = "sharedDrop"
                     /\ kernel'[p]["pending"] = "read" =>
                           pc'[c] \in {"sharedRange", "sharedDrop", "sharedFail"}
  <1>3. SUFFICES Goal
    <2>1. ASSUME NEW q \in Procs \ {p}
          PROVE  /\ inode'[q].nLock = 0 => inode'[q].nUnused = 0
                 /\ kernel'[q]["shared"] # "none" => inode'[q].nLock # 0
                       \/ \E d \in Conns : ProcOf[d] = q /\ pc'[d] = "sharedDrop"
                 /\ kernel'[q]["pending"] = "read" => \E d \in Conns :
                       ProcOf[d] = q /\ pc'[d] \in {"sharedRange", "sharedDrop", "sharedFail"}
      <3>1. \A d \in Conns : ProcOf[d] = q => pc'[d] = pc[d]
        BY <1>1
      <3> QED BY <1>1, <3>1 DEF LeakInv
    <2>2. Goal => LeakInv'
      BY <2>1 DEF LeakInv
    <2> QED BY <2>2
  <1>4. /\ inode[p].nLock = 0 => inode[p].nUnused = 0
        /\ kernel[p]["shared"] # "none" => inode[p].nLock # 0 \/ pc[c] = "sharedDrop"
        /\ kernel[p]["pending"] = "read" =>
              pc[c] \in {"sharedRange", "sharedDrop", "sharedFail"}
    BY <1>0, <1>2 DEF LeakInv, Peers
  <1>5. inode[p].nLock \in Nat /\ inode[p].nUnused \in Nat /\ inode[p].nShared = inode[p].nLock
    BY <1>0 DEF CountInv
  <1>6. CASE Open(c)
    <2>1. inode[p].nLock = inode'[p].nLock /\ (inode[p].nUnused = 0 => inode'[p].nUnused = 0)
          /\ UNCHANGED <<pc, kernel>>
      BY <1>6, <1>0 DEF Open
    <2> QED BY <2>1, <1>4
  <1>7. CASE Close(c)
    <2>1. CASE MustPark(c)
      BY <1>7, <2>1, <1>0, <1>4, <1>5 DEF Close, CanCall
    <2>2. CASE ~MustPark(c)
      BY <1>7, <2>2, <1>0, <1>4, <1>5 DEF Close, CanCall
    <2> QED BY <2>1, <2>2
  <1>8. CASE CloseFd(c)
    BY <1>8, <1>0, <1>4 DEF CloseFd, Unlocked, Ranges, FreshInode
  <1>9. CASE LockSharedInProcess(c)
    <2>1. inode'[p].nLock = inode[p].nLock + 1 /\ UNCHANGED <<pc, kernel>>
      BY <1>9, <1>0 DEF LockSharedInProcess
    <2> QED BY <2>1, <1>4, <1>5
  <1>10. CASE LockShared(c)
    BY <1>10, <1>0, <1>4 DEF LockShared, SetRange, Ranges, CanCall
  <1>11. CASE SharedRange(c)
    BY <1>11, <1>0, <1>4 DEF SharedRange, SetRange, Ranges
  <1>12. CASE SharedDrop(c)
    <2>1. /\ kernel'[p]["pending"] = "none" /\ kernel'[p]["shared"] = kernel[p]["shared"]
          /\ pc'[c] = "idle"
      BY <1>12, <1>0 DEF SharedDrop, SetRange, Ranges
    <2>2. CASE pc[c] = "sharedDrop"
      <3>1. inode'[p].nLock = inode[p].nLock + 1
        BY <1>12, <2>2, <1>0 DEF SharedDrop
      <3> QED BY <2>1, <3>1, <1>5
    <2>3. CASE pc[c] = "sharedFail"
      BY <1>12, <2>1, <2>3, <1>4 DEF SharedDrop
    <2> QED BY <1>12, <2>2, <2>3 DEF SharedDrop
  <1>13. ASSUME eFileLock[c] # NO_LOCK, inode'[p].nLock = inode[p].nLock,
                kernel'[p]["pending"] \in {kernel[p]["pending"], "write", "none"},
                pc[c] \notin {"sharedRange", "sharedDrop", "sharedFail"}
         PROVE  Goal
    <2>1. inode[p].nLock # 0
      BY <1>13, Counted
    <2> QED BY <1>13, <2>1, <1>4
  <1>14. CASE LockReserved(c)
    BY <1>14, <1>0, <1>13 DEF LockReserved, SetBoth, SetRange, Ranges, CanCall
  <1>15. CASE LockPending(c)
    BY <1>15, <1>0, <1>13 DEF LockPending, SetBoth, SetRange, Ranges, CanCall
  <1>16. CASE ExclusiveRange(c)
    BY <1>16, <1>0, <1>13 DEF ExclusiveRange, TakeRange, SetBoth, SetRange, Ranges, CallInv
  <1>17. CASE LockExclusive(c)
    BY <1>17, <1>0, <1>13 DEF LockExclusive, TakeRange, SetBoth, SetRange, Ranges, CanCall
  <1>18. CASE Downgrade(c)
    BY <1>18, <1>0, <1>13 DEF Downgrade, SetRange, Ranges, CanCall
  <1>19. CASE DowngradeBytes(c)
    BY <1>19, <1>0, <1>13 DEF DowngradeBytes, SetBoth, DropBytes, Ranges, CallInv
  <1>20. CASE ReleaseBytes(c)
    BY <1>20, <1>0, <1>13 DEF ReleaseBytes, DropBytes, Ranges, CanCall
  <1>21. CASE Release(c)
    <2>1. eFileLock[c] # NO_LOCK /\ pc[c] \in {"idle", "unlockAll"} /\ pc'[c] = "idle"
      BY <1>21, <1>0 DEF Release, CanCall, CallInv
    <2>2. /\ inode'[p].nLock = inode[p].nLock - 1
          /\ inode[p].nLock = 1 => inode'[p].nUnused = 0 /\ kernel'[p] = Unlocked
          /\ kernel'[p] \in {kernel[p], Unlocked}
      BY <1>21, <1>0, <1>5 DEF Release
    <2>3. inode[p].nLock # 0
      BY <2>1, Counted
    <2> QED BY <2>1, <2>2, <2>3, <1>4, <1>5 DEF Unlocked, Ranges
  <1> QED BY <1>6, <1>7, <1>8, <1>9, <1>10, <1>11, <1>12, <1>14, <1>15, <1>16, <1>17, <1>18,
     <1>19, <1>20, <1>21
     DEF Step

LEMMA LeakInvNext ==
  ASSUME SerialClose, IInv, LeakInv, [Next]_vars
  PROVE  LeakInv'
  <1>1. ASSUME NEW p \in Procs, Crash(p) PROVE LeakInv'
    <2>1. /\ \A d \in Conns : ProcOf[d] # p => pc'[d] = pc[d]
          /\ \A q \in Procs \ {p} : inode'[q] = inode[q] /\ kernel'[q] = kernel[q]
          /\ inode'[p] = FreshInode /\ kernel'[p] = Unlocked
      BY <1>1 DEF Crash, IInv, TypeOK
    <2> QED BY <2>1 DEF LeakInv, FreshInode, Unlocked, Ranges
  <1>2. CASE UNCHANGED vars
    BY <1>2 DEF vars, LeakInv
  <1> QED BY <1>1, <1>2, LeakInvStep DEF Next

LEMMA IInvNothingLeaks == IInv /\ LeakInv => NothingLeaks
  <1> SUFFICES ASSUME IInv, LeakInv, NEW p \in Procs,
                      \A c \in Conns : ProcOf[c] = p => eFileLock[c] = NO_LOCK /\ pc[c] = "idle"
               PROVE  kernel[p] = Unlocked /\ inode[p] = FreshInode
    BY DEF NothingLeaks
  <1>0. /\ kernel[p] \in [Ranges -> Modes]
        /\ inode[p] \in [eFileLock : Levels, nShared : Nat, nLock : Nat, nUnused : Nat]
    BY DEF IInv, TypeOK
  <1>1. Holders(p) = {}
    BY DEF Holders
  <1>2. inode[p].nShared = 0 /\ inode[p].nLock = 0 /\ inode[p].eFileLock = NO_LOCK
    BY <1>1, FS_EmptySet DEF IInv, CountInv
  <1>3. inode[p] = FreshInode
    BY <1>0, <1>2 DEF LeakInv, FreshInode
  <1>4. kernel[p]["reserved"] = "none"
    BY <1>0 DEF IInv, OwnerInv, Ranges, Modes
  <1>5. kernel[p]["shared"] = "none" /\ kernel[p]["pending"] = "none"
    BY <1>0, <1>2, <1>4 DEF LeakInv, IInv, KernelInv, Ranges, Modes
  <1>6. kernel[p] = Unlocked
    BY <1>0, <1>4, <1>5 DEF Unlocked, Ranges
  <1> QED BY <1>3, <1>6

(* The counts, the parked descriptors and the three byte ranges all come   *)
(* back to nothing: no order of lock, unlock, close and death of processes *)
(* leaves a lock that no connection could ever release.                    *)
THEOREM LeakFree == ASSUME SerialClose PROVE Spec => []NothingLeaks
  <1>1. Init => LeakInv
    BY DEF Init, LeakInv, FreshInode, Unlocked, Ranges
  <1>2. IInv /\ LeakInv /\ [Next]_vars => LeakInv'
    BY LeakInvNext
  <1> QED BY <1>1, <1>2, Invariance, IInvNothingLeaks, PTL DEF Spec

-----------------------------------------------------------------------------
(* The refinement of DbLock, action by action. *)
LEMMA LevelFrame ==
  ASSUME SerialClose, IInv, NEW c \in Conns, Step(c)
  PROVE  \A d \in Conns \ {c} : LevelOf(d)' = LevelOf(d)
  <1> SUFFICES ASSUME NEW d \in Conns \ {c} PROVE LevelOf(d)' = LevelOf(d)
    OBVIOUS
  <1>0. TypeOK
    BY DEF IInv
  <1>1. eFileLock'[d] = eFileLock[d] /\ pc'[d] = pc[d]
    BY <1>0, Frame
  <1>2. pc[d] = "idle" \/ kernel'[ProcOf[d]] = kernel[ProcOf[d]]
    BY <1>0, Alone, Frame, Types DEF Peers
  <1> QED BY <1>1, <1>2 DEF LevelOf

LEMMA LevelRange == IInv => \A d \in Conns : LevelOf(d) \in 0 .. 4
  BY LevelMeans

LEMMA LevelRangeNext == IInv' => \A d \in Conns : LevelOf(d)' \in 0 .. 4
  <1>1. (IInv => \A d \in Conns : LevelOf(d) \in 0 .. 4)'
    BY LevelRange, PTL
  <1> QED BY <1>1

LEMMA CompatibleNext == IInv' => LocksCompatible'
  BY IInvCompatible, PTL

LEMMA StepImplements ==
  ASSUME SerialClose, IInv, NEW c \in Conns, Step(c)
  PROVE  [DB!Next]_([d \in Conns |-> LevelOf(d)])
  <1> DEFINE p == ProcOf[c]
             lvl == [d \in Conns |-> LevelOf(d)]
  <1>0. TypeOK /\ CallInv /\ InodeInv /\ KernelInv /\ BackInv /\ p \in Procs
    BY ConnsAssumption DEF IInv
  <1>1. IInv'
    BY NextIInv DEF Next
  <1>2. lvl' = [lvl EXCEPT ![c] = LevelOf(c)']
    BY LevelFrame
  <1>3. \A d \in Conns : LevelOf(d) \in 0 .. 4 /\ LevelOf(d)' \in 0 .. 4
    BY <1>1, LevelRange, LevelRangeNext
  <1>4. ASSUME LevelOf(c)' <= LevelOf(c) PROVE DB!Next
    BY <1>3, <1>4, LevelFrame
       DEF DB!Next, DB!Lower, DB!Levels, DB!NO_LOCK, DB!EXCLUSIVE_LOCK
  <1>5. \A d \in Conns \ {c} : DB!Compatible(LevelOf(c)', LevelOf(d))
                                  /\ DB!Compatible(LevelOf(d), LevelOf(c)')
    BY <1>1, CompatibleNext, LevelFrame DEF LocksCompatible, DB!LocksCompatible
  <1>6. ASSUME NEW l \in {NO_LOCK, RESERVED_LOCK, SHARED_LOCK, PENDING_LOCK}, NEW m \in 0 .. 4,
               LevelOf(c) = l, LevelOf(c)' = m,
               <<l, m>> \in {<<NO_LOCK, SHARED_LOCK>>, <<SHARED_LOCK, RESERVED_LOCK>>,
                             <<RESERVED_LOCK, PENDING_LOCK>>, <<SHARED_LOCK, EXCLUSIVE_LOCK>>,
                             <<PENDING_LOCK, EXCLUSIVE_LOCK>>}
        PROVE  DB!Next
    <2>1. CASE l = NO_LOCK /\ m = SHARED_LOCK
      <3>1. DB!AcquireShared(c)
        BY <1>2, <1>3, <1>5, <1>6, <2>1
           DEF DB!AcquireShared, DB!AcquireReserved, DB!AcquirePending,
               DB!AcquireExclusive, DB!Others, DB!Compatible, DB!NO_LOCK,
               DB!SHARED_LOCK, DB!RESERVED_LOCK, DB!PENDING_LOCK, DB!EXCLUSIVE_LOCK
      <3> QED BY <3>1 DEF DB!Next
    <2>2. CASE l = SHARED_LOCK /\ m = RESERVED_LOCK
      <3>1. DB!AcquireReserved(c)
        BY <1>2, <1>3, <1>5, <1>6, <2>2
           DEF DB!AcquireShared, DB!AcquireReserved, DB!AcquirePending,
               DB!AcquireExclusive, DB!Others, DB!Compatible, DB!NO_LOCK,
               DB!SHARED_LOCK, DB!RESERVED_LOCK, DB!PENDING_LOCK, DB!EXCLUSIVE_LOCK
      <3> QED BY <3>1 DEF DB!Next
    <2>3. CASE l = RESERVED_LOCK /\ m = PENDING_LOCK
      <3>1. DB!AcquirePending(c)
        BY <1>2, <1>3, <1>6, <2>3
           DEF DB!AcquireShared, DB!AcquireReserved, DB!AcquirePending,
               DB!AcquireExclusive, DB!Others, DB!Compatible, DB!NO_LOCK,
               DB!SHARED_LOCK, DB!RESERVED_LOCK, DB!PENDING_LOCK, DB!EXCLUSIVE_LOCK
      <3> QED BY <3>1 DEF DB!Next
    <2>4. CASE l \in {SHARED_LOCK, PENDING_LOCK} /\ m = EXCLUSIVE_LOCK
      <3>1. DB!AcquireExclusive(c)
        BY <1>2, <1>3, <1>5, <1>6, <2>4
           DEF DB!AcquireShared, DB!AcquireReserved, DB!AcquirePending,
               DB!AcquireExclusive, DB!Others, DB!Compatible, DB!NO_LOCK,
               DB!SHARED_LOCK, DB!RESERVED_LOCK, DB!PENDING_LOCK, DB!EXCLUSIVE_LOCK
      <3> QED BY <3>1 DEF DB!Next
    <2> QED BY <1>6, <2>1, <2>2, <2>3, <2>4
  <1>7. CASE Open(c)
    <2>1. LevelOf(c)' = LevelOf(c)
      BY <1>7, <1>0
         DEF Open, CanCall, SetBoth, SetRange, DropBytes, TakeRange, LevelOf, CallInv,
             TypeOK
    <2> QED BY <2>1, <1>4, <1>3
  <1>8. CASE Close(c)
    <2>1. LevelOf(c)' = LevelOf(c)
      BY <1>8, <1>0
         DEF Close, CanCall, SetBoth, SetRange, DropBytes, TakeRange, LevelOf, CallInv,
             TypeOK
    <2> QED BY <2>1, <1>4, <1>3
  <1>9. CASE CloseFd(c)
    <2>1. LevelOf(c)' = LevelOf(c)
      BY <1>9, <1>0
         DEF CloseFd, CanCall, SetBoth, SetRange, DropBytes, TakeRange, LevelOf,
             CallInv, TypeOK
    <2> QED BY <2>1, <1>4, <1>3
  <1>10. CASE LockSharedInProcess(c)
    <2>1. LevelOf(c) = NO_LOCK /\ LevelOf(c)' = SHARED_LOCK
      BY <1>10, <1>0, Types
         DEF LockSharedInProcess, CanCall, SetBoth, SetRange, DropBytes, TakeRange,
             LevelOf, CallInv, TypeOK
    <2> QED BY <2>1, <1>4, <1>6
  <1>11. CASE LockShared(c)
    <2>1. LevelOf(c)' = LevelOf(c)
      BY <1>11, <1>0
         DEF LockShared, CanCall, SetBoth, SetRange, DropBytes, TakeRange, LevelOf,
             CallInv, TypeOK
    <2> QED BY <2>1, <1>4, <1>3
  <1>12. CASE SharedRange(c)
    <2>1. LevelOf(c)' = LevelOf(c)
      BY <1>12, <1>0
         DEF SharedRange, CanCall, SetBoth, SetRange, DropBytes, TakeRange, LevelOf,
             CallInv, TypeOK
    <2> QED BY <2>1, <1>4, <1>3
  <1>13. CASE SharedDrop(c)
    <2>1. LevelOf(c)' <= LevelOf(c) \/ (LevelOf(c) = NO_LOCK /\ LevelOf(c)' = SHARED_LOCK)
      BY <1>13, <1>0, Types
         DEF SharedDrop, CanCall, SetBoth, SetRange, DropBytes, TakeRange, LevelOf,
             CallInv, TypeOK
    <2> QED BY <2>1, <1>4, <1>6
  <1>14. CASE LockReserved(c)
    <2>1. LevelOf(c) = SHARED_LOCK /\ LevelOf(c)' = RESERVED_LOCK
      BY <1>14, <1>0, Types
         DEF LockReserved, CanCall, SetBoth, SetRange, DropBytes, TakeRange, LevelOf,
             CallInv, TypeOK
    <2> QED BY <2>1, <1>4, <1>6
  <1>15. CASE LockPending(c)
    <2>1. LevelOf(c) = RESERVED_LOCK /\ LevelOf(c)' = PENDING_LOCK
      BY <1>15, <1>0, Types
         DEF LockPending, CanCall, SetBoth, SetRange, DropBytes, TakeRange, LevelOf,
             CallInv, TypeOK
    <2> QED BY <2>1, <1>4, <1>6
  <1>16. CASE ExclusiveRange(c)
    <2>1. LevelOf(c)' <= LevelOf(c) \/ (LevelOf(c) = PENDING_LOCK /\ LevelOf(c)' = EXCLUSIVE_LOCK)
      BY <1>16, <1>0, Types
         DEF ExclusiveRange, CanCall, SetBoth, SetRange, DropBytes, TakeRange, LevelOf,
             CallInv, TypeOK
    <2> QED BY <2>1, <1>4, <1>6
  <1>17. CASE LockExclusive(c)
    <2>1. LevelOf(c) \in {SHARED_LOCK, PENDING_LOCK} /\ LevelOf(c)' = EXCLUSIVE_LOCK
      BY <1>17, <1>0, Types
         DEF LockExclusive, CanCall, SetBoth, SetRange, DropBytes, TakeRange, LevelOf,
             CallInv, TypeOK
    <2> QED BY <2>1, <1>4, <1>6
  <1>18. CASE Downgrade(c)
    <2>1. LevelOf(c) = eFileLock[c] /\ eFileLock[c] > SHARED_LOCK
      BY <1>18 DEF Downgrade, CanCall, LevelOf
    <2>2. \A r \in {"pending", "reserved"} : kernel'[p][r] = kernel[p][r]
      BY <1>18, <1>0 DEF Downgrade, SetRange, TypeOK, Ranges
    <2>3. LevelOf(c)' \in {SHARED_LOCK, RESERVED_LOCK, PENDING_LOCK}
          /\ (LevelOf(c)' = PENDING_LOCK => kernel[p]["pending"] = "write")
      BY <1>18, <1>0, <2>2 DEF Downgrade, LevelOf, TypeOK
    <2> QED BY <2>1, <2>3, <1>0, <1>4, Types DEF BackInv
  <1>19. CASE DowngradeBytes(c)
    <2>1. LevelOf(c)' = SHARED_LOCK /\ eFileLock[c] # NO_LOCK
      BY <1>19, <1>0, Types
         DEF DowngradeBytes, CanCall, SetBoth, SetRange, DropBytes, TakeRange, LevelOf,
             CallInv, TypeOK, Ranges
    <2>2. LevelOf(c) # NO_LOCK
      BY <2>1, LevelMeans
    <2> QED BY <2>1, <2>2, <1>4, <1>3
  <1>20. CASE ReleaseBytes(c)
    <2>1. LevelOf(c)' = SHARED_LOCK /\ eFileLock[c] # NO_LOCK
      BY <1>20, <1>0, Types
         DEF ReleaseBytes, CanCall, SetBoth, SetRange, DropBytes, TakeRange, LevelOf,
             CallInv, TypeOK, Ranges
    <2>2. LevelOf(c) # NO_LOCK
      BY <2>1, LevelMeans
    <2> QED BY <2>1, <2>2, <1>4, <1>3
  <1>21. CASE Release(c)
    <2>1. LevelOf(c)' = NO_LOCK /\ eFileLock[c] # NO_LOCK
      BY <1>21, <1>0, Types
         DEF Release, CanCall, SetBoth, SetRange, DropBytes, TakeRange, LevelOf,
             CallInv, TypeOK, Ranges
    <2>2. LevelOf(c) # NO_LOCK
      BY <2>1, LevelMeans
    <2> QED BY <2>1, <2>2, <1>4, <1>3
  <1> QED BY <1>7, <1>8, <1>9, <1>10, <1>11, <1>12, <1>13, <1>14, <1>15, <1>16, <1>17,
     <1>18, <1>19, <1>20, <1>21
     DEF Step

LEMMA CrashImplements ==
  ASSUME IInv, NEW p \in Procs, Crash(p)
  PROVE  DB!Next
  <1>1. \A d \in Conns : LevelOf(d)' = IF ProcOf[d] = p THEN NO_LOCK ELSE LevelOf(d)
    <2>1. \A d \in Conns : IF ProcOf[d] = p THEN eFileLock'[d] = NO_LOCK /\ pc'[d] = "idle"
              ELSE /\ eFileLock'[d] = eFileLock[d] /\ pc'[d] = pc[d]
                   /\ kernel'[ProcOf[d]] = kernel[ProcOf[d]]
      BY Types, ConnsAssumption DEF IInv, TypeOK, Crash
    <2> QED BY <2>1 DEF LevelOf
  <1>2. \A d \in Conns : LevelOf(d) \in 0 .. 4
    BY LevelMeans
  <1> QED BY <1>1, <1>2 DEF DB!Next, DB!Lower, DB!Levels, DB!NO_LOCK, DB!EXCLUSIVE_LOCK

(* unixLock, posixUnlock and unixClose implement the lock levels of os.h:  *)
(* every fcntl() or close() is one legal change of levels or no change.    *)
THEOREM Implementation == ASSUME SerialClose PROVE Spec => ImplementsDbLock
  <1>1. Init => DB!Init
    BY DEF Init, DB!Init, LevelOf, NO_LOCK, DB!NO_LOCK
  <1>2. IInv /\ [Next]_vars => [DB!Next]_([c \in Conns |-> LevelOf(c)])
    <2>1. CASE UNCHANGED vars
      BY <2>1 DEF vars, LevelOf
    <2> QED BY <2>1, StepImplements, CrashImplements DEF Next
  <1> QED BY <1>1, <1>2, Invariance, PTL DEF Spec, ImplementsDbLock, DB!Spec

-----------------------------------------------------------------------------
(* Who is taking SHARED with system calls has the pending byte. *)
DoorInv ==
    \A c \in Conns : pc[c] \in {"sharedRange", "sharedDrop", "sharedFail"} =>
        kernel[ProcOf[c]]["pending"] = "read"

LEMMA DoorInvStep ==
  ASSUME SerialClose, IInv, DoorInv, NEW c \in Conns, Step(c)
  PROVE  DoorInv'
  <1> DEFINE p == ProcOf[c]
             Entering == {"sharedRange", "sharedDrop", "sharedFail"}
  <1>0. TypeOK /\ p \in Procs /\ kernel \in [Procs -> [Ranges -> Modes]] /\ pc \in [Conns -> PCs]
    BY ConnsAssumption DEF IInv, TypeOK
  <1>1. /\ \A d \in Conns \ {c} : pc'[d] = pc[d]
        /\ \A q \in Procs \ {p} : kernel'[q] = kernel[q]
    BY <1>0, Frame
  <1>2. \A d \in Peers(c) \ {c} : pc'[d] = "idle"
    BY <1>0, <1>1, Alone DEF Peers
  <1>3. pc'[c] \in Entering => kernel'[p]["pending"] = "read"
    <2>1. CASE LockShared(c)
      BY <2>1, <1>0 DEF LockShared, SetRange, Ranges
    <2>2. CASE SharedRange(c)
      BY <2>2, <1>0 DEF SharedRange, SetRange, Ranges, DoorInv
    <2>3. CASE ~LockShared(c) /\ ~SharedRange(c)
      <3>1. pc'[c] \notin Entering
        <4>1. CASE Open(c) \/ Close(c) \/ CloseFd(c) \/ LockSharedInProcess(c) \/ SharedDrop(c)
          BY <4>1, <1>0
             DEF CanCall, Open, Close, CloseFd, LockSharedInProcess, SharedDrop, IInv, CallInv
        <4>2. CASE LockReserved(c) \/ LockPending(c) \/ ExclusiveRange(c) \/ LockExclusive(c)
          BY <4>2, <1>0 DEF CanCall, LockReserved, LockPending, ExclusiveRange, LockExclusive
        <4>3. CASE Downgrade(c) \/ DowngradeBytes(c) \/ ReleaseBytes(c) \/ Release(c)
          BY <4>3, <1>0 DEF Downgrade, DowngradeBytes, ReleaseBytes, Release
        <4> QED BY <2>3, <4>1, <4>2, <4>3 DEF Step
      <3> QED BY <3>1
    <2> QED BY <2>1, <2>2, <2>3
  <1>4. ASSUME NEW d \in Conns, pc'[d] \in Entering PROVE kernel'[ProcOf[d]]["pending"] = "read"
    <2>1. CASE ProcOf[d] = p
      BY <2>1, <1>2, <1>3, <1>4 DEF Peers
    <2>2. CASE ProcOf[d] # p
      BY <2>2, <1>1, <1>4, ConnsAssumption DEF DoorInv
    <2> QED BY <2>1, <2>2
  <1> QED BY <1>4 DEF DoorInv

LEMMA DoorInvNext ==
  ASSUME SerialClose, IInv, DoorInv, [Next]_vars
  PROVE  DoorInv'
  <1>1. ASSUME NEW p \in Procs, Crash(p) PROVE DoorInv'
    <2>1. /\ \A d \in Conns : pc'[d] = IF ProcOf[d] = p THEN "idle" ELSE pc[d]
          /\ \A q \in Procs \ {p} : kernel'[q] = kernel[q]
      BY <1>1 DEF Crash, IInv, TypeOK
    <2> QED BY <2>1, ConnsAssumption DEF DoorInv
  <1>2. CASE UNCHANGED vars
    BY <1>2 DEF vars, DoorInv
  <1> QED BY <1>1, <1>2, DoorInvStep DEF Next

LEMMA HeldNext == IInv' => \A d \in Conns : LevelOf(d)' = NO_LOCK <=> eFileLock'[d] = NO_LOCK
  <1>1. IInv => \A d \in Conns : LevelOf(d) = NO_LOCK <=> eFileLock[d] = NO_LOCK
    BY LevelMeans
  <1>2. (IInv => \A d \in Conns : LevelOf(d) = NO_LOCK <=> eFileLock[d] = NO_LOCK)'
    BY <1>1, PTL
  <1> QED BY <1>2

(* A step that gives a connection its first lock is the end of one of the  *)
(* two ways to SHARED, and not in the process of a waiting writer.         *)
LEMMA AdmissionStep ==
  ASSUME SerialClose, IInv, DoorInv, NEW c \in Conns, Step(c), Admitted(c),
         NEW w \in Conns \ {c}, LevelOf(w) >= PENDING_LOCK
  PROVE  ProcOf[c] # ProcOf[w] /\ \E d \in Peers(c) : LevelOf(d) >= SHARED_LOCK
  <1> DEFINE p == ProcOf[c]
  <1>0. TypeOK /\ CountInv /\ CallInv /\ InodeInv /\ KernelInv /\ p \in Procs
    BY ConnsAssumption DEF IInv
  <1>1. eFileLock[c] = NO_LOCK
    BY LevelMeans DEF Admitted
  <1>2. eFileLock'[c] # NO_LOCK
    <2>1. IInv'
      BY NextIInv DEF Next
    <2> QED BY <2>1, HeldNext DEF Admitted
  <1>3. /\ eFileLock[w] > SHARED_LOCK
        /\ LevelOf(w) = PENDING_LOCK => kernel[ProcOf[w]]["pending"] = "write"
        /\ LevelOf(w) = EXCLUSIVE_LOCK => kernel[ProcOf[w]]["shared"] = "write"
        /\ LevelOf(w) \in {PENDING_LOCK, EXCLUSIVE_LOCK}
    BY LevelMeans
  <1>4. eFileLock[w] # NO_LOCK /\ inode[ProcOf[w]].eFileLock # NO_LOCK
    BY <1>0, <1>3, Types DEF InodeInv
  <1>5. CASE LockSharedInProcess(c)
    <2>1. inode[p].eFileLock \in {SHARED_LOCK, RESERVED_LOCK}
      BY <1>5 DEF LockSharedInProcess
    <2>2. ProcOf[w] # p
      <3>1. SUFFICES ASSUME ProcOf[w] = p PROVE FALSE
        OBVIOUS
      <3>2. pc[w] = "idle"
        BY <3>1, Alone DEF Peers
      <3>3. LevelOf(w) = eFileLock[w]
        BY <3>2 DEF LevelOf
      <3>4. eFileLock[w] = inode[p].eFileLock
        BY <3>1, <3>2, <1>0, <1>3 DEF InodeInv, AgreesWithInode
      <3> QED BY <2>1, <3>3, <3>4, <1>3
    <2>3. Cardinality(Holders(p)) # 0
      BY <2>1, <1>0, Types DEF CountInv
    <2>4. PICK d \in Holders(p) : TRUE
      BY <2>3, FS_EmptySet
    <2>5. d \in Peers(c) /\ LevelOf(d) >= SHARED_LOCK
      BY <2>4, LevelMeans DEF Holders, Peers
    <2> QED BY <2>2, <2>5
  <1>6. CASE SharedDrop(c)
    <2>1. pc[c] = "sharedDrop"
      BY <1>1, <1>2, <1>6 DEF SharedDrop
    <2>2. kernel[p]["pending"] = "read" /\ kernel[p]["shared"] # "none"
          /\ inode[p].eFileLock = NO_LOCK
      BY <2>1, <1>0 DEF DoorInv, CallInv
    <2>3. ProcOf[w] # p
      BY <2>2, <1>4
    <2>4. /\ kernel[ProcOf[w]]["pending"] # "write" /\ kernel[ProcOf[w]]["shared"] # "write"
      BY <2>2, <2>3, <1>0, ConnsAssumption DEF KernelInv, Ranges
    <2> QED BY <2>4, <1>3
  <1>7. CASE ~LockSharedInProcess(c) /\ ~SharedDrop(c)
    BY <1>7, <1>0, <1>1, <1>2, Types
       DEF Step, Open, Close, CloseFd, LockShared, SharedRange, LockReserved, LockPending,
           ExclusiveRange, LockExclusive, Downgrade, DowngradeBytes, ReleaseBytes, Release,
           SetBoth, TakeRange, CallInv, CanCall
  <1> QED BY <1>5, <1>6, <1>7

(* The pending byte does what os.h:88 says of it, as far as it does: while *)
(* a writer waits, only a process that has readers admits another one.     *)
THEOREM PendingBars == ASSUME SerialClose PROVE Spec => PendingBarsNewProcesses
  <1> DEFINE Bars == \A w \in Conns : WaitingWriter(w) =>
                        \A c \in Conns \ {w} : Admitted(c) =>
                           /\ ProcOf[c] # ProcOf[w]
                           /\ \E d \in Peers(c) : LevelOf(d) >= SHARED_LOCK
  <1>1. Init => DoorInv
    BY DEF Init, DoorInv
  <1>2. IInv /\ DoorInv /\ [Next]_vars => DoorInv'
    BY DoorInvNext
  <1>3. ASSUME IInv, DoorInv, [Next]_vars PROVE Bars
    <2> SUFFICES ASSUME NEW w \in Conns, LevelOf(w) >= PENDING_LOCK,
                        NEW c \in Conns \ {w}, Admitted(c)
                 PROVE  /\ ProcOf[c] # ProcOf[w]
                        /\ \E d \in Peers(c) : LevelOf(d) >= SHARED_LOCK
      BY DEF WaitingWriter
    <2>1. ASSUME NEW e \in Conns, Step(e) PROVE e = c
      BY <1>3, <2>1, LevelFrame DEF Admitted
    <2>2. ASSUME NEW p \in Procs, Crash(p) PROVE FALSE
      <3>1. CASE ProcOf[c] = p
        <4>1. eFileLock'[c] = NO_LOCK /\ pc'[c] = "idle"
          BY <2>2, <3>1 DEF Crash
        <4> QED BY <4>1 DEF Admitted, LevelOf
      <3>2. CASE ProcOf[c] # p
        <4>1. eFileLock'[c] = eFileLock[c] /\ pc'[c] = pc[c]
              /\ kernel'[ProcOf[c]] = kernel[ProcOf[c]]
          BY <2>2, <3>2, <1>3, ConnsAssumption DEF Crash, IInv, TypeOK
        <4> QED BY <4>1 DEF Admitted, LevelOf
      <3> QED BY <3>1, <3>2
    <2>3. CASE UNCHANGED vars
      BY <2>3 DEF vars, Admitted, LevelOf
    <2>4. CASE \E e \in Conns : Step(e)
      <3>1. Step(c)
        BY <2>1, <2>4
      <3> QED BY <3>1, <1>3, AdmissionStep
    <2> QED BY <1>3, <2>2, <2>3, <2>4 DEF Next
  <1>4. [][Bars]_vars => PendingBarsNewProcesses
    BY PTL DEF PendingBarsNewProcesses
  <1>5. IInv /\ DoorInv /\ [Next]_vars => [Bars]_vars
    BY <1>3
  <1> QED BY <1>1, <1>2, <1>4, <1>5, Invariance, PTL DEF Spec
=============================================================================
