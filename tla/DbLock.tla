------------------------------- MODULE DbLock -------------------------------
(***************************************************************************)
(* What the locking primitives of a VFS promise the pager: one lock level  *)
(* per connection to a database file and the rules under which levels of   *)
(* different connections may coexist (os.h: NO < SHARED < RESERVED <       *)
(* PENDING < EXCLUSIVE).  It says nothing of processes, byte ranges or     *)
(* file descriptors; UnixLock shows that os_unix.c implements it.          *)
(***************************************************************************)
EXTENDS Naturals

CONSTANT Conns          \* connections to one database file

VARIABLE level          \* level[c]: the lock connection c holds

NO_LOCK        == 0
SHARED_LOCK    == 1
RESERVED_LOCK  == 2
PENDING_LOCK   == 3
EXCLUSIVE_LOCK == 4

Levels == NO_LOCK .. EXCLUSIVE_LOCK

LevelTypeOK == level \in [Conns -> Levels]

Init == level = [c \in Conns |-> NO_LOCK]

Others(c) == Conns \ {c}

(* A new reader is admitted unless some connection is writing.  (That a    *)
(* PENDING lock also keeps readers out is not promised across a process    *)
(* that reads already: UnixLock, PendingBarsNewProcesses.)                 *)
AcquireShared(c) ==
    /\ level[c] = NO_LOCK
    /\ \A d \in Others(c) : level[d] < EXCLUSIVE_LOCK
    /\ level' = [level EXCEPT ![c] = SHARED_LOCK]

(* One connection at a time intends to write. *)
AcquireReserved(c) ==
    /\ level[c] = SHARED_LOCK
    /\ \A d \in Others(c) : level[d] < RESERVED_LOCK
    /\ level' = [level EXCEPT ![c] = RESERVED_LOCK]

(* The writer asks for the file to itself ... *)
AcquirePending(c) ==
    /\ level[c] = RESERVED_LOCK
    /\ level' = [level EXCEPT ![c] = PENDING_LOCK]

(* ... and owns it when the last reader has left.  A connection that rolls *)
(* a hot journal back goes from SHARED to EXCLUSIVE directly.              *)
AcquireExclusive(c) ==
    /\ level[c] \in {SHARED_LOCK, PENDING_LOCK}
    /\ \A d \in Others(c) : level[d] = NO_LOCK
    /\ level' = [level EXCEPT ![c] = EXCLUSIVE_LOCK]

(* Levels are given back one connection at a time, or those of a whole     *)
(* process at once when it dies.                                           *)
Lower ==
    /\ level' \in [Conns -> Levels]
    /\ \A c \in Conns : level'[c] <= level[c]

Next ==
    \/ \E c \in Conns :
          \/ AcquireShared(c)
          \/ AcquireReserved(c)
          \/ AcquirePending(c)
          \/ AcquireExclusive(c)
    \/ Lower

Spec == Init /\ [][Next]_level

-----------------------------------------------------------------------------
(* Two connections never intend to write at once, and a connection that    *)
(* may write to the file is alone on it.                                   *)
Compatible(i, j) ==
    /\ ~(i >= RESERVED_LOCK /\ j >= RESERVED_LOCK)
    /\ i = EXCLUSIVE_LOCK => j = NO_LOCK

LocksCompatible ==
    \A c, d \in Conns : c # d => Compatible(level[c], level[d])
=============================================================================
