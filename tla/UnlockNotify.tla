---------------------------- MODULE UnlockNotify ----------------------------
(***************************************************************************)
(* Unlock notification (notify.c): who blocks whom among the connections   *)
(* of a process that share a page cache, and the call-backs they get when  *)
(* the transaction in their way is over.  All of it is guarded by the      *)
(* static main mutex, so every function is one step.  The operators here   *)
(* are used as parts of the actions of SharedCache.                        *)
(*                                                                         *)
(* The call-back functions and their arguments, and how the calls for      *)
(* several waiting connections are bundled, are left out.                  *)
(***************************************************************************)
EXTENDS Naturals, FiniteSets

CONSTANTS
    Conns,      \* database connections of one process
    None        \* no connection

ASSUME UnlockNotifyAssumption == IsFiniteSet(Conns) /\ None \notin Conns

VARIABLES
    pBlockingConnection,    \* who was in the way when a lock was last refused
    pUnlockConnection,      \* at whose end of transaction the call-back is due
    blockedList             \* sqlite3BlockedList

notifyVars == <<pBlockingConnection, pUnlockConnection, blockedList>>

NotifyInit ==
    /\ pBlockingConnection = [c \in Conns |-> None]
    /\ pUnlockConnection = [c \in Conns |-> None]
    /\ blockedList = {}

Waiting(c) == pUnlockConnection[c] # None

ConnectionBlocked_Unlisted(c, blocker) ==                                        \* mutant
    /\ pBlockingConnection' = [pBlockingConnection EXCEPT ![c] = blocker]
    /\ UNCHANGED <<pUnlockConnection, blockedList>>

(* A lock was refused to c because of what blocker holds. *)
ConnectionBlocked(c, blocker) ==
    /\ blockedList' = IF pBlockingConnection[c] = None /\ pUnlockConnection[c] = None
                      THEN blockedList \cup {c}
                      ELSE blockedList
    /\ pBlockingConnection' = [pBlockingConnection EXCEPT ![c] = blocker]
    /\ UNCHANGED pUnlockConnection

Cleared_One(pointer, db) ==                                                      \* mutant
    LET told == CHOOSE c \in Conns : pointer[c] = db \/ \A d \in Conns : pointer[d] # db
    IN  [pointer EXCEPT ![told] = IF @ = db THEN None ELSE @]

(* A pointer to db is cleared if its owner is on the list. *)
Cleared(pointer, db) ==
    [c \in Conns |-> IF c \in blockedList /\ pointer[c] = db THEN None ELSE pointer[c]]

(* The transactions of db are over: the call-backs that wait for it are    *)
(* made, and whoever waits for nothing more leaves the list.               *)
ConnectionUnlocked(db) ==
    /\ pBlockingConnection' = Cleared(pBlockingConnection, db)
    /\ pUnlockConnection' = Cleared(pUnlockConnection, db)
    /\ blockedList' = {c \in blockedList : pBlockingConnection'[c] # None
                                            \/ pUnlockConnection'[c] # None}

(* Connection db is closed: what it waited for is forgotten with it. *)
ConnectionClosed(db) ==
    /\ pBlockingConnection' = [Cleared(pBlockingConnection, db) EXCEPT ![db] = None]
    /\ pUnlockConnection' = [Cleared(pUnlockConnection, db) EXCEPT ![db] = None]
    /\ blockedList' = {c \in blockedList \ {db} : pBlockingConnection'[c] # None
                                                   \/ pUnlockConnection'[c] # None}

Deadlocked_Directly(db) == pUnlockConnection[pBlockingConnection[db]] = db       \* mutant

(* The walk along pUnlockConnection, from who blocks db on, comes back to  *)
(* db.  It visits no connection twice if no one waits for himself.         *)
Deadlocked(db) ==
    LET at[n \in 0 .. Cardinality(Conns)] ==
            IF n = 0 THEN pBlockingConnection[db]
            ELSE IF at[n - 1] \in {db, None} THEN at[n - 1]
            ELSE pUnlockConnection[at[n - 1]]
    IN  at[Cardinality(Conns)] = db

(* sqlite3_unlock_notify(db, xNotify): with no one in the way the call-    *)
(* back is made at once, a deadlock is refused, otherwise db waits.        *)
unlock_notify(db) ==
    /\ pBlockingConnection[db] # None
    /\ ~Deadlocked(db)
    /\ pUnlockConnection' = [pUnlockConnection EXCEPT ![db] = pBlockingConnection[db]]
    /\ blockedList' = blockedList \cup {db}
    /\ UNCHANGED pBlockingConnection

(* sqlite3_unlock_notify(db, 0) *)
CancelNotify(db) ==
    /\ pBlockingConnection' = [pBlockingConnection EXCEPT ![db] = None]
    /\ pUnlockConnection' = [pUnlockConnection EXCEPT ![db] = None]
    /\ blockedList' = blockedList \ {db}

-----------------------------------------------------------------------------
NotifyTypeOK ==
    /\ pBlockingConnection \in [Conns -> Conns \cup {None}]
    /\ pUnlockConnection \in [Conns -> Conns \cup {None}]
    /\ blockedList \subseteq Conns
=============================================================================
