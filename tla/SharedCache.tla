----------------------------- MODULE SharedCache ----------------------------
(***************************************************************************)
(* Connections of one process that share page caches (btree.c): the table  *)
(* locks that isolate their transactions from each other, the transaction  *)
(* state of the shared B-tree, and what the end of a statement does with   *)
(* both (sqlite3VdbeHalt).  A refused lock is reported to UnlockNotify.    *)
(*                                                                         *)
(* A statement starts under the mutexes of its B-trees, so its start is    *)
(* one step up to the last lock it needs; so is a roll-back, which takes   *)
(* all mutexes.  A commit ends one B-tree after the other.  The file, and  *)
(* other processes that lock it, are in Pager and UnixLock.  A statement   *)
(* uses one table of one cache.                                            *)
(***************************************************************************)
EXTENDS UnlockNotify

CONSTANTS
    AllCaches,  \* shared B-trees (struct BtShared)
    Tables,     \* root pages other than the schema's
    Settings    \* what connections do, for one instance each

Schema == "schema"              \* SCHEMA_ROOT
AllTables == Tables \cup {Schema}

ASSUME SharedCacheAssumption ==
    /\ Schema \notin Tables
    /\ Settings \subseteq [caches : SUBSET AllCaches,
                           readUncommitted : SUBSET Conns,
                           open : SUBSET Conns,     \* connections in use
                           statements :             \* bound: who reads or writes what
                               SUBSET (Conns \X AllCaches \X AllTables \X {"read", "write"}),
                           maxActive : Nat,         \* bound: statements of a connection
                           begins : SUBSET (0 .. 2), \* BEGIN, with IMMEDIATE, EXCLUSIVE
                           once : BOOLEAN,          \* bound: one BEGIN, nothing outside
                           closing : BOOLEAN,       \* connections are closed
                           backup : BOOLEAN,        \* a backup overwrites a cache
                           patient : BOOLEAN]       \* who is refused waits to be told

VARIABLES
    cache,      \* struct BtShared with its Btrees
    autoCommit, \* sqlite3.autoCommit
    begun,      \* bound: connections that had their BEGIN
    active,     \* statements in progress: [r |-> readers, w |-> writers]
    stage,      \* where in a call a connection is
    todo,       \* caches a commit has not yet ended
    changed,    \* history: who changed a table in his open transaction
    seen,       \* history: tables a transaction has read
    setting     \* what was chosen of Settings

connVars == <<autoCommit, begun, active, stage, todo>>
vars == <<cache, connVars, changed, seen, notifyVars, setting>>

Caches == setting.caches

-----------------------------------------------------------------------------
(* One shared B-tree b and its table locks.                                *)

InitCache ==
    [pWriter |-> None, exclusive |-> FALSE, pending |-> FALSE,
     inTransaction |-> "none", nTransaction |-> 0,
     inTrans |-> [c \in Conns |-> "none"],
     lock |-> [c \in Conns |-> [t \in AllTables |-> "none"]]]

Holders(b, c) == {d \in Conns \ {c} : \E t \in AllTables : b.lock[d][t] # "none"}

Conflicting_Writers(b, c, t, eLock) ==                                           \* mutant
    {d \in Conns \ {c} : b.lock[d][t] = "write"}

Conflicting(b, c, t, eLock) == {d \in Conns \ {c} : b.lock[d][t] \notin {"none", eLock}}

(* Who may be named as the reason why c cannot lock t: nobody, if it can. *)
querySharedCacheTableLock(b, c, t, eLock) ==
    IF b.pWriter # c /\ b.exclusive THEN {b.pWriter} ELSE Conflicting(b, c, t, eLock)

(* A refused write lock keeps new transactions out until it is granted. *)
Refused(b, eLock) == [b EXCEPT !.pending = @ \/ eLock = "write"]

setSharedCacheTableLock(b, c, t, eLock) ==
    [b EXCEPT !.lock[c][t] = IF @ = "write" THEN @ ELSE eLock]

NoNewTransaction_Write(b, wrflag) == wrflag > 0 /\ b.inTransaction = "write"     \* mutant

NoNewTransaction(b, wrflag) == b.pending \/ (wrflag > 0 /\ b.inTransaction = "write")

HasTransaction(b, c, wrflag) ==
    b.inTrans[c] = "write" \/ (b.inTrans[c] = "read" /\ wrflag = 0)

(* Who may be named as the reason why c cannot begin a transaction, which  *)
(* writes if wrflag is 1 and keeps everyone else out if it is 2.           *)
BeginRefused(b, c, wrflag) ==
    IF HasTransaction(b, c, wrflag) THEN {}
    ELSE IF NoNewTransaction(b, wrflag) THEN {b.pWriter}
    ELSE IF wrflag = 2 /\ Holders(b, c) # {} THEN Holders(b, c)
    ELSE querySharedCacheTableLock(b, c, Schema, "read")

Begun(b, c, wrflag) ==
    IF HasTransaction(b, c, wrflag) THEN b
    ELSE LET level == IF wrflag = 0 THEN "read" ELSE "write"
             new == b.inTrans[c] = "none"
         IN  [pWriter |-> IF wrflag > 0 THEN c ELSE b.pWriter,
              exclusive |-> IF wrflag > 0 THEN wrflag = 2 ELSE b.exclusive,
              pending |-> b.pending,
              inTransaction |-> IF b.inTransaction = "write" THEN "write" ELSE level,
              nTransaction |-> IF new THEN b.nTransaction + 1 ELSE b.nTransaction,
              inTrans |-> [b.inTrans EXCEPT ![c] = level],
              lock |-> IF new THEN [b.lock EXCEPT ![c][Schema] = "read"] ELSE b.lock]

downgradeAllSharedCacheTableLocks(b, c) ==
    IF b.pWriter # c THEN b
    ELSE [b EXCEPT !.pWriter = None, !.exclusive = FALSE, !.pending = FALSE,
                   !.lock = [d \in Conns |-> [t \in AllTables |->
                                 IF b.lock[d][t] = "none" THEN "none" ELSE "read"]]]

LastReader_Late(b) == b.nTransaction = 1                                         \* mutant

(* The writer that waits will be left alone. *)
LastReader(b) == b.nTransaction = 2

clearAllSharedCacheTableLocks(b, c) ==
    [b EXCEPT !.lock[c] = [t \in AllTables |-> "none"],
              !.pWriter = IF b.pWriter = c THEN None ELSE @,
              !.exclusive = @ /\ b.pWriter # c,
              !.pending = @ /\ b.pWriter # c /\ ~LastReader(b)]

(* btreeEndTransaction(), preceded by the end of the write transaction.    *)
(* nVdbeRead counts the statements of c that are in progress.              *)
EndTransaction(b, c, nVdbeRead) ==
    LET b1 == [b EXCEPT !.inTransaction = IF b.inTrans[c] = "write" THEN "read" ELSE @]
    IN  IF b.inTrans[c] = "none" THEN b
        ELSE IF nVdbeRead > 1
        THEN [downgradeAllSharedCacheTableLocks(b1, c) EXCEPT !.inTrans[c] = "read"]
        ELSE [clearAllSharedCacheTableLocks(b1, c) EXCEPT
                 !.inTrans[c] = "none",
                 !.nTransaction = b.nTransaction - 1,
                 !.inTransaction = IF b.nTransaction = 1 THEN "none" ELSE @]

-----------------------------------------------------------------------------
(* Connections and their statements.                                       *)

Idle == [r |-> 0, w |-> 0]
Count(c) == active[c].r + active[c].w

Init ==
    /\ setting \in Settings
    /\ cache = [k \in AllCaches |-> InitCache]
    /\ autoCommit = [c \in Conns |-> TRUE]
    /\ begun = {}
    /\ active = [c \in Conns |-> Idle]
    /\ stage = [c \in Conns |-> IF c \in setting.open THEN "ready" ELSE "closed"]
    /\ todo = [c \in Conns |-> {}]
    /\ changed = [k \in AllCaches |-> [t \in AllTables |-> None]]
    /\ seen = [k \in AllCaches |-> [c \in Conns |-> {}]]
    /\ NotifyInit

(* The calls an application may make on c now.  A patient one that was     *)
(* refused a lock asks to be told, and waits, or ends what it is about.    *)
CanAct(c) == stage[c] = "ready" /\ (setting.patient => ~Waiting(c))
CanTry(c) == CanAct(c) /\ (setting.patient => pBlockingConnection[c] = None)

(* The caches become new; what only an open transaction is about is        *)
(* forgotten with it, and whoever has one has read the schema.             *)
Becomes(new) ==
    /\ cache' = new
    /\ changed' = [k \in AllCaches |-> [t \in AllTables |->
                       IF \E c \in Conns : changed[k][t] = c /\ new[k].inTrans[c] = "write"
                       THEN changed[k][t] ELSE None]]
    /\ seen' = [k \in AllCaches |-> [c \in Conns |->
                    IF new[k].inTrans[c] = "none" THEN {} ELSE seen[k][c] \cup {Schema}]]

Ended(new, c, nVdbeRead) ==
    [k \in AllCaches |-> IF k \in Caches THEN EndTransaction(new[k], c, nVdbeRead) ELSE new[k]]

At(c, s) == stage' = [stage EXCEPT ![c] = s]

(* The locks of c were released: it is time to tell who waits for them. *)
Unlocking(c) == At(c, "unlocking")

-----------------------------------------------------------------------------
(* The start of a statement: OP_Transaction, OP_TableLock.                 *)

wrflag(w) == IF w THEN 1 ELSE 0
Level(w) == IF w THEN "write" ELSE "read"

NeedsLock(c, w) == w \/ c \notin setting.readUncommitted

TableRefused(b, c, t, w) ==
    IF NeedsLock(c, w) THEN querySharedCacheTableLock(b, c, t, Level(w)) ELSE {}

WithLock(b, c, t, w) ==
    IF NeedsLock(c, w) THEN setSharedCacheTableLock(b, c, t, Level(w)) ELSE b

(* sqlite3VdbeHalt() for a statement that could not start: alone, it takes *)
(* the transaction with it; in a transaction only the statement is undone. *)
HaltRefused(c, new) ==
    /\ IF autoCommit[c] /\ active[c].w = 0
       THEN Becomes(Ended(new, c, Count(c) + 1))
       ELSE Becomes(new)
    /\ IF autoCommit[c] THEN Unlocking(c) ELSE UNCHANGED stage
    /\ UNCHANGED <<autoCommit, active, todo, begun, setting>>

Startable(c, k, t, w) ==
    /\ CanTry(c)
    /\ <<c, k, t, Level(w)>> \in setting.statements
    /\ Count(c) < setting.maxActive
    /\ autoCommit[c] => ~setting.once
    /\ w => active[c].w = 0

StartRefused(c, k, t, w) ==
    /\ Startable(c, k, t, w)
    /\ \E d \in BeginRefused(cache[k], c, wrflag(w)) : ConnectionBlocked(c, d)
    /\ HaltRefused(c, cache)

LockRefused(c, k, t, w) ==
    /\ Startable(c, k, t, w)
    /\ BeginRefused(cache[k], c, wrflag(w)) = {}
    /\ \E b \in {Begun(cache[k], c, wrflag(w))} :
        /\ \E d \in TableRefused(b, c, t, w) : ConnectionBlocked(c, d)
        /\ HaltRefused(c, [cache EXCEPT ![k] = Refused(b, Level(w))])

Start(c, k, t, w) ==
    /\ Startable(c, k, t, w)
    /\ BeginRefused(cache[k], c, wrflag(w)) = {}
    /\ \E b \in {Begun(cache[k], c, wrflag(w))} :
        /\ TableRefused(b, c, t, w) = {}
        /\ cache' = [cache EXCEPT ![k] = WithLock(b, c, t, w)]
    /\ active' = IF w THEN [active EXCEPT ![c].w = 1] ELSE [active EXCEPT ![c].r = @ + 1]
    /\ changed' = IF w THEN [changed EXCEPT ![k][t] = c] ELSE changed
    /\ seen' = [seen EXCEPT ![k][c] = @ \cup {Schema}
                                        \cup IF NeedsLock(c, w) THEN {t} ELSE {}]
    /\ UNCHANGED <<autoCommit, stage, todo, notifyVars, begun, setting>>

(* sqlite3_prepare() only looks whether the schemas can be read. *)
PrepareRefused(c) ==
    /\ CanTry(c)
    /\ \E k \in Caches :
        \E d \in querySharedCacheTableLock(cache[k], c, Schema, "read") : ConnectionBlocked(c, d)
    /\ UNCHANGED <<cache, connVars, changed, seen, setting>>

-----------------------------------------------------------------------------
(* The end of a statement, of a transaction, of a connection.              *)

Without(c, w) ==
    IF w THEN [active EXCEPT ![c].w = 0] ELSE [active EXCEPT ![c].r = @ - 1]

InProgress_Any(c, w) == stage[c] = "ready"                                       \* mutant

InProgress(c, w) == IF w THEN active[c].w = 1 ELSE active[c].r > 0

(* The caches where c has no transaction have nothing to commit. *)
Ending(c) ==
    LET used == {k \in Caches : cache[k].inTrans[c] # "none"}
    IN  /\ At(c, IF used = {} THEN "unlocking" ELSE "ending")
        /\ todo' = [todo EXCEPT ![c] = used]

(* Done, or undone alone: outside of a transaction the last writer, or a   *)
(* reader without a writer, commits.                                       *)
FinishStatement(c, w) ==
    /\ CanAct(c)
    /\ InProgress(c, w)
    /\ active' = Without(c, w)
    /\ IF autoCommit[c] /\ active'[c].w = 0
       THEN Ending(c)
       ELSE /\ IF autoCommit[c] THEN Unlocking(c) ELSE UNCHANGED stage
            /\ UNCHANGED todo
    /\ UNCHANGED <<cache, autoCommit, changed, seen, notifyVars, begun, setting>>

(* An error that takes the transaction with it. *)
FailStatement(c, w) ==
    /\ CanAct(c)
    /\ InProgress(c, w)
    /\ Becomes(Ended(cache, c, Count(c)))
    /\ active' = Without(c, w)
    /\ autoCommit' = [autoCommit EXCEPT ![c] = TRUE]
    /\ Unlocking(c)
    /\ UNCHANGED <<todo, notifyVars, begun, setting>>

MayBegin(c) ==
    /\ setting.once => c \notin begun
    /\ begun' = IF setting.once THEN begun \cup {c} ELSE begun

Begin(c) ==
    /\ CanAct(c)
    /\ 0 \in setting.begins
    /\ autoCommit[c]
    /\ MayBegin(c)
    /\ autoCommit' = [autoCommit EXCEPT ![c] = FALSE]
    /\ UNCHANGED <<cache, active, stage, todo, changed, seen, notifyVars, setting>>

(* BEGIN IMMEDIATE and, with flag 2, BEGIN EXCLUSIVE write-lock all caches *)
(* or none.  Bound: by a connection that has no statement in progress.     *)
BeginWrite(c, flag) ==
    /\ CanAct(c)
    /\ flag \in setting.begins
    /\ autoCommit[c] /\ active[c] = Idle
    /\ \/ /\ \A k \in Caches : BeginRefused(cache[k], c, flag) = {}
          /\ Becomes([k \in AllCaches |-> IF k \in Caches THEN Begun(cache[k], c, flag)
                                          ELSE cache[k]])
          /\ MayBegin(c)
          /\ autoCommit' = [autoCommit EXCEPT ![c] = FALSE]
          /\ UNCHANGED <<stage, notifyVars>>
       \/ /\ \E k \in Caches : \E d \in BeginRefused(cache[k], c, flag) : ConnectionBlocked(c, d)
          /\ Unlocking(c)
          /\ UNCHANGED <<cache, autoCommit, begun, changed, seen>>
    /\ UNCHANGED <<active, todo, setting>>

Commit(c) ==
    /\ CanAct(c)
    /\ ~autoCommit[c] /\ active[c].w = 0
    /\ autoCommit' = [autoCommit EXCEPT ![c] = TRUE]
    /\ Ending(c)
    /\ UNCHANGED <<cache, active, changed, seen, notifyVars, begun, setting>>

Rollback(c) ==
    /\ CanAct(c)
    /\ ~autoCommit[c]
    /\ Becomes(Ended(cache, c, Count(c) + 1))
    /\ autoCommit' = [autoCommit EXCEPT ![c] = TRUE]
    /\ Unlocking(c)
    /\ UNCHANGED <<active, todo, notifyVars, begun, setting>>

(* One step of vdbeCommit(): the transaction of c on cache k is over. *)
EndCache(c, k) ==
    /\ stage[c] = "ending"
    /\ k \in todo[c]
    /\ Becomes([cache EXCEPT ![k] = EndTransaction(cache[k], c, Count(c) + 1)])
    /\ todo' = [todo EXCEPT ![c] = @ \ {k}]
    /\ IF todo[c] = {k} THEN Unlocking(c) ELSE UNCHANGED stage
    /\ UNCHANGED <<autoCommit, active, notifyVars, begun, setting>>

Unlock(c) ==
    /\ stage[c] = "unlocking"
    /\ ConnectionUnlocked(c)
    /\ At(c, "ready")
    /\ UNCHANGED <<cache, autoCommit, active, todo, changed, seen, begun, setting>>

Close(c) ==
    /\ setting.closing
    /\ stage[c] = "ready" /\ active[c] = Idle
    /\ Becomes(Ended(cache, c, 0))
    /\ autoCommit' = [autoCommit EXCEPT ![c] = TRUE]
    /\ At(c, "closing")
    /\ UNCHANGED <<active, todo, notifyVars, begun, setting>>

Closed(c) ==
    /\ stage[c] = "closing"
    /\ ConnectionClosed(c)
    /\ At(c, "closed")
    /\ UNCHANGED <<cache, autoCommit, active, todo, changed, seen, begun, setting>>

(* A new connection, whose structure may lie where an old one was. *)
Open(c) ==
    /\ setting.closing
    /\ stage[c] = "closed" /\ c \in setting.open
    /\ At(c, "ready")
    /\ UNCHANGED <<cache, autoCommit, active, todo, changed, seen, notifyVars, begun, setting>>

-----------------------------------------------------------------------------
(* A backup that overwrites cache k on behalf of c keeps it locked from    *)
(* one step to the next; c may do nothing else meanwhile.                  *)

BackupStep(c, k) ==
    /\ setting.backup
    /\ CanAct(c)
    /\ cache[k].inTrans[c] = "none"
    /\ \/ /\ BeginRefused(cache[k], c, 2) = {}
          /\ Becomes([cache EXCEPT ![k] = Begun(cache[k], c, 2)])
          /\ At(c, "backup")
          /\ todo' = [todo EXCEPT ![c] = {k}]
          /\ UNCHANGED notifyVars
       \/ /\ \E d \in BeginRefused(cache[k], c, 2) : ConnectionBlocked(c, d)
          /\ UNCHANGED <<cache, stage, todo, changed, seen>>
    /\ UNCHANGED <<autoCommit, active, begun, setting>>

(* The last sqlite3_backup_step(), or sqlite3_backup_finish(). *)
BackupEnd(c, k) ==
    /\ stage[c] = "backup" /\ k \in todo[c]
    /\ Becomes([cache EXCEPT ![k] = EndTransaction(cache[k], c, Count(c))])
    /\ todo' = [todo EXCEPT ![c] = {}]
    /\ At(c, "ready")
    /\ UNCHANGED <<autoCommit, active, notifyVars, begun, setting>>

-----------------------------------------------------------------------------
(* An application asks to be told, or no longer. *)
Register(c) ==
    /\ CanAct(c)
    /\ unlock_notify(c)
    /\ UNCHANGED <<cache, connVars, changed, seen, setting>>

Cancel(c) ==
    /\ stage[c] = "ready" /\ ~setting.patient
    /\ CancelNotify(c)
    /\ UNCHANGED <<cache, connVars, changed, seen, setting>>

Step(c) ==
    \/ \E k \in Caches, t \in AllTables, w \in BOOLEAN :
        Start(c, k, t, w) \/ StartRefused(c, k, t, w) \/ LockRefused(c, k, t, w)
    \/ \E w \in BOOLEAN : FinishStatement(c, w) \/ FailStatement(c, w)
    \/ \E flag \in 1 .. 2 : BeginWrite(c, flag)
    \/ \E k \in Caches : EndCache(c, k) \/ BackupStep(c, k) \/ BackupEnd(c, k)
    \/ PrepareRefused(c) \/ Begin(c) \/ Commit(c) \/ Rollback(c)
    \/ Unlock(c) \/ Close(c) \/ Closed(c) \/ Open(c)
    \/ Register(c) \/ Cancel(c)

Next == \E c \in Conns : Step(c)

(* The library finishes what it began.  An application that does not wait  *)
(* for a call-back finishes its statements and transactions at some time,  *)
(* even if it has to wait again and again in between.                      *)
Fairness ==
    \A c \in Conns :
        /\ WF_vars((\E k \in Caches : EndCache(c, k)) \/ Unlock(c) \/ Closed(c))
        /\ SF_vars(\E w \in BOOLEAN : FinishStatement(c, w))
        /\ SF_vars(Commit(c) \/ Rollback(c))

Spec == Init /\ [][Next]_vars /\ Fairness

-----------------------------------------------------------------------------
TypeOK ==
    /\ NotifyTypeOK
    /\ cache \in [AllCaches ->
                    [pWriter : Conns \cup {None}, exclusive : BOOLEAN, pending : BOOLEAN,
                     inTransaction : {"none", "read", "write"}, nTransaction : Nat,
                     inTrans : [Conns -> {"none", "read", "write"}],
                     lock : [Conns -> [AllTables -> {"none", "read", "write"}]]]]
    /\ autoCommit \in [Conns -> BOOLEAN]
    /\ active \in [Conns -> [r : Nat, w : 0 .. 1]]
    /\ stage \in [Conns -> {"ready", "ending", "unlocking", "closing", "closed", "backup"}]
    /\ todo \in [Conns -> SUBSET AllCaches]

(* What btreeIntegrity() and the assertions of the lock functions rely on: *)
(* the counts are right, there is one writer at most, whoever has a        *)
(* transaction has the schema locked, a writer that waits (PENDING) has    *)
(* someone to wait for, and one that is to be alone (EXCLUSIVE) is.  With  *)
(* either flag btreeBeginTrans() follows pWriter without a check.          *)
BtreeIntegrity ==
    \A k \in AllCaches : LET b == cache[k] IN
        /\ b.nTransaction = Cardinality({c \in Conns : b.inTrans[c] # "none"})
        /\ (b.inTransaction = "none") <=> (b.nTransaction = 0)
        /\ (b.inTransaction = "write") <=> (b.pWriter # None)
        /\ \A c \in Conns :
            /\ (b.inTrans[c] = "write") <=> (b.pWriter = c)
            /\ (b.inTrans[c] # "none") <=> (b.lock[c][Schema] # "none")
            /\ \A t \in AllTables : b.lock[c][t] = "write" => b.pWriter = c
        /\ b.pending => b.pWriter # None /\ b.nTransaction > 1
        /\ b.exclusive => b.pWriter # None /\ b.nTransaction = 1

(* What a transaction has read, no one else changes before it is over, and *)
(* it reads nothing that another's open transaction has changed, through   *)
(* whatever order of statements, commits with readers in progress (which   *)
(* keep read locks) and refusals.  A connection that reads uncommitted     *)
(* data still sees only committed schemas.                                 *)
Isolation ==
    \A k \in AllCaches, t \in AllTables, c \in Conns :
        t \in seen[k][c] => changed[k][t] \in {c, None}

(* Whoever a call-back may be due from has a transaction, or is about to   *)
(* make the calls. *)
Concluding(b) ==
    \/ \E k \in Caches : cache[k].inTrans[b] # "none"
    \/ stage[b] \in {"ending", "unlocking", "closing"}

(* An application that waits is not forgotten: whoever is or was in the    *)
(* way of c is an open connection whose transaction is still to end, and c *)
(* is on the list that the call-backs are made from.  (For the end of a    *)
(* backup's transaction see ToldWhenConcluded.)                            *)
NoLostWakeUp ==
    \A c, b \in Conns :
        b \in {pBlockingConnection[c], pUnlockConnection[c]} =>
            /\ c \in blockedList
            /\ stage[b] # "closed"
            /\ Concluding(b) \/ setting.backup

(* What sqlite3_unlock_notify() promises: the call-back is made when the   *)
(* transaction it is registered for is concluded.                          *)
ToldWhenConcluded ==
    \A c \in Conns : Waiting(c) => Concluding(pUnlockConnection[c])

(* Never do connections wait for each other in a circle. *)
NoWaitCycle ==
    \A S \in (SUBSET Conns) \ {{}} : \E c \in S : pUnlockConnection[c] \notin S

(* While a writer waits for its lock, no other transaction begins: the     *)
(* readers before it become fewer, so it cannot be starved.                *)
PendingKeepsReadersOut ==
    [][\A k \in AllCaches :
         cache[k].pending /\ cache'[k].pWriter = cache[k].pWriter =>
             \A c \in Conns : cache'[k].inTrans[c] # "none" => cache[k].inTrans[c] # "none"]_vars

(* Whoever waits for a call-back gets it, where whoever waits does nothing *)
(* else and everyone else finishes his transactions.                       *)
WaiterIsNotified ==
    \A c \in Conns : (setting.patient /\ Waiting(c)) ~> ~Waiting(c)
=============================================================================
