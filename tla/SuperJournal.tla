---------------------------- MODULE SuperJournal ----------------------------
(***************************************************************************)
(* The commit of one transaction over several attached databases:          *)
(* vdbeCommit of vdbeaux.c, and what pager.c does with the name of the     *)
(* super-journal, in the commit, in a roll-back and in a recovery.         *)
(*                                                                         *)
(* What Pager checks page by page is one value here: a database file holds *)
(* the number of the transaction that wrote it, or is Torn; a journal is   *)
(* its header, a length in sectors and the name at its end.  Each file is  *)
(* what the processes see (now) and all that a power failure may leave of  *)
(* it (may).                                                               *)
(***************************************************************************)
EXTENDS Integers, FiniteSets

CONSTANTS
    Conns,      \* connections, each in a process of its own
    Dbs,        \* the databases, numbered as in sqlite3.aDb
    MaxTxns,    \* the most that Settings may bound the commits by
    MaxRecs,    \* bound: sectors of records in a journal
    Settings    \* journal modes, synchronous, and the faults to expect

ASSUME SuperJournalAssumption ==
    /\ IsFiniteSet(Conns) /\ IsFiniteSet(Dbs) /\ Dbs \subseteq Nat
    /\ MaxTxns \in Nat /\ MaxRecs \in Nat \ {0}
    /\ Settings \subseteq [journal : [Dbs -> {"delete", "truncate", "persist"}],
                           sync : {"normal", "full", "extra"},
                           faults : SUBSET {"die", "power", "io"},
                           most : Nat,              \* bound: faults of all kinds
                           txns : 1 .. MaxTxns]     \* bound: commits begun

VARIABLES
    db,         \* db[d]: the database file
    jrnl,       \* jrnl[d]: its rollback journal
    super,      \* super[s]: the super-journal of transaction s
    lock,       \* lock[d]: the connection with more than SHARED, if any
    off,        \* off[d]: Pager.journalOff of that connection, in sectors
    con,        \* what each connection is doing
    past,       \* past[t][d]: the transactions in d once t has committed
    kept,       \* the multi-file commits that have returned SQLITE_OK
    faults,     \* faults so far
    setting     \* what was chosen of Settings

vars == <<db, jrnl, super, lock, off, con, past, kept, faults, setting>>

Txns == 1 .. MaxTxns
NoName == 0         \* a journal without the name of a super-journal
Nobody == {}        \* lock[d] is a set of at most one connection

Torn == -1          \* a database file with some pages of a transaction
Zeroed == -2        \* a journal header without magic
Damaged == -3       \* a journal whose records did not reach the disk

NotBegun == [d \in {} |-> {}]

NoJournal == [head |-> Zeroed, len |-> 0, name |-> NoName]
NoSuper == [there |-> FALSE, names |-> {}]
Idle == [pc |-> "idle", dbs |-> {}, todo |-> {}, txn |-> 0, super |-> NoName,
         name |-> NoName, check |-> {}]

-----------------------------------------------------------------------------
(* Files.                                                                  *)

File(x) == [now |-> x, may |-> {x}]

(* A change that no sync follows; half is what it may be when half done. *)
Changed(f, x, half) == [now |-> x, may |-> f.may \cup {x} \cup half]

Synced(f) == File(f.now)

SetOf(value, d, f) == [value EXCEPT ![d] = f]

Larger(a, b) == IF a >= b THEN a ELSE b
First(S) == CHOOSE x \in S : \A y \in S : x <= y

-----------------------------------------------------------------------------
(* Journals.                                                               *)

(* The header and n sectors of records, written over what the file held:   *)
(* where the file was longer, its end stays.                               *)
Over(j, orig, n) ==
    [head |-> orig,
     len  |-> Larger(j.len, n),
     name |-> IF n >= j.len THEN NoName ELSE j.name]

Named_Far(j, n, s) == [head |-> j.head, len |-> n + 2, name |-> s]    \* mutant
(* writeSuperJournal: the name after the n-th sector, and nothing after. *)
Named(j, n, s) == [head |-> j.head, len |-> n + 1, name |-> s]

(* hasHotJournal looks at the first byte only. *)
Hot(d) == jrnl[d].now.len > 0 /\ jrnl[d].now.head # Zeroed /\ lock[d] = Nobody

(* pager_playback: a journal that names a super-journal that does not      *)
(* exist is not played back.                                               *)
IsCold(j) == j.name # NoName /\ ~super[j.name].now.there

(* What a database holds once its journal, if it is hot, is rolled back. *)
Content(d) ==
    LET j == jrnl[d].now IN
    IF j.len > 0 /\ j.head >= 0 /\ ~IsCold(j) THEN j.head ELSE db[d].now

(* A recovery does not end a cold journal that it does not delete: it      *)
(* writes nothing, so journalOff is 0.  The transaction then begins.       *)
StaysCold(d) ==
    /\ IsCold(jrnl[d].now) /\ setting.journal[d] # "delete"
    /\ jrnl[d].may \subseteq {jrnl[d].now, NoJournal}

Included(d) == IF Content(d) \in Txns THEN past[Content(d)][d] ELSE {}

(* pager_end_transaction for database d; zeroJournalHdr zeroes a persistent*)
(* journal, or truncates it when it has the name of a super-journal.       *)
KeepsFile(d, hasSuper) == setting.journal[d] = "persist" /\ ~hasSuper

Finalized(d, hasSuper) ==
    LET f == jrnl[d] IN
    IF setting.journal[d] = "delete"
    THEN IF setting.sync = "extra" THEN File(NoJournal) ELSE Changed(f, NoJournal, {})
    ELSE IF off[d] = 0 THEN f
    ELSE IF KeepsFile(d, hasSuper)
    THEN File([f.now EXCEPT !.head = Zeroed])
    ELSE IF setting.journal[d] = "truncate" /\ setting.sync = "normal"
    THEN Changed(f, NoJournal, {})
    ELSE File(NoJournal)

-----------------------------------------------------------------------------
(* Steps of a connection.                                                  *)

Start(c, w) == con' = [con EXCEPT ![c] = w]
At(c, pc) == con[c].pc = pc
Current(c) == First(con[c].todo)
GoTo(c, pc) == Start(c, [con[c] EXCEPT !.pc = pc])

Lock(d, who) == lock' = [lock EXCEPT ![d] = who]
AtOff(d, n) == off' = [off EXCEPT ![d] = n]

(* The next database, or the next pc when this was the last one. *)
Advance(c, again, then) ==
    LET left == con[c].todo \ {Current(c)} IN
    Start(c, [con[c] EXCEPT !.todo = IF left = {} THEN con[c].dbs ELSE left,
                            !.pc = IF left = {} THEN then ELSE again])

history == <<past, kept>>
fixed == <<faults, setting>>

Init ==
    /\ db = [d \in Dbs |-> File(0)]
    /\ jrnl = [d \in Dbs |-> File(NoJournal)]
    /\ super = [s \in Txns |-> File(NoSuper)]
    /\ lock = [d \in Dbs |-> Nobody]
    /\ off = [d \in Dbs |-> 0]
    /\ con = [c \in Conns |-> Idle]
    /\ past = [t \in Txns |-> NotBegun]
    /\ kept = {}
    /\ faults = 0
    /\ setting \in Settings

Members(t) == DOMAIN past[t]
TxnsBegun == Cardinality({t \in Txns : Members(t) # {}})

(* The first write to d in a transaction: RESERVED, and a journal with the *)
(* records of n sectors.                                                   *)
Write(c, d, n) ==
    /\ con[c].pc \in {"idle", "write"} /\ TxnsBegun < setting.txns
    /\ lock[d] = Nobody /\ (Hot(d) => StaysCold(d))
    /\ Lock(d, {c}) /\ AtOff(d, n)
    /\ jrnl' = SetOf(jrnl, d, Changed(jrnl[d], Over(jrnl[d].now, db[d].now, n),
                                      {Over(jrnl[d].now, Damaged, n)}))
    /\ Start(c, [con[c] EXCEPT !.pc = "write", !.dbs = @ \cup {d}])
    /\ UNCHANGED <<db, super, history, fixed>>

(* A full cache: the journal is synced and some pages are written. *)
Spill(c, d) ==
    /\ At(c, "write") /\ d \in con[c].dbs /\ db[d].now # Torn
    /\ jrnl' = SetOf(jrnl, d, Synced(jrnl[d]))
    /\ db' = SetOf(db, d, Changed(db[d], Torn, {}))
    /\ UNCHANGED <<super, lock, off, con, history, fixed>>

(* vdbeCommit counts the databases that take part. *)
NeedsSuper(S) == Cardinality(S) > 1

BeginCommit(c) ==
    LET t == TxnsBegun + 1 IN
    /\ At(c, "write") /\ TxnsBegun < setting.txns
    /\ past' = [past EXCEPT ![t] = [d \in con[c].dbs |-> Included(d) \cup {t}]]
    /\ Start(c, [con[c] EXCEPT
                    !.pc = IF NeedsSuper(con[c].dbs) THEN "create" ELSE "journal",
                    !.txn = t,
                    !.super = IF NeedsSuper(con[c].dbs) THEN t ELSE NoName,
                    !.todo = con[c].dbs])
    /\ UNCHANGED <<db, jrnl, super, lock, off, kept, fixed>>

CreateSuper(c) ==
    LET S == con[c].dbs IN
    /\ At(c, "create")
    /\ super' = SetOf(super, con[c].super,
                      Changed(super[con[c].super], [there |-> TRUE, names |-> S],
                              [there : {TRUE}, names : SUBSET S]))
    /\ GoTo(c, "syncSuper")
    /\ UNCHANGED <<db, jrnl, lock, off, history, fixed>>

SyncSuper(c) ==
    /\ At(c, "syncSuper")
    /\ super' = SetOf(super, con[c].super, Synced(super[con[c].super]))
    /\ GoTo(c, "name")
    /\ UNCHANGED <<db, jrnl, lock, off, history, fixed>>

(* sqlite3PagerCommitPhaseOne of one database after the other: the name,   *)
(* the sync of the journal, the pages, the sync of the database.           *)
JournalSuper(c) ==
    LET d == Current(c) IN
    /\ At(c, "name")
    /\ jrnl' = SetOf(jrnl, d, Changed(jrnl[d], Named(jrnl[d].now, off[d], con[c].super), {}))
    /\ AtOff(d, off[d] + 1)
    /\ GoTo(c, "journal")
    /\ UNCHANGED <<db, super, lock, history, fixed>>

SyncJournal(c) ==
    /\ At(c, "journal")
    /\ jrnl' = SetOf(jrnl, Current(c), Synced(jrnl[Current(c)]))
    /\ GoTo(c, "pages")
    /\ UNCHANGED <<db, super, lock, off, history, fixed>>

WritePages(c) ==
    /\ At(c, "pages")
    /\ db' = SetOf(db, Current(c), Changed(db[Current(c)], con[c].txn, {Torn}))
    /\ GoTo(c, "syncDb")
    /\ UNCHANGED <<jrnl, super, lock, off, history, fixed>>

SyncDb(c) ==
    /\ At(c, "syncDb")
    /\ db' = SetOf(db, Current(c), Synced(db[Current(c)]))
    /\ IF con[c].super # NoName THEN Advance(c, "name", "delete") ELSE Advance(c, "end", "end")
    /\ UNCHANGED <<jrnl, super, lock, off, history, fixed>>

DirSynced_Not(f) == f      \* mutant

(* The directory entry of f reaches the disk. *)
DirSynced(f) == Synced(f)

(* sqlite3OsDelete(zSuper, 1) commits the transaction and then syncs the   *)
(* directory.                                                              *)
DeleteSuper(c) ==
    /\ At(c, "delete")
    /\ super' = SetOf(super, con[c].super, Changed(super[con[c].super], NoSuper, {}))
    /\ GoTo(c, "syncDir")
    /\ UNCHANGED <<db, jrnl, lock, off, history, fixed>>

SyncDir(c) ==
    /\ At(c, "syncDir")
    /\ super' = SetOf(super, con[c].super, DirSynced(super[con[c].super]))
    /\ GoTo(c, "end")
    /\ UNCHANGED <<db, jrnl, lock, off, history, fixed>>

(* The end of the work on one database: its lock goes back to SHARED.      *)
Release(c) ==
    /\ Lock(Current(c), Nobody) /\ AtOff(Current(c), 0)

Leave(c) ==
    LET left == con[c].todo \ {Current(c)} IN
    Start(c, IF left = {} THEN Idle ELSE [con[c] EXCEPT !.todo = left])

(* sqlite3PagerCommitPhaseTwo. *)
EndJournal(c) ==
    /\ At(c, "end")
    /\ jrnl' = SetOf(jrnl, Current(c), Finalized(Current(c), con[c].super # NoName))
    /\ Release(c) /\ Leave(c)
    /\ kept' = IF con[c].super # NoName /\ con[c].todo = {Current(c)}
               THEN kept \cup {con[c].txn} ELSE kept
    /\ UNCHANGED <<db, super, past, fixed>>

-----------------------------------------------------------------------------
(* Roll-back, of a transaction of this connection or of a hot journal.     *)

Rollback(c) ==
    /\ At(c, "write")
    /\ Start(c, [con[c] EXCEPT !.pc = "play", !.todo = con[c].dbs])
    /\ UNCHANGED <<db, jrnl, super, lock, off, history, fixed>>

(* sqlite3PagerSharedLock with a hot journal: EXCLUSIVE, and a sync of the *)
(* journal, which leaves its directory entry as it is.                     *)
Recover(c, d) ==
    /\ con[c] = Idle /\ Hot(d)
    /\ Lock(d, {c}) /\ AtOff(d, 0)
    /\ jrnl' = SetOf(jrnl, d, [now |-> jrnl[d].now,
                               may |-> {jrnl[d].now} \cup (jrnl[d].may \cap {NoJournal})])
    /\ Start(c, [con[c] EXCEPT !.pc = "play", !.dbs = {d}, !.todo = {d}])
    /\ UNCHANGED <<db, super, history, fixed>>

(* pager_playback.  A cold journal is left as it is, and journalOff too.   *)
Play(c) ==
    LET d == Current(c)
        j == jrnl[d].now IN
    /\ At(c, "play")
    /\ IF IsCold(j) \/ j.head < 0
       THEN db' = db
       ELSE db' = SetOf(db, d, Changed(db[d], j.head, IF db[d].now = j.head THEN {} ELSE {Torn}))
    /\ AtOff(d, IF IsCold(j) THEN off[d] ELSE Larger(off[d], 1))
    /\ Start(c, [con[c] EXCEPT !.pc = "restored",
                               !.name = IF IsCold(j) THEN NoName ELSE j.name])
    /\ UNCHANGED <<jrnl, super, lock, history, fixed>>

SyncRestored(c) ==
    /\ At(c, "restored")
    /\ db' = SetOf(db, Current(c), Synced(db[Current(c)]))
    /\ GoTo(c, "finalize")
    /\ UNCHANGED <<jrnl, super, lock, off, history, fixed>>

(* The database is unlocked before pager_delsuper looks at the other       *)
(* journals.  When the super-journal has gone meanwhile the call reports    *)
(* that error, after all that it changes, and the roll-back goes on.       *)
EndRollback(c) ==
    LET s == con[c].name IN
    /\ At(c, "finalize")
    /\ jrnl' = SetOf(jrnl, Current(c), Finalized(Current(c), jrnl[Current(c)].now.name # NoName))
    /\ Release(c)
    /\ IF s # NoName /\ super[s].now.there
       THEN Start(c, [con[c] EXCEPT !.pc = "children", !.check = super[s].now.names])
       ELSE Start(c, [con[c] EXCEPT !.pc = "next"])
    /\ UNCHANGED <<db, super, history, fixed>>

NextRollback(c) ==
    LET left == con[c].todo \ {Current(c)} IN
    /\ At(c, "next")
    /\ Start(c, IF left = {} THEN Idle ELSE [con[c] EXCEPT !.pc = "play", !.todo = left])
    /\ UNCHANGED <<db, jrnl, super, lock, off, history, fixed>>

StillNeeded_Not(k, s) == FALSE   \* mutant
(* pager_delsuper: the super-journal stays while one of its children names *)
(* it.                                                                     *)
StillNeeded(k, s) == jrnl[k].now.name = s

CheckChild(c) ==
    LET k == First(con[c].check) IN
    /\ At(c, "children") /\ con[c].check # {}
    /\ IF StillNeeded(k, con[c].name)
       THEN GoTo(c, "next")
       ELSE Start(c, [con[c] EXCEPT !.check = @ \ {k}])
    /\ UNCHANGED <<db, jrnl, super, lock, off, history, fixed>>

DelSuper(c) ==
    /\ At(c, "children") /\ con[c].check = {}
    /\ super' = SetOf(super, con[c].name, Changed(super[con[c].name], NoSuper, {}))
    /\ GoTo(c, "next")
    /\ UNCHANGED <<db, jrnl, lock, off, history, fixed>>

-----------------------------------------------------------------------------
(* Faults.                                                                 *)

Fault(kind) ==
    /\ kind \in setting.faults /\ faults < setting.most
    /\ faults' = faults + 1
    /\ UNCHANGED <<kept, past, setting>>

(* vdbeCommit returns an error and sqlite3RollbackAll follows. *)
ToRollback(c) == Start(c, [con[c] EXCEPT !.pc = "play", !.todo = con[c].dbs])

FailCommit(c) ==
    /\ con[c].pc \in {"create", "name", "journal", "syncDb", "delete", "syncDir"}
    /\ ToRollback(c)
    /\ UNCHANGED <<db, jrnl, super>>

FailSyncSuper(c) ==
    /\ At(c, "syncSuper")
    /\ super' = SetOf(super, con[c].super, Changed(super[con[c].super], NoSuper, {}))
    /\ ToRollback(c)
    /\ UNCHANGED <<db, jrnl>>

FailWritePages(c) ==
    /\ At(c, "pages")
    /\ db' = SetOf(db, Current(c), Changed(db[Current(c)], Torn, {}))
    /\ ToRollback(c)
    /\ UNCHANGED <<jrnl, super>>

(* pager_error: the locks go, the journal stays. *)
GiveUp(c) ==
    /\ con[c].pc \in {"play", "restored", "finalize", "end"}
    /\ IF At(c, "end") THEN Leave(c) ELSE GoTo(c, "next")
    /\ UNCHANGED <<db, jrnl, super>>

IoError(c) ==
    /\ Fault("io")
    /\ \/ (FailCommit(c) \/ FailSyncSuper(c) \/ FailWritePages(c)) /\ UNCHANGED <<lock, off>>
       \/ GiveUp(c) /\ Release(c)

Held(c) == {d \in Dbs : lock[d] = {c}}

Die(c) ==
    /\ Fault("die") /\ con[c] # Idle
    /\ lock' = [d \in Dbs |-> lock[d] \ {c}]
    /\ off' = [d \in Dbs |-> IF d \in Held(c) THEN 0 ELSE off[d]]
    /\ Start(c, Idle)
    /\ UNCHANGED <<db, jrnl, super>>

PowerFailure ==
    /\ Fault("power")
    /\ \E x \in [Dbs -> UNION {db[d].may : d \in Dbs}] :
          /\ \A d \in Dbs : x[d] \in db[d].may
          /\ db' = [d \in Dbs |-> File(x[d])]
    /\ \E x \in [Dbs -> UNION {jrnl[d].may : d \in Dbs}] :
          /\ \A d \in Dbs : x[d] \in jrnl[d].may
          /\ jrnl' = [d \in Dbs |-> File(x[d])]
    /\ \E x \in [Txns -> UNION {super[s].may : s \in Txns}] :
          /\ \A s \in Txns : x[s] \in super[s].may
          /\ super' = [s \in Txns |-> File(x[s])]
    /\ lock' = [d \in Dbs |-> Nobody]
    /\ off' = [d \in Dbs |-> 0]
    /\ con' = [c \in Conns |-> Idle]

-----------------------------------------------------------------------------
Commit(c) ==
    \/ BeginCommit(c) \/ CreateSuper(c) \/ SyncSuper(c)
    \/ JournalSuper(c) \/ SyncJournal(c) \/ WritePages(c) \/ SyncDb(c)
    \/ DeleteSuper(c) \/ SyncDir(c) \/ EndJournal(c)

RollingBack(c) ==
    \/ Rollback(c) \/ Play(c) \/ SyncRestored(c) \/ EndRollback(c)
    \/ CheckChild(c) \/ DelSuper(c) \/ NextRollback(c)

Next ==
    \/ \E c \in Conns :
          \/ \E d \in Dbs : \/ \E n \in 1 .. MaxRecs : Write(c, d, n)
                            \/ Spill(c, d)
                            \/ Recover(c, d)
          \/ Commit(c) \/ RollingBack(c) \/ IoError(c) \/ Die(c)
    \/ PowerFailure

Spec == Init /\ [][Next]_vars

-----------------------------------------------------------------------------
Journals == [head : {Zeroed, Damaged, Torn} \cup 0 .. MaxTxns, len : 0 .. MaxRecs + 1,
             name : 0 .. MaxTxns]

TypeOK ==
    /\ \A d \in Dbs : /\ db[d].may \subseteq {Torn} \cup 0 .. MaxTxns /\ db[d].now \in db[d].may
                      /\ jrnl[d].may \subseteq Journals /\ jrnl[d].now \in jrnl[d].may
                      /\ lock[d] \subseteq Conns /\ Cardinality(lock[d]) <= 1
                      /\ off[d] \in 0 .. MaxRecs + 1
    /\ \A s \in Txns : /\ super[s].may \subseteq [there : BOOLEAN, names : SUBSET Dbs]
                       /\ super[s].now \in super[s].may
    /\ \A c \in Conns : /\ con[c].dbs \subseteq Dbs /\ con[c].todo \subseteq con[c].dbs
                        /\ con[c].check \subseteq Dbs
                        /\ con[c].txn \in 0 .. MaxTxns /\ con[c].super \in 0 .. MaxTxns
    /\ kept \subseteq Txns /\ faults \in Nat /\ setting \in Settings

(* A transaction over several databases is in all of them or in none, at   *)
(* every moment, whoever dies or fails: no database holds a part of a      *)
(* transaction, and none has it when another of its databases has not.     *)
AllOrNothing ==
    /\ \A d \in Dbs : Content(d) # Torn
    /\ \A t \in Txns : \A d, e \in Members(t) : t \in Included(d) => t \in Included(e)

(* Once vdbeCommit has returned from a commit with a super-journal, no     *)
(* failure takes it back from any of its databases, in NORMAL as in FULL:  *)
(* a journal that reappears names a super-journal whose end is synced.     *)
MultiFileCommitIsFinal ==
    \A t \in kept : \A d \in Members(t) : t \in Included(d)
=============================================================================
