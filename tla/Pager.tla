------------------------------- MODULE Pager -------------------------------
(***************************************************************************)
(* The pager of pager.c in rollback-journal mode: several connections to   *)
(* one database file, their page caches, the rollback journal, and what    *)
(* the death of a process, a power failure or a failing system call leaves *)
(* behind.  Locks are those of DbLock, which UnixLock implements.          *)
(*                                                                         *)
(* A file exists twice: as the processes see it and as the disk has it. A  *)
(* sync makes the two equal; a power failure leaves, page by page, either  *)
(* one or junk.  A step is one lock, sync or file operation, with the      *)
(* bookkeeping that follows it and the writes to the connection's own,     *)
(* not yet synced journal that precede it.                                 *)
(*                                                                         *)
(* Page 1 stands for its change counter (bytes 24..27), which is all that  *)
(* the pager reads of it; the other pages hold the number of the           *)
(* transaction that wrote them.  A journal is a sequence of headers and    *)
(* records; they are one sector each, so that a stale header may stand     *)
(* right where a new one is looked for.                                    *)
(***************************************************************************)
EXTENDS Integers, Sequences, FiniteSets

CONSTANTS
    Conns,          \* connections, each in a process of its own
    InitSize,       \* pages of the database file at the start
    Settings        \* the settings and faults to choose from

ASSUME PagerAssumption ==
    /\ IsFiniteSet(Conns)
    /\ InitSize \in Nat \ {0}
    /\ Settings \subseteq [journal : {"delete", "truncate", "persist"},
                           sync : {"off", "normal", "full", "extra"},
                           die : BOOLEAN, power : BOOLEAN, io : BOOLEAN,
                           users : SUBSET Conns,   \* connections that do anything
                           pages : {n \in Nat : n >= InitSize},
                           txns : Nat]          \* bound: write transactions begun

(* Pager.eState *)
OPEN            == 0
READER          == 1
WRITER_LOCKED   == 2
WRITER_CACHEMOD == 3
WRITER_DBMOD    == 4
WRITER_FINISHED == 5
ERROR           == 6

VARIABLES
    db, dbDisk,     \* the database file: as seen, and on the disk
    jrnl, jDisk,    \* the rollback journal: as seen, and on the disk
    jSame,          \* the directory on the disk has the journal now in use
    eState, eLock,  \* Pager.eState, Pager.eLock
    pc,             \* where a connection's call stands
    mem,            \* the page cache and dbSize of each connection
    tx,             \* the journalling state of each connection
    txns,           \* write transactions begun so far
    setting         \* what was chosen of Settings

files == <<db, dbDisk, jrnl, jDisk, jSame>>
vars == <<files, eState, eLock, pc, mem, tx, txns, setting>>

JournalMode == setting.journal      \* PRAGMA journal_mode
ProcessesDie == setting.die         \* a process may die at any step
PowerFails == setting.power         \* the machine may lose power at any step
IoFails == setting.io               \* a file operation may return SQLITE_IOERR
Pages == 1 .. setting.pages         \* bound: the file grows no larger

(* PRAGMA synchronous *)
noSync == setting.sync = "off"
fullSync == setting.sync \in {"full", "extra"}
extraSync == setting.sync = "extra"

Locks == INSTANCE DbLock WITH level <- eLock
NO_LOCK == Locks!NO_LOCK
SHARED_LOCK == Locks!SHARED_LOCK
RESERVED_LOCK == Locks!RESERVED_LOCK
PENDING_LOCK == Locks!PENDING_LOCK
EXCLUSIVE_LOCK == Locks!EXCLUSIVE_LOCK

Others(c) == Conns \ {c}

-----------------------------------------------------------------------------
(* Files.                                                                  *)

(* f with v at x; x may be one past the end of a sequence. *)
Put(f, x, v) == [y \in DOMAIN f \cup {x} |-> IF y = x THEN v ELSE f[y]]

Larger(a, b) == IF a >= b THEN a ELSE b

Torn == -1      \* a page of which only a part was written

(* A sequence of journal sectors; kind "zero" is a header without magic.   *)
(* In a header pg is the original database size and val the field nRec.    *)
Header(magic, n, t) ==
    [kind |-> IF magic THEN "hdr" ELSE "zero", pg |-> t.orig, val |-> n, nonce |-> t.stamp]

Record(p, v, t) == [kind |-> "rec", pg |-> p, val |-> v, nonce |-> t.stamp]

Junk == [kind |-> "zero", pg |-> 0, val |-> 0, nonce |-> 0]

ToEndOfFile == -1       \* nRec = 0xffffffff

NoJournal == [exists |-> FALSE, data |-> <<>>]

(* The first byte of the journal is not zero. *)
LooksHot(j) == j.data # <<>> /\ j.data[1].kind # "zero"

JournalIs(data) == jrnl' = [exists |-> TRUE, data |-> data]

JournalSynced == jDisk' = jrnl' /\ jSame' = TRUE

(* What a power failure may leave of a file that is new to the processes   *)
(* and old on the disk: of either length, each sector as it is or was, or  *)
(* junk where a write had not ended.  A truncation leaves no junk.         *)
Leftovers(new, old, junk, i) ==
    {s[i] : s \in {t \in {new, old} : i <= Len(t)}} \cup
        (IF i > Len(new) \/ (i <= Len(old) /\ new[i] = old[i]) THEN {} ELSE {junk})

Longer(S, xs) == {Append(s, x) : s \in S, x \in xs}

Wrecks(new, old, junk) ==
    LET upTo[n \in 0 .. Larger(Len(new), Len(old))] ==
            IF n = 0 THEN {<<>>}
            ELSE Longer(upTo[n - 1], Leftovers(new, old, junk, n))
    IN  upTo[Len(new)] \cup upTo[Len(old)]

-----------------------------------------------------------------------------
NoTx == [orig |-> 0, stamp |-> 0, inJournal |-> {}, changeCountDone |-> FALSE,
         off |-> 0,     \* journalOff, in sectors
         hdr |-> 0,     \* journalHdr
         nRec |-> 0,
         left |-> 0, nonce |-> 0,   \* pager_playback: records to go, cksumInit
         job |-> "none"]

EmptyCache == [cache |-> <<>>, dirty |-> {}, needSync |-> {}, fileVers |-> 0, dbSize |-> 0]

Init ==
    /\ db = [p \in 1 .. InitSize |-> 0]
    /\ dbDisk = db
    /\ jrnl = NoJournal /\ jDisk = NoJournal /\ jSame = TRUE
    /\ eState = [c \in Conns |-> OPEN]
    /\ eLock = [c \in Conns |-> NO_LOCK]
    /\ pc = [c \in Conns |-> "idle"]
    /\ mem = [c \in Conns |-> EmptyCache]
    /\ tx = [c \in Conns |-> NoTx]
    /\ txns = 0
    /\ setting \in Settings

Goto(c, label) == pc' = [pc EXCEPT ![c] = label]
SetState(c, s) == eState' = [eState EXCEPT ![c] = s]
SetLock(c, l) == eLock' = [eLock EXCEPT ![c] = l]
SetMem(c, m) == mem' = [mem EXCEPT ![c] = m]
SetTx(c, t) == tx' = [tx EXCEPT ![c] = t]

Cached(c) == DOMAIN mem[c].cache

Without(f, S) == [x \in DOMAIN f \ S |-> f[x]]

(* pager_reset: every page leaves the cache. *)
Emptied(m) == [m EXCEPT !.cache = <<>>, !.dirty = {}, !.needSync = {}]

(* pager_unlock: from whatever lock to none.  After an error the cache is  *)
(* not to be trusted.                                                      *)
Unlocked(c, m) ==
    /\ SetState(c, OPEN) /\ SetLock(c, NO_LOCK) /\ Goto(c, "idle")
    /\ SetMem(c, m) /\ SetTx(c, NoTx)

-----------------------------------------------------------------------------
(* sqlite3PagerSharedLock and hasHotJournal.                               *)

LockShared(c) ==
    /\ pc[c] = "idle" /\ eState[c] = OPEN /\ c \in setting.users
    /\ Locks!AcquireShared(c)
    /\ Goto(c, "access")
    /\ UNCHANGED <<files, eState, mem, tx, txns, setting>>

Access(c) ==
    /\ pc[c] = "access"
    /\ Goto(c, IF jrnl.exists THEN "reserved" ELSE "version")
    /\ UNCHANGED <<files, eState, eLock, mem, tx, txns, setting>>

(* sqlite3OsCheckReservedLock *)
WriterAlive(c) == \E d \in Conns : eLock[d] >= RESERVED_LOCK

CheckReserved(c) ==
    /\ pc[c] = "reserved"
    /\ Goto(c, IF WriterAlive(c) THEN "version" ELSE "firstByte")
    /\ UNCHANGED <<files, eState, eLock, mem, tx, txns, setting>>

(* A journal that has vanished since cannot be opened and counts as hot:   *)
(* the answer is checked again under the EXCLUSIVE lock.                   *)
FirstByte(c) ==
    /\ pc[c] = "firstByte"
    /\ Goto(c, IF ~jrnl.exists \/ LooksHot(jrnl) THEN "hotLock" ELSE "version")
    /\ UNCHANGED <<files, eState, eLock, mem, tx, txns, setting>>

LockForPlayback_Reserved(c) == Locks!AcquireReserved(c)                 \* mutant

LockForPlayback(c) == Locks!AcquireExclusive(c)

(* The EXCLUSIVE lock for the roll-back, without a RESERVED lock on the    *)
(* way, or SQLITE_BUSY.                                                    *)
HotLock(c) ==
    /\ pc[c] = "hotLock"
    /\ \/ /\ LockForPlayback(c)
          /\ Goto(c, "hotOpen")
          /\ UNCHANGED <<eState, mem, tx>>
       \/ /\ \E d \in Others(c) : eLock[d] # NO_LOCK
          /\ Unlocked(c, mem[c])
    /\ UNCHANGED <<files, txns, setting>>

(* pagerSyncHotJournal *)
HotJournalIsSynced == ~noSync

(* If the journal is still there it is opened, synced and played back. *)
HotOpen(c) ==
    /\ pc[c] = "hotOpen"
    /\ IF jrnl.exists
       THEN /\ Goto(c, "header")
            /\ SetTx(c, [NoTx EXCEPT !.hdr = Len(jrnl.data), !.job = "hot"])
            /\ IF HotJournalIsSynced THEN UNCHANGED jrnl /\ JournalSynced
                                     ELSE UNCHANGED <<jrnl, jDisk, jSame>>
            /\ UNCHANGED eLock
       ELSE /\ SetLock(c, SHARED_LOCK)
            /\ Goto(c, "version")
            /\ UNCHANGED <<jrnl, jDisk, jSame, tx>>
    /\ UNCHANGED <<db, dbDisk, eState, mem, txns, setting>>

CacheIsStale_Never(c) == FALSE                                          \* mutant

CacheIsStale(c) == mem[c].fileVers # db[1]

(* The change counter tells whether the cache may be kept.  The B-tree     *)
(* layer reads page 1 first (lockBtree).                                   *)
Version(c) ==
    /\ pc[c] = "version"
    /\ LET m == IF CacheIsStale(c) THEN Emptied(mem[c]) ELSE mem[c]
           held == 1 \in DOMAIN m.cache
       IN  SetMem(c, [m EXCEPT !.cache = IF held THEN @ ELSE Put(@, 1, db[1]),
                               !.fileVers = IF held THEN @ ELSE db[1],
                               !.dbSize = Len(db)])
    /\ SetState(c, READER) /\ Goto(c, "idle")
    /\ UNCHANGED <<files, eLock, tx, txns, setting>>

(* getPageNormal, readDbPage *)
Fetch(c, p) ==
    /\ pc[c] = "idle" /\ eState[c] \in READER .. WRITER_FINISHED
    /\ p \in 1 .. mem[c].dbSize \ Cached(c)
    /\ SetMem(c, [mem[c] EXCEPT !.cache = Put(@, p, db[p])])
    /\ UNCHANGED <<files, eState, eLock, pc, tx, txns, setting>>

(* The page cache recycles a clean page; page 1 is held in a transaction. *)
Evict(c, p) ==
    /\ pc[c] = "idle" /\ eState[c] # ERROR
    /\ p \in Cached(c) \ mem[c].dirty
    /\ p # 1 \/ eState[c] = OPEN
    /\ SetMem(c, [mem[c] EXCEPT !.cache = Without(@, {p})])
    /\ UNCHANGED <<files, eState, eLock, pc, tx, txns, setting>>

(* pagerUnlockIfUnused of a reader. *)
EndRead(c) ==
    /\ pc[c] = "idle" /\ eState[c] = READER
    /\ Unlocked(c, mem[c])
    /\ UNCHANGED <<files, txns, setting>>

-----------------------------------------------------------------------------
(* A write transaction: sqlite3PagerBegin, sqlite3PagerWrite, pagerStress. *)

Begin(c) ==
    /\ pc[c] = "idle" /\ eState[c] = READER
    /\ txns < setting.txns
    /\ Locks!AcquireReserved(c)
    /\ SetState(c, WRITER_LOCKED)
    /\ SetTx(c, [NoTx EXCEPT !.orig = mem[c].dbSize, !.stamp = txns + 1])
    /\ txns' = txns + 1
    /\ UNCHANGED <<files, pc, mem, setting>>

(* The journal, transaction and cache of c. *)
Work(c) == [j |-> jrnl.data, t |-> tx[c], m |-> mem[c], s |-> eState[c]]

(* pager_open_journal: the first header overwrites whatever is there. *)
JournalOpened(w) ==
    [j |-> Put(w.j, 1, Header(noSync, IF noSync THEN ToEndOfFile ELSE 0, w.t)),
     t |-> [w.t EXCEPT !.off = 1, !.hdr = 0],
     m |-> w.m,
     s |-> WRITER_CACHEMOD]

(* The page is part of the original database and not in the journal yet. *)
MustJournal(w, p) == p <= w.t.orig /\ p \notin w.t.inJournal

(* pagerAddPageToRollbackJournal *)
PageJournalled(w, p) ==
    [j |-> Put(w.j, w.t.off + 1, Record(p, w.m.cache[p], w.t)),
     t |-> [w.t EXCEPT !.off = @ + 1, !.nRec = @ + 1, !.inJournal = @ \cup {p}],
     m |-> [w.m EXCEPT !.needSync = @ \cup {p}],
     s |-> w.s]

(* pager_write of page p, which gets the content v. *)
PageWritten(w, p, v) ==
    LET o == IF w.s = WRITER_LOCKED THEN JournalOpened(w) ELSE w
        a == IF MustJournal(o, p) THEN PageJournalled(o, p) ELSE o
        appended == p > a.t.orig /\ a.s # WRITER_DBMOD
    IN  [j |-> a.j,
         t |-> a.t,
         m |-> [a.m EXCEPT !.cache = Put(@, p, v),
                           !.dirty = @ \cup {p},
                           !.needSync = IF appended THEN @ \cup {p} ELSE @,
                           !.dbSize = Larger(@, p)],
         s |-> a.s]

DoWork(c, w) ==
    /\ JournalIs(w.j)
    /\ jSame' = (jSame /\ jrnl.exists)      \* a file just created is not on the disk
    /\ SetMem(c, w.m)
    /\ SetState(c, w.s)
    /\ UNCHANGED <<db, dbDisk, jDisk, eLock, txns, setting>>

Write(c, p) ==
    /\ pc[c] = "idle" /\ eState[c] \in WRITER_LOCKED .. WRITER_DBMOD
    /\ (p \in Cached(c) \ mem[c].dirty /\ p <= mem[c].dbSize) \/ p = mem[c].dbSize + 1
    /\ LET w == PageWritten(Work(c), p, IF p = 1 THEN mem[c].cache[1] ELSE tx[c].stamp)
       IN  DoWork(c, w) /\ SetTx(c, w.t)
    /\ UNCHANGED pc

SpillNeedsSync_Flag(c, p) == FALSE                                      \* mutant

(* A page with PGHDR_NEED_SYNC, or the first write to the file. *)
SpillNeedsSync(c, p) == p \in mem[c].needSync \/ eState[c] = WRITER_CACHEMOD

(* pagerStress: the cache is full, and a dirty page has to go.  Page 1 is  *)
(* held by the B-tree layer.                                               *)
Spill(c, p) ==
    /\ pc[c] = "idle" /\ eState[c] \in {WRITER_CACHEMOD, WRITER_DBMOD}
    /\ p \in mem[c].dirty \ {1}
    /\ SetTx(c, [tx[c] EXCEPT !.job = "spill", !.left = p])
    /\ Goto(c, IF SpillNeedsSync(c, p) THEN "sync" ELSE "write")
    /\ UNCHANGED <<files, eState, eLock, mem, txns, setting>>

CounterDone(c) == tx[c].changeCountDone

(* sqlite3PagerCommitPhaseOne: page 1 is journalled and gets the next      *)
(* change counter, then the journal is synced and the pages are written.   *)
CommitPhaseOne(c) ==
    /\ pc[c] = "idle" /\ eState[c] \in {WRITER_CACHEMOD, WRITER_DBMOD}
    /\ LET w == IF CounterDone(c) THEN Work(c)
                ELSE PageWritten(Work(c), 1, mem[c].fileVers + 1)
       IN  DoWork(c, w) /\ SetTx(c, [w.t EXCEPT !.changeCountDone = TRUE, !.job = "commit"])
    /\ Goto(c, "sync")

(* Nothing was written: there is nothing to make durable. *)
CommitNothing(c) ==
    /\ pc[c] = "idle" /\ eState[c] = WRITER_LOCKED
    /\ Goto(c, "unlock")
    /\ UNCHANGED <<files, eState, eLock, mem, tx, txns, setting>>
-----------------------------------------------------------------------------
(* syncJournal and pager_write_pagelist, for a spill and for a commit.     *)

(* The PENDING lock is taken first, and kept whatever follows. *)
AskExclusive(c) ==
    /\ pc[c] = "sync"
    /\ Locks!AcquirePending(c)
    /\ UNCHANGED <<files, eState, pc, mem, tx, txns, setting>>

GetExclusive(c) ==
    /\ pc[c] = "sync"
    /\ Locks!AcquireExclusive(c) \/ (eLock[c] = EXCLUSIVE_LOCK /\ UNCHANGED eLock)
    /\ Goto(c, "zeroNext")
    /\ UNCHANGED <<files, eState, mem, tx, txns, setting>>

(* SQLITE_BUSY: a spill is skipped, a commit may be tried again. *)
Busy(c) ==
    /\ pc[c] = "sync" /\ eLock[c] # EXCLUSIVE_LOCK
    /\ \E d \in Others(c) : eLock[d] # NO_LOCK
    /\ Goto(c, "idle")
    /\ SetTx(c, [tx[c] EXCEPT !.job = "none", !.left = 0])
    /\ UNCHANGED <<files, eState, eLock, mem, txns, setting>>

StaleHeaderFollows_No(j, n) == FALSE                                    \* mutant

(* A header of an older transaction stands where the next one would. *)
StaleHeaderFollows(j, n) == n < Len(j) /\ j[n + 1].kind = "hdr"

NextZeroed(c) ==
    LET n == tx[c].off
    IN  IF StaleHeaderFollows(jrnl.data, n) THEN [jrnl.data EXCEPT ![n + 1].kind = "zero"]
                                            ELSE jrnl.data

(* The stale header loses its magic; in FULL mode the journal is synced    *)
(* before nRec is written.                                                 *)
ZeroNext(c) ==
    /\ pc[c] = "zeroNext" /\ ~noSync
    /\ JournalIs(NextZeroed(c))
    /\ IF fullSync THEN JournalSynced ELSE UNCHANGED <<jDisk, jSame>>
    /\ Goto(c, "count")
    /\ UNCHANGED <<db, dbDisk, eState, eLock, mem, tx, txns, setting>>

(* The header gets its magic and the number of records that follow it. *)
Counted(c) ==
    [jrnl.data EXCEPT ![tx[c].hdr + 1] = Header(TRUE, tx[c].nRec, tx[c])]

WriteCount(c) ==
    /\ pc[c] = "count"
    /\ JournalIs(Counted(c))
    /\ Goto(c, "journalSync")
    /\ UNCHANGED <<db, dbDisk, jDisk, jSame, eState, eLock, mem, tx, txns, setting>>

(* Now every original page that the file is about to lose is safe.         *)
DbMayChange(c) ==
    /\ SetState(c, WRITER_DBMOD)
    /\ SetMem(c, [mem[c] EXCEPT !.needSync = {}])
    /\ Goto(c, "write")

SkipSync(c) ==
    /\ pc[c] = "zeroNext" /\ noSync
    /\ DbMayChange(c)
    /\ UNCHANGED <<files, eLock, tx, txns, setting>>

SyncsBeforeDb_No == FALSE                                               \* mutant

(* In all modes but OFF the journal is on the disk before the file changes. *)
SyncsBeforeDb == TRUE

(* A spill starts a new segment with a header of its own. *)
SyncJournal(c) ==
    /\ pc[c] = "journalSync"
    /\ IF SyncsBeforeDb THEN jDisk' = jrnl /\ jSame' = TRUE ELSE UNCHANGED <<jDisk, jSame>>
    /\ LET n == tx[c].off
       IN  IF tx[c].job = "spill"
           THEN /\ JournalIs(Put(jrnl.data, n + 1, Header(FALSE, 0, tx[c])))
                /\ SetTx(c, [tx[c] EXCEPT !.hdr = n, !.off = n + 1, !.nRec = 0])
           ELSE /\ SetTx(c, [tx[c] EXCEPT !.hdr = n])
                /\ UNCHANGED jrnl
    /\ DbMayChange(c)
    /\ UNCHANGED <<db, dbDisk, eLock, txns, setting>>

(* A hole in the file reads as zeroes. *)
Stored(p, v) ==
    [q \in 1 .. Larger(Len(db), p) |-> IF q = p THEN v ELSE IF q <= Len(db) THEN db[q] ELSE 0]

(* The page that the spill or the commit writes next. *)
NextOut(c) ==
    IF tx[c].job = "spill" THEN tx[c].left
    ELSE CHOOSE p \in mem[c].dirty : \A q \in mem[c].dirty : p <= q

(* pager_write_changecounter, for page 1. *)
ContentOut(c, p) == IF p = 1 THEN mem[c].fileVers + 1 ELSE mem[c].cache[p]

PageOut(c) ==
    /\ pc[c] = "write"
    /\ tx[c].job = "spill" \/ mem[c].dirty # {}
    /\ LET p == NextOut(c)
           v == ContentOut(c, p)
       IN  /\ db' = Stored(p, v)
           /\ SetMem(c, [mem[c] EXCEPT !.cache = Put(@, p, v),
                                       !.dirty = @ \ {p},
                                       !.fileVers = IF p = 1 THEN v ELSE @])
    /\ IF tx[c].job = "spill"
       THEN Goto(c, "idle") /\ SetTx(c, [tx[c] EXCEPT !.job = "none", !.left = 0])
       ELSE UNCHANGED <<pc, tx>>
    /\ UNCHANGED <<dbDisk, jrnl, jDisk, jSame, eState, eLock, txns, setting>>

DbIsSynced == ~noSync

SyncDb(c) ==
    /\ pc[c] = "write" /\ tx[c].job = "commit" /\ mem[c].dirty = {}
    /\ IF DbIsSynced THEN dbDisk' = db ELSE UNCHANGED dbDisk
    /\ SetState(c, WRITER_FINISHED) /\ Goto(c, "idle")
    /\ SetTx(c, [tx[c] EXCEPT !.job = "none"])
    /\ UNCHANGED <<db, jrnl, jDisk, jSame, eLock, mem, txns, setting>>

-----------------------------------------------------------------------------
(* pager_end_transaction.                                                  *)

UnlinkIsSynced_No == FALSE                                              \* mutant

UnlinkIsSynced == extraSync

TruncationIsSynced == fullSync

(* The journal is finalized: it cannot be rolled back any more.  In        *)
(* TRUNCATE and PERSIST mode a journal of which nothing was read or        *)
(* written (journalOff is zero) is left alone.                             *)
JournalFinalized(c) ==
    CASE JournalMode = "delete" ->
            /\ jrnl' = NoJournal
            /\ IF UnlinkIsSynced THEN JournalSynced ELSE jSame' = FALSE /\ UNCHANGED jDisk
      [] JournalMode # "delete" /\ tx[c].off = 0 ->
            UNCHANGED <<jrnl, jDisk, jSame>>
      [] JournalMode = "truncate" /\ tx[c].off > 0 ->
            /\ JournalIs(<<>>)
            /\ IF TruncationIsSynced THEN JournalSynced ELSE UNCHANGED <<jDisk, jSame>>
      [] JournalMode = "persist" /\ tx[c].off > 0 ->
            /\ JournalIs(Put(jrnl.data, 1, Junk))
            /\ IF noSync THEN UNCHANGED <<jDisk, jSame>> ELSE JournalSynced

(* The pages are clean, and none is beyond the end. *)
Cleaned(m) ==
    [m EXCEPT !.dirty = {}, !.needSync = {}, !.cache = Without(@, {p \in DOMAIN @ : p > m.dbSize})]

(* sqlite3PagerCommitPhaseTwo *)
CommitPhaseTwo(c) ==
    /\ pc[c] = "idle" /\ eState[c] = WRITER_FINISHED
    /\ JournalFinalized(c)
    /\ SetMem(c, Cleaned(mem[c]))
    /\ Goto(c, "unlock")
    /\ UNCHANGED <<db, dbDisk, eState, eLock, tx, txns, setting>>

(* Back to SHARED.  Whoever rolled a hot journal back goes on to read. *)
Unlock(c) ==
    /\ pc[c] = "unlock"
    /\ SetLock(c, SHARED_LOCK)
    /\ IF eState[c] = OPEN THEN UNCHANGED eState ELSE SetState(c, READER)
    /\ Goto(c, IF eState[c] = OPEN THEN "version" ELSE "idle")
    /\ SetTx(c, NoTx)
    /\ UNCHANGED <<files, mem, txns, setting>>

-----------------------------------------------------------------------------
(* pager_playback, of a hot journal (isHot, in state OPEN) and of the      *)
(* connection's own (sqlite3PagerRollback).                                *)

isHot(c) == eState[c] = OPEN

(* The roll-back may write to the file. *)
RestoresDb(c) == isHot(c) \/ eState[c] >= WRITER_DBMOD

Rollback(c) ==
    /\ pc[c] \in {"idle", "failed"}
    /\ eState[c] \in WRITER_LOCKED .. WRITER_FINISHED
    /\ IF eState[c] = WRITER_LOCKED
       THEN Goto(c, "unlock") /\ UNCHANGED tx
       ELSE Goto(c, "header") /\ SetTx(c, [tx[c] EXCEPT !.off = 0, !.job = "rollback"])
    /\ UNCHANGED <<files, eState, eLock, mem, txns, setting>>

(* readJournalHdr: the magic is not looked at where this connection last   *)
(* wrote a header.                                                         *)
HeaderReadable(c) ==
    LET n == tx[c].off
    IN  /\ n < Len(jrnl.data)
        /\ (isHot(c) \/ n # tx[c].hdr) => jrnl.data[n + 1].kind = "hdr"

RecordsAfter_Raw(c, h) == h.val                                         \* mutant

(* How many records follow the header h just read. *)
RecordsAfter(c, h) ==
    LET rest == Len(jrnl.data) - (tx[c].off + 1)
    IN  IF h.val = ToEndOfFile THEN rest
        ELSE IF h.val = 0 /\ ~isHot(c) /\ tx[c].hdr = tx[c].off THEN rest
        ELSE h.val

(* What readJournalHdr makes of sector e.  The bytes of a record, read as a *)
(* header, are some large nRec and a checksum no record agrees with.       *)
AsHeader(e) ==
    IF e.kind = "rec" THEN [e EXCEPT !.val = ToEndOfFile, !.nonce = 0] ELSE e

(* pager_truncate *)
Resized(n) == [p \in 1 .. n |-> IF p <= Len(db) THEN db[p] ELSE 0]

ReadHeader(c) ==
    /\ pc[c] = "header"
    /\ IF HeaderReadable(c)
       THEN LET h == AsHeader(jrnl.data[tx[c].off + 1])
                first == tx[c].off = 0
            IN  /\ SetTx(c, [tx[c] EXCEPT !.off = @ + 1, !.nonce = h.nonce,
                                          !.left = RecordsAfter(c, h)])
                /\ db' = IF first /\ RestoresDb(c) THEN Resized(h.pg) ELSE db
                /\ SetMem(c, IF first THEN [mem[c] EXCEPT !.dbSize = h.pg] ELSE mem[c])
                /\ Goto(c, "record")
       ELSE Goto(c, "restored") /\ UNCHANGED <<db, mem, tx>>
    /\ UNCHANGED <<dbDisk, jrnl, jDisk, jSame, eState, eLock, txns, setting>>

(* A record of this very segment: the checksum starts from the nonce. *)
ChecksumOK(c, e) == e.kind = "rec" /\ e.nonce = tx[c].nonce

(* The record just read is in a segment that has been synced. *)
IsSynced(c) == noSync \/ tx[c].off + 1 <= tx[c].hdr

(* pager_playback_one_page, for a record of a page of the database.        *)
Restore(c, e) ==
    LET m == IF isHot(c) THEN Emptied(mem[c]) ELSE mem[c]
        held == e.pg \in DOMAIN m.cache
    IN  /\ db' = IF RestoresDb(c) /\ IsSynced(c) THEN Stored(e.pg, e.val) ELSE db
        /\ SetMem(c, [m EXCEPT !.cache = IF held THEN Put(@, e.pg, e.val) ELSE @,
                               !.fileVers = IF held /\ e.pg = 1 THEN e.val ELSE @])

(* Another record is due and the file has one. *)
RecordFollows(c) == tx[c].left > 0 /\ tx[c].off < Len(jrnl.data)

NextRecord(c) == jrnl.data[tx[c].off + 1]

(* A record of a page that the database does not have is passed over. *)
Beyond(c, e) == e.kind = "rec" /\ e.pg > mem[c].dbSize

ReadRecord(c) ==
    /\ pc[c] = "record"
    /\ \/ /\ tx[c].left = 0
          /\ Goto(c, "header")
          /\ UNCHANGED <<db, mem, tx>>
       \/ /\ tx[c].left > 0
          /\ RecordFollows(c) => ~Beyond(c, NextRecord(c)) /\ ~ChecksumOK(c, NextRecord(c))
          /\ Goto(c, "restored")
          /\ UNCHANGED <<db, mem, tx>>
       \/ /\ RecordFollows(c)
          /\ LET e == NextRecord(c)
             IN  \/ Beyond(c, e) /\ UNCHANGED <<db, mem>>
                 \/ ~Beyond(c, e) /\ ChecksumOK(c, e) /\ Restore(c, e)
          /\ SetTx(c, [tx[c] EXCEPT !.off = @ + 1, !.left = @ - 1])
          /\ UNCHANGED pc
    /\ UNCHANGED <<dbDisk, jrnl, jDisk, jSame, eState, eLock, txns, setting>>

(* The restored file is synced before the journal goes. *)
SyncRestored(c) ==
    /\ pc[c] = "restored"
    /\ IF RestoresDb(c) /\ DbIsSynced THEN dbDisk' = db ELSE UNCHANGED dbDisk
    /\ Goto(c, "final")
    /\ UNCHANGED <<db, jrnl, jDisk, jSame, eState, eLock, mem, tx, txns, setting>>

FinishPlayback(c) ==
    /\ pc[c] = "final"
    /\ JournalFinalized(c)
    /\ SetMem(c, Cleaned(mem[c]))
    /\ Goto(c, "unlock")
    /\ UNCHANGED <<db, dbDisk, eState, eLock, tx, txns, setting>>

-----------------------------------------------------------------------------
(* Failures.                                                               *)

(* pager_unlock with an error set. *)
AfterError(m) == Emptied(m)

(* pager_error: the cache is not to be trusted any more. *)
EnterError(c) == SetState(c, ERROR) /\ Goto(c, "idle")

(* A commit or a spill meets an I/O error.  The statement layer answers a  *)
(* failed commit with a rollback; a failed spill is an ERROR at once.  A   *)
(* page that could not be written is there, in part, or not at all.        *)
WorkFails(c) ==
    /\ IoFails
    /\ pc[c] \in {"zeroNext", "count", "journalSync", "write"}
    /\ \/ UNCHANGED <<db, jrnl>>
       \/ pc[c] = "zeroNext" /\ ~noSync /\ JournalIs(NextZeroed(c)) /\ UNCHANGED db
       \/ pc[c] = "count" /\ JournalIs(Counted(c)) /\ UNCHANGED db
       \/ /\ pc[c] = "write"
          /\ tx[c].job = "spill" \/ mem[c].dirty # {}
          /\ LET p == NextOut(c)
             IN  \E v \in {Torn, ContentOut(c, p)} : db' = Stored(p, v)
          /\ UNCHANGED jrnl
    /\ IF tx[c].job = "spill" THEN EnterError(c) ELSE Goto(c, "failed") /\ UNCHANGED eState
    /\ UNCHANGED <<dbDisk, jDisk, jSame, eLock, mem, tx, txns, setting>>

(* The journal could not be finalized, or its new state not be synced.     *)
JournalHalfFinalized(c) ==
    \/ UNCHANGED <<jrnl, jSame>>
    \/ /\ JournalMode = "delete" /\ extraSync
       /\ jrnl' = NoJournal /\ jSame' = FALSE
    \/ /\ JournalMode = "truncate" /\ fullSync /\ tx[c].off > 0
       /\ JournalIs(<<>>) /\ UNCHANGED jSame
    \/ /\ JournalMode = "persist" /\ ~noSync /\ tx[c].off > 0
       /\ JournalIs(Put(jrnl.data, 1, Junk)) /\ UNCHANGED jSame

(* The lock goes down to SHARED all the same. *)
CommitPhaseTwoFails(c) ==
    /\ IoFails
    /\ pc[c] = "idle" /\ eState[c] = WRITER_FINISHED
    /\ JournalHalfFinalized(c)
    /\ Goto(c, "unlockFailed")
    /\ UNCHANGED <<db, dbDisk, jDisk, eState, eLock, mem, tx, txns, setting>>

UnlockFailed(c) ==
    /\ pc[c] = "unlockFailed"
    /\ SetLock(c, SHARED_LOCK)
    /\ EnterError(c)
    /\ UNCHANGED <<files, mem, tx, txns, setting>>

(* A failing playback of a hot journal gives the lock back, one of the own *)
(* journal leaves it to the next reader.  A page may be restored in part.  *)
PlaybackFails(c) ==
    /\ IoFails
    /\ pc[c] \in {"hotOpen", "header", "record", "restored"}
    /\ \/ UNCHANGED db
       \/ /\ pc[c] = "record" /\ RecordFollows(c) /\ RestoresDb(c) /\ IsSynced(c)
          /\ LET e == NextRecord(c)
             IN  /\ ~Beyond(c, e) /\ ChecksumOK(c, e)
                 /\ \E v \in {Torn, e.val} : db' = Stored(e.pg, v)
    /\ IF isHot(c) THEN Unlocked(c, Emptied(mem[c]))
                   ELSE EnterError(c) /\ UNCHANGED <<eLock, mem, tx>>
    /\ UNCHANGED <<dbDisk, jrnl, jDisk, jSame, txns, setting>>

(* The journal is played back, but cannot be finalized. *)
FinishPlaybackFails(c) ==
    /\ IoFails
    /\ pc[c] = "final"
    /\ JournalHalfFinalized(c)
    /\ IF isHot(c) THEN Unlocked(c, Emptied(mem[c]))
                   ELSE Goto(c, "unlockFailed") /\ UNCHANGED <<eState, eLock, mem, tx>>
    /\ UNCHANGED <<db, dbDisk, jDisk, txns, setting>>

(* pagerUnlockIfUnused in state ERROR: no roll-back is tried; the journal  *)
(* is hot for whoever locks the file next.                                 *)
LeaveError(c) ==
    /\ pc[c] = "idle" /\ eState[c] = ERROR
    /\ Unlocked(c, AfterError(mem[c]))
    /\ UNCHANGED <<files, txns, setting>>

Dead(S) ==
    /\ eState' = [c \in Conns |-> IF c \in S THEN OPEN ELSE eState[c]]
    /\ eLock' = [c \in Conns |-> IF c \in S THEN NO_LOCK ELSE eLock[c]]
    /\ pc' = [c \in Conns |-> IF c \in S THEN "idle" ELSE pc[c]]
    /\ mem' = [c \in Conns |-> IF c \in S THEN EmptyCache ELSE mem[c]]
    /\ tx' = [c \in Conns |-> IF c \in S THEN NoTx ELSE tx[c]]

(* The process dies; the files stay as the system sees them. *)
ProcessDeath(c) ==
    /\ ProcessesDie
    /\ Dead({c})
    /\ UNCHANGED <<files, txns, setting>>

(* The machine dies.  What was not synced is lost, kept or torn, sector by *)
(* sector; an unlinked journal may be back, a new one may be gone.         *)
PowerFailure ==
    /\ PowerFails
    /\ Dead(Conns)
    /\ \E d \in Wrecks(db, dbDisk, Torn) : db' = d /\ dbDisk' = d
    /\ \/ jrnl' = jDisk
       \/ ~jrnl.exists /\ jrnl' = NoJournal
       \/ /\ jrnl.exists
          /\ \E d \in Wrecks(jrnl.data, IF jSame THEN jDisk.data ELSE <<>>, Junk) : JournalIs(d)
    /\ jDisk' = jrnl' /\ jSame' = TRUE
    /\ UNCHANGED <<txns, setting>>

-----------------------------------------------------------------------------
ReadStep(c) ==
    \/ LockShared(c) \/ Access(c) \/ CheckReserved(c) \/ FirstByte(c)
    \/ HotLock(c) \/ HotOpen(c) \/ Version(c) \/ EndRead(c)
    \/ \E p \in Pages : Fetch(c, p) \/ Evict(c, p)

WriteStep(c) ==
    \/ Begin(c) \/ CommitPhaseOne(c) \/ CommitNothing(c)
    \/ \E p \in Pages : Write(c, p) \/ Spill(c, p)
    \/ AskExclusive(c) \/ GetExclusive(c) \/ Busy(c)
    \/ ZeroNext(c) \/ WriteCount(c) \/ SkipSync(c) \/ SyncJournal(c)
    \/ PageOut(c) \/ SyncDb(c) \/ CommitPhaseTwo(c) \/ Unlock(c)

RollbackStep(c) ==
    \/ Rollback(c) \/ ReadHeader(c) \/ ReadRecord(c) \/ SyncRestored(c) \/ FinishPlayback(c)

FailStep(c) ==
    \/ WorkFails(c) \/ CommitPhaseTwoFails(c) \/ UnlockFailed(c)
    \/ PlaybackFails(c) \/ FinishPlaybackFails(c) \/ LeaveError(c) \/ ProcessDeath(c)

Next ==
    \/ \E c \in Conns : ReadStep(c) \/ WriteStep(c) \/ RollbackStep(c) \/ FailStep(c)
    \/ PowerFailure

Spec == Init /\ [][Next]_vars

-----------------------------------------------------------------------------
Contents == Nat \cup {Torn}

Sector == [kind : {"hdr", "zero", "rec"}, pg : Nat, val : Nat \cup {ToEndOfFile}, nonce : Nat]

JournalFile == [exists : BOOLEAN, data : Seq(Sector)]

Steps ==
    {"idle", "access", "reserved", "firstByte", "hotLock", "hotOpen", "version",
     "sync", "zeroNext", "count", "journalSync", "write", "unlock",
     "header", "record", "restored", "final", "failed", "unlockFailed"}

CacheOK(m) ==
    /\ m = [cache |-> m.cache, dirty |-> m.dirty, needSync |-> m.needSync,
            fileVers |-> m.fileVers, dbSize |-> m.dbSize]
    /\ DOMAIN m.cache \subseteq Pages
    /\ \A p \in DOMAIN m.cache : m.cache[p] \in Contents
    /\ m.dirty \subseteq DOMAIN m.cache /\ m.needSync \subseteq Pages
    /\ m.fileVers \in Contents /\ m.dbSize \in 0 .. setting.pages

TxType ==
    [orig : Nat, stamp : Nat, inJournal : SUBSET Pages, changeCountDone : BOOLEAN,
     off : Nat, hdr : Nat, nRec : Nat, left : Nat, nonce : Nat,
     job : {"none", "spill", "commit", "rollback", "hot"}]

(* The types of the variables: no count goes below zero, no page beyond    *)
(* the bound is cached.                                                    *)
TypeOK ==
    /\ db \in Seq(Contents) /\ dbDisk \in Seq(Contents)
    /\ jrnl \in JournalFile /\ jDisk \in JournalFile /\ jSame \in BOOLEAN
    /\ eState \in [Conns -> OPEN .. ERROR]
    /\ eLock \in [Conns -> Locks!Levels]
    /\ pc \in [Conns -> Steps]
    /\ DOMAIN mem = Conns /\ \A c \in Conns : CacheOK(mem[c])
    /\ tx \in [Conns -> TxType]
    /\ txns \in Nat
    /\ setting \in Settings

(* c is where the next step may write to the database file.                *)
DbInHand(c) ==
    \/ eState[c] \in {WRITER_DBMOD, WRITER_FINISHED}
    \/ pc[c] \in {"zeroNext", "count", "journalSync", "write"}
    \/ isHot(c) /\ pc[c] \in {"hotOpen", "header", "record", "restored", "final", "unlock"}

(* c is where the next step may write to the journal.                      *)
JournalInHand(c) == DbInHand(c) \/ eState[c] \in WRITER_LOCKED .. WRITER_FINISHED

(* Lock levels are compatible, and go with the state of each pager: the    *)
(* state diagram of pager.c.  A transaction reads under SHARED, a writer   *)
(* has RESERVED before it makes a journal, and nobody, be it a spill, a    *)
(* commit, a roll-back or a recovery, comes near the file below EXCLUSIVE. *)
LocksFitStates ==
    /\ Locks!LocksCompatible
    /\ \A c \in Conns :
          /\ pc[c] # "idle" \/ eState[c] # OPEN => eLock[c] >= SHARED_LOCK
          /\ JournalInHand(c) => eLock[c] >= RESERVED_LOCK
          /\ DbInHand(c) => eLock[c] = EXCLUSIVE_LOCK

MachineIsDown == \A c \in Conns : eLock'[c] = NO_LOCK

(* The database file changes only while one connection has it and no other *)
(* so much as reads it; the journal changes only in the hands of the one   *)
(* connection that has at least the RESERVED lock.                         *)
FilesChangeInOneHand ==
    [][/\ db' # db => \/ MachineIsDown
                      \/ \E c \in Conns : /\ eLock[c] = EXCLUSIVE_LOCK
                                          /\ \A d \in Others(c) : eLock[d] = NO_LOCK
       /\ jrnl' # jrnl => \/ MachineIsDown
                          \/ \E c \in Conns : /\ eLock[c] >= RESERVED_LOCK
                                              /\ \A d \in Others(c) : eLock[d] <= SHARED_LOCK]_vars
=============================================================================
