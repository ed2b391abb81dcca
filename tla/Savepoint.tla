----------------------------- MODULE Savepoint ------------------------------
(***************************************************************************)
(* Savepoints of a write transaction (pager.c: aSavepoint[], sub-journal,  *)
(* pagerPlaybackSavepoint) with what they must get along with: the main    *)
(* journal or the write-ahead log, pages spilled and recycled by the page  *)
(* cache, and the free-list tricks of btree.c, which neither writes nor    *)
(* reads nor journals pages whose content nobody needs.                    *)
(*                                                                         *)
(* A connection in its write transaction is alone with the database; locks *)
(* and failures of the file system are in Pager and Wal.  A call is one    *)
(* step.  Page 1 stands for the header and the free-list trunk: it holds   *)
(* the size of the database and its free leaf pages, is always in the      *)
(* cache and in use, and hence never spilled.  Another page's content is   *)
(* the number of the write that made it.  An offset in the journal counts  *)
(* the headers and records before it.                                      *)
(***************************************************************************)
EXTENDS Integers, Sequences, FiniteSets, SequencesExt

CONSTANTS
    InitSize, InitFree, \* pages at the start, those of them that are free
    MaxPage,            \* bound: the database grows no larger
    MaxSavepoints,      \* bound: savepoints open at a time
    Settings            \* how the journal is kept, how much may happen

ASSUME SavepointAssumption ==
    /\ MaxPage \in Nat /\ InitSize \in 1 .. MaxPage
    /\ InitFree \subseteq 2 .. InitSize
    /\ MaxSavepoints \in Nat
    /\ Settings \subseteq [journal : {"synced", "unsynced", "wal"},
                           ops : Nat,       \* bound: calls that change something
                           txns : Nat]      \* bound: write transactions

VARIABLES
    db,         \* the database file
    wal,        \* the log file, with the shared header of the wal-index
    pager,      \* struct Pager, with its cache, journals and struct Wal
    ops, txns,  \* calls and transactions so far
    setting     \* what was chosen of Settings

vars == <<db, wal, pager, ops, txns, setting>>

useWal == setting.journal = "wal"
noSync == setting.journal = "unsynced"

-----------------------------------------------------------------------------
(* Pages, cached pages, journal entries, frames.                           *)

Content(n) == [n |-> n, free |-> {}]
Root(size, free) == [n |-> size, free |-> free]
Zeroed == Content(0)

InitPage(p) == IF p = 1 THEN Root(InitSize, InitFree) ELSE Content(p)

Clean(val) == [val |-> val, dirty |-> FALSE, needSync |-> FALSE,
               writeable |-> FALSE, dontWrite |-> FALSE]

Record(p, val) == [pg |-> p, val |-> val]
Header == Record(0, Zeroed)

(* A frame with the checksum it was given, which stands for what it sums   *)
(* up: the header of the log and all frames up to its own.                 *)
Frame(p, val, size, before) ==
    [pg |-> p, val |-> val, size |-> size, sum |-> Append(before, <<p, val, size>>)]

PageOf(file, p) == IF p <= Len(file) THEN file[p] ELSE Zeroed

(* The last of the first n frames that holds page p, or zero. *)
LastFrame(frames, p, n) ==
    LET last[k \in Nat] == IF k = 0 \/ frames[k].pg = p THEN k ELSE last[k - 1]
    IN  last[n]

(* At the start the log holds one commit, which has been copied back.      *)
InitFrames == <<Frame(1, InitPage(1), InitSize, <<0>>)>>

(* What an idle connection starts a transaction with. *)
NoTx ==
    [eState |-> "READER", dbSize |-> InitSize, dbOrigSize |-> InitSize, dbFileSize |-> InitSize,
     cache |-> <<Clean(InitPage(1))>>,          \* the pages in the cache
     journal |-> <<>>, journalHdr |-> 0, pInJournal |-> {},
     pHasContent |-> {}, hasContentSize |-> 0,  \* size zero: no bit vector
     aSavepoint |-> <<>>, subjournal |-> <<>>,
     pWal |-> [mxFrame |-> 1, aFrameCksum |-> InitFrames[1].sum, nCkpt |-> 0, iReCksum |-> 0]]

Init ==
    /\ db = [p \in 1 .. InitSize |-> InitPage(p)]
    /\ wal = [nCkpt |-> 0, frames |-> InitFrames, mxFrame |-> 1, sum |-> InitFrames[1].sum,
              nBackfill |-> 1]
    /\ pager = NoTx
    /\ ops = 0 /\ txns = 0
    /\ setting \in Settings

-----------------------------------------------------------------------------
(* Functions from a pager state s to the next, as the code calls them.     *)
(* Then(x, Op) is Op(x), of an x that is worked out once.                  *)

Then(x, Op(_)) == CHOOSE y \in {Op(v) : v \in {x}} : TRUE

SetPage(s, p, page) ==
    [s EXCEPT !.cache = [q \in DOMAIN s.cache \cup {p} |-> IF q = p THEN page ELSE s.cache[q]]]

Cached(s, p) == p \in DOMAIN s.cache

addToSavepointBitvecs(s, p) ==
    [s EXCEPT !.aSavepoint =
        [i \in DOMAIN s.aSavepoint |->
            IF p <= s.aSavepoint[i].nOrig
            THEN [s.aSavepoint[i] EXCEPT !.pInSavepoint = @ \cup {p}]
            ELSE s.aSavepoint[i]]]

(* readDbPage, getPageNormal *)
readDbPage(s, file, log, p) ==
    LET f == IF useWal THEN LastFrame(log.frames, p, s.pWal.mxFrame) ELSE 0
    IN  IF f > 0 THEN log.frames[f].val ELSE PageOf(file, p)

Get(s, p) ==
    IF Cached(s, p) THEN s
    ELSE SetPage(s, p, Clean(IF p > s.dbSize THEN Zeroed ELSE readDbPage(s, db, wal, p)))

GetNoContent(s, p) ==
    LET marked == IF p <= s.dbOrigSize /\ ~useWal THEN [s EXCEPT !.pInJournal = @ \cup {p}] ELSE s
        page == IF Cached(s, p) THEN [s.cache[p] EXCEPT !.val = Zeroed] ELSE Clean(Zeroed)
    IN  SetPage(addToSavepointBitvecs(marked, p), p, page)

NoteHeader_Not(sp, offset) == sp   \* mutant

(* A header goes to the end of the journal; savepoints opened since the    *)
(* header before it note where their first segment ends.                   *)
NoteHeader(sp, offset) == IF sp.iHdrOffset = 0 THEN [sp EXCEPT !.iHdrOffset = offset] ELSE sp

writeJournalHdr(s) ==
    [s EXCEPT !.journalHdr = Len(s.journal),
              !.journal = Append(s.journal, Header),
              !.aSavepoint = [i \in DOMAIN s.aSavepoint |->
                                 NoteHeader(s.aSavepoint[i], Len(s.journal))]]

pager_open_journal(s) ==
    LET opened == [s EXCEPT !.eState = "CACHEMOD"]
    IN  IF s.eState # "LOCKED" THEN s
        ELSE IF useWal THEN opened
        ELSE writeJournalHdr([opened EXCEPT !.pInJournal = {}, !.journal = <<>>])

AddPageToRollbackJournal_Not(s, p) ==   \* mutant
    addToSavepointBitvecs(
        [s EXCEPT !.journal = Append(@, Record(p, s.cache[p].val)), !.cache[p].needSync = TRUE], p)

AddPageToRollbackJournal(s, p) ==
    addToSavepointBitvecs(
        [s EXCEPT !.journal = Append(@, Record(p, s.cache[p].val)),
                  !.pInJournal = @ \cup {p},
                  !.cache[p].needSync = TRUE], p)

(* The page is needed in the sub-journal by some savepoint; those inside   *)
(* of it must not cut the record off when they are released.               *)
Requiring(s, p) ==
    {i \in DOMAIN s.aSavepoint :
        p <= s.aSavepoint[i].nOrig /\ p \notin s.aSavepoint[i].pInSavepoint}

KeptByOuter_Not(s, first) == s.aSavepoint   \* mutant

KeptByOuter(s, first) ==
    [i \in DOMAIN s.aSavepoint |->
        IF i > first THEN [s.aSavepoint[i] EXCEPT !.bTruncateOnRelease = FALSE]
        ELSE s.aSavepoint[i]]

subjournalPageIfRequired(s, p) ==
    IF Requiring(s, p) = {} THEN s
    ELSE addToSavepointBitvecs(
            [s EXCEPT !.aSavepoint = KeptByOuter(s, Min(Requiring(s, p))),
                      !.subjournal = Append(@, Record(p, s.cache[p].val))], p)

MakeDirty(s, p) == [s EXCEPT !.cache[p].dirty = TRUE, !.cache[p].dontWrite = FALSE]

Journalled(s, p) ==
    IF useWal \/ p \in s.pInJournal THEN s
    ELSE IF p <= s.dbOrigSize THEN AddPageToRollbackJournal(s, p)
    ELSE IF s.eState # "DBMOD" THEN [s EXCEPT !.cache[p].needSync = TRUE]
    ELSE s

Writeable(s, p) == [s EXCEPT !.cache[p].writeable = TRUE]

Extended(s, p) == [s EXCEPT !.dbSize = IF @ < p THEN p ELSE @]

pager_write(s, p) ==
    LET open(u) == MakeDirty(pager_open_journal(u), p)
        journal(u) == Journalled(u, p)
        keep(u) == subjournalPageIfRequired(Writeable(u, p), p)
        extend(u) == Extended(u, p)
    IN  Then(Then(Then(Then(s, open), journal), keep), extend)

AlreadyWriteable(s, p) == s.cache[p].writeable /\ s.dbSize >= p

(* sqlite3PagerWrite, and the change of the page that it permits *)
Write(s, p, val) ==
    LET write(u) ==
            IF AlreadyWriteable(u, p) THEN subjournalPageIfRequired(u, p) ELSE pager_write(u, p)
    IN  [Then(s, write) EXCEPT !.cache[p].val = val]

CanDropChanges(s, p) == Cached(s, p) /\ s.cache[p].dirty /\ s.aSavepoint = <<>>

DontWrite(s, p) ==
    IF CanDropChanges(s, p)
    THEN [s EXCEPT !.cache[p].dontWrite = TRUE, !.cache[p].writeable = FALSE]
    ELSE s

(* The bit vector of the pages that were freed in this transaction has     *)
(* room for the pages there were when it was made.                         *)
SetHasContent(s, p) ==
    LET size == IF s.hasContentSize = 0 THEN s.dbSize ELSE s.hasContentSize
    IN  [s EXCEPT !.hasContentSize = size,
                  !.pHasContent = IF p <= size THEN @ \cup {p} ELSE @]

GetHasContent(s, p) == s.hasContentSize > 0 /\ (p > s.hasContentSize \/ p \in s.pHasContent)

-----------------------------------------------------------------------------
(* The writer's calls.                                                     *)

Meta(s) == s.cache[1].val
InWrite == pager.eState # "READER"
Used(p) == p \in 2 .. pager.dbSize /\ p \notin Meta(pager).free

Begin ==
    /\ ~InWrite /\ txns < setting.txns
    /\ pager' = [pager EXCEPT !.eState = "LOCKED", !.dbOrigSize = pager.dbSize,
                              !.dbFileSize = pager.dbSize]
    /\ txns' = txns + 1
    /\ UNCHANGED <<db, wal, ops, setting>>

(* Something is done to the cache in a write transaction. *)
Work(s) ==
    /\ InWrite /\ ops < setting.ops
    /\ pager' = s
    /\ ops' = ops + 1
    /\ UNCHANGED <<db, wal, txns, setting>>

NewContent == Content(MaxPage + ops + 1)

WritePage(p) == Used(p) /\ Work(Write(Get(pager, p), p, NewContent))

(* allocateBtreePage takes a free leaf, or a new page at the end. *)
Allocate(s, p, size, free, noContent) ==
    LET get(u) == IF noContent THEN GetNoContent(u, p) ELSE Get(u, p)
    IN  Write(Then(Write(s, 1, Root(size, free)), get), p, NewContent)

NoContent(p) == ~GetHasContent(pager, p)

AllocateLeaf(p) ==
    /\ p \in Meta(pager).free
    /\ Work(Allocate(pager, p, Meta(pager).n, Meta(pager).free \ {p}, NoContent(p)))

AllocateAtEnd ==
    /\ Meta(pager).free = {} /\ pager.dbSize < MaxPage
    /\ Work(Allocate(pager, pager.dbSize + 1, pager.dbSize + 1, {}, TRUE))

(* freePage2 makes a page a free leaf, whose content is not written. *)
Free(p) ==
    /\ Used(p)
    /\ LET drop(u) == DontWrite(u, p)
           root == Root(Meta(pager).n, Meta(pager).free \cup {p})
       IN  Work(SetHasContent(Then(Write(pager, 1, root), drop), p))

OpenSavepoint ==
    /\ Len(pager.aSavepoint) < MaxSavepoints
    /\ Work([pager EXCEPT !.aSavepoint = Append(@,
                [nOrig |-> pager.dbSize,
                 iOffset |-> IF pager.journal = <<>> THEN 1 ELSE Len(pager.journal),
                 iHdrOffset |-> 0,
                 iSubRec |-> Len(pager.subjournal),
                 pInSavepoint |-> {},
                 bTruncateOnRelease |-> TRUE,
                 aWalData |-> [mxFrame |-> pager.pWal.mxFrame, sum |-> pager.pWal.aFrameCksum,
                               nCkpt |-> pager.pWal.nCkpt]])])

Evict(p) ==
    /\ p # 1 /\ Cached(pager, p) /\ ~pager.cache[p].dirty
    /\ pager' = [pager EXCEPT !.cache = [q \in DOMAIN @ \ {p} |-> pager.cache[q]]]
    /\ UNCHANGED <<db, wal, ops, txns, setting>>

-----------------------------------------------------------------------------
(* Files: the page of a spill goes to the database file, behind a synced   *)
(* journal, or to the log.                                                 *)

MakeClean(page) == [page EXCEPT !.dirty = FALSE, !.needSync = FALSE, !.writeable = FALSE]

SpillNeedsSync(s, p) == s.cache[p].needSync \/ s.eState = "CACHEMOD"

(* syncJournal ends a segment of the journal, and starts the next. *)
Synced(s) ==
    LET flags == [q \in DOMAIN s.cache |-> [s.cache[q] EXCEPT !.needSync = FALSE]]
    IN  [IF noSync THEN s ELSE writeJournalHdr(s) EXCEPT !.cache = flags, !.eState = "DBMOD"]

Stored(file, p, val) ==
    [q \in 1 .. (IF p > Len(file) THEN p ELSE Len(file)) |->
        IF q = p THEN val ELSE PageOf(file, q)]

ToFile(s, p) ==
    IF p <= s.dbSize /\ ~s.cache[p].dontWrite THEN Stored(db, p, s.cache[p].val) ELSE db

SpillToFile(p) ==
    \E s \in {IF SpillNeedsSync(pager, p) THEN Synced(pager) ELSE pager} :
        /\ pager' = [s EXCEPT !.cache[p] = MakeClean(@),
                              !.dbFileSize = IF Len(ToFile(s, p)) > @ THEN Len(ToFile(s, p)) ELSE @]
        /\ db' = ToFile(s, p)
        /\ UNCHANGED wal

(* walFrames: frames to the log, first restarting it if all of it has been *)
(* copied to the database file and nobody reads it (restart).  x has struct *)
(* Wal and the log.                                                        *)
CanRestart == wal.nBackfill > 0 /\ wal.nBackfill = pager.pWal.mxFrame

Restarted(x) ==
    [pWal |-> [x.pWal EXCEPT !.mxFrame = 0, !.nCkpt = @ + 1],
     wal |-> [x.wal EXCEPT !.mxFrame = 0, !.sum = x.pWal.aFrameCksum, !.nBackfill = 0]]

WithLogHeader(x) ==
    IF x.pWal.mxFrame > 0 THEN x
    ELSE [pWal |-> [x.pWal EXCEPT !.aFrameCksum = <<x.pWal.nCkpt>>],
          wal |-> [x.wal EXCEPT !.nCkpt = x.pWal.nCkpt]]

(* Frames of the present transaction are overwritten in place. *)
InPlace(x, iFirst, p) == iFirst > 0 /\ LastFrame(x.wal.frames, p, x.pWal.mxFrame) >= iFirst

Overwritten(x, p, val) ==
    LET f == LastFrame(x.wal.frames, p, x.pWal.mxFrame)
    IN  [pWal |-> [x.pWal EXCEPT !.iReCksum = IF @ = 0 \/ f < @ THEN f ELSE @],
         wal |-> [x.wal EXCEPT !.frames[f].val = val]]

Appended(x, p, val, size) ==
    LET f == Frame(p, val, size, x.pWal.aFrameCksum)
        n == x.pWal.mxFrame + 1
    IN  [pWal |-> [x.pWal EXCEPT !.mxFrame = n, !.aFrameCksum = f.sum],
         wal |-> [x.wal EXCEPT !.frames =
                    SubSeq(@, 1, n - 1) \o <<f>> \o SubSeq(@, n + 1, Len(@))]]

Rechecked(x) ==
    LET from == x.pWal.iReCksum
        before == IF from = 1 THEN <<x.wal.nCkpt>> ELSE x.wal.frames[from - 1].sum
        ident(n) == <<x.wal.frames[n].pg, x.wal.frames[n].val, x.wal.frames[n].size>>
        sum(n) == before \o [k \in 1 .. n - from + 1 |-> ident(from + k - 1)]
    IN  IF from = 0 THEN x
        ELSE [pWal |-> [x.pWal EXCEPT !.iReCksum = 0, !.aFrameCksum = sum(x.pWal.mxFrame)],
              wal |-> [x.wal EXCEPT !.frames =
                         [n \in DOMAIN @ |-> IF n \in from .. x.pWal.mxFrame
                                             THEN [@[n] EXCEPT !.sum = sum(n)] ELSE @[n]]]]

(* A list of pages, in order; size is that of the database in a commit.    *)
walFrames(s, list, size, restart) ==
    LET iFirst == IF s.pWal.mxFrame = wal.mxFrame /\ s.pWal.aFrameCksum = wal.sum THEN 0 ELSE wal.mxFrame + 1
        start(x) == IF restart THEN Restarted(x) ELSE x
        one(x, p) ==
            IF InPlace(x, iFirst, p) /\ (size = 0 \/ p # Last(list))
            THEN Overwritten(x, p, s.cache[p].val)
            ELSE Appended(x, p, s.cache[p].val, IF p = Last(list) THEN size ELSE 0)
        put(x, p) == Then(x, LAMBDA y : one(y, p))
        ready == Then(Then([pWal |-> s.pWal, wal |-> wal], start), WithLogHeader)
        end(x) == IF size = 0 THEN x ELSE Rechecked(x)
    IN  Then(FoldLeft(put, ready, list), end)

BeforeSpill(s, p) == subjournalPageIfRequired(s, p)

SpillToLog(p) ==
    \E restart \in {FALSE, CanRestart} :
        \E s \in {BeforeSpill(pager, p)} : \E x \in {walFrames(s, <<p>>, 0, restart)} :
            /\ pager' = [s EXCEPT !.cache[p] = MakeClean(@), !.pWal = x.pWal]
            /\ wal' = x.wal
            /\ UNCHANGED db

(* pagerStress writes a dirty page that nobody uses. *)
Spill(p) ==
    /\ InWrite /\ p # 1 /\ Cached(pager, p) /\ pager.cache[p].dirty
    /\ IF useWal THEN SpillToLog(p) ELSE SpillToFile(p)
    /\ UNCHANGED <<ops, txns, setting>>

-----------------------------------------------------------------------------
(* Playback.  x has the pager, the database file, and the pages done.      *)

IsSynced(s, isMain, offset, p) ==
    IF isMain THEN noSync \/ offset <= s.journalHdr
    ELSE ~Cached(s, p) \/ ~s.cache[p].needSync

GetForPlayback(s, p) == MakeDirty(GetNoContent(s, p), p)

(* The record is copied to the cache, if the page is there. *)
Copied(s, rec, toFile) ==
    LET t == IF Cached(s, rec.pg) THEN [s EXCEPT !.cache[rec.pg].val = rec.val] ELSE s
    IN  [t EXCEPT !.dbFileSize = IF toFile /\ rec.pg > @ THEN rec.pg ELSE @]

(* pager_playback_one_page; a header that is taken for a record ends it. *)
PlaybackOnePage(x, rec, isMain, offset) ==
    LET s == x.pager
        toFile == s.eState = "DBMOD" /\ IsSynced(s, isMain, offset, rec.pg)
        got == IF (useWal \/ ~Cached(s, rec.pg)) /\ ~isMain /\ ~toFile
               THEN GetForPlayback(s, rec.pg) ELSE s
    IN  IF ~x.ok \/ (rec.pg # 0 /\ (rec.pg > s.dbSize \/ rec.pg \in x.done)) THEN x
        ELSE IF rec.pg = 0 THEN [x EXCEPT !.ok = FALSE]
        ELSE [ok |-> TRUE,
              done |-> x.done \cup {rec.pg},
              file |-> IF toFile THEN Stored(x.file, rec.pg, rec.val) ELSE x.file,
              pager |-> Then(got, LAMBDA u : Copied(u, rec, toFile))]

(* The k-th record is played back.  Until offset end there is no header;   *)
(* after it there are whole segments, each with its own.                   *)
ReplayOne(x, records, isMain, end, k) ==
    LET one(y) ==
            IF k > end /\ records[k].pg = 0 THEN y ELSE PlaybackOnePage(y, records[k], isMain, k)
    IN  Then(x, one)

(* The records after offset from, one after the other. *)
Replay(x, records, isMain, from, end) ==
    LET after[k \in 0 .. Len(records)] ==
            IF k <= from THEN x ELSE ReplayOne(after[k - 1], records, isMain, end, k)
    IN  after[Len(records)]

PlayMain(x, from, end) == Replay(x, x.pager.journal, TRUE, from, end)

PlaySub(x, from) == Replay(x, x.pager.subjournal, FALSE, from, Len(x.pager.subjournal))

(* sqlite3WalSavepointUndo *)
WalSavepointUndo(s, data) ==
    LET mx == IF data.nCkpt # s.pWal.nCkpt THEN 0 ELSE data.mxFrame
    IN  IF mx >= s.pWal.mxFrame THEN s
        ELSE [s EXCEPT !.pWal.mxFrame = mx, !.pWal.aFrameCksum = data.sum,
                       !.pWal.iReCksum = IF @ > mx THEN 0 ELSE @]

(* pagerRollbackWal goes back to the shared header, and drops the pages    *)
(* that were changed; page 1 is read again.                                *)
RollbackWal(s) ==
    LET undone == {wal.frames[n].pg : n \in wal.mxFrame + 1 .. s.pWal.mxFrame}
        stale == (undone \cup {p \in DOMAIN s.cache : s.cache[p].dirty}) \cap DOMAIN s.cache
        t == [s EXCEPT !.pWal.mxFrame = wal.mxFrame, !.pWal.aFrameCksum = wal.sum,
                       !.pWal.iReCksum = 0]
        page(p) == IF p = 1 /\ 1 \in stale
                   THEN [s.cache[p] EXCEPT !.val = readDbPage(t, db, wal, 1)] ELSE s.cache[p]
    IN  [t EXCEPT !.cache = [p \in (DOMAIN s.cache \ stale) \cup {1} |-> page(p)]]

(* pagerPlaybackSavepoint: to the last open savepoint, or to the start.    *)
Playing(s, size) == [ok |-> TRUE, done |-> {}, file |-> db, pager |-> [s EXCEPT !.dbSize = size]]

PlaybackAll(s) ==
    IF useWal THEN [Playing(s, s.dbOrigSize) EXCEPT !.pager = RollbackWal(@)]
    ELSE PlayMain(Playing(s, s.dbOrigSize), 0, 0)

PlaybackSavepoint(s, sp) ==
    LET x == Playing(s, sp.nOrig)
        end == IF sp.iHdrOffset > 0 THEN sp.iHdrOffset ELSE Len(s.journal)
        main == IF useWal THEN [x EXCEPT !.pager = WalSavepointUndo(@, sp.aWalData)]
                ELSE PlayMain(x, sp.iOffset, end)
    IN  Then(main, LAMBDA y : PlaySub(y, sp.iSubRec))

(* sqlite3PagerSavepoint *)
RolledBack(s, i) ==
    LET back(kept) ==
            IF ~useWal /\ s.journal = <<>> THEN Playing(kept, kept.dbSize)
            ELSE IF i = 0 THEN PlaybackAll(kept)
            ELSE PlaybackSavepoint(kept, s.aSavepoint[i])
    IN  Then([s EXCEPT !.aSavepoint = SubSeq(@, 1, i)], back)

RollbackTo(i) ==
    /\ InWrite /\ ops < setting.ops /\ i \in 0 .. Len(pager.aSavepoint)
    /\ \E x \in {RolledBack(pager, i)} : pager' = x.pager /\ db' = x.file
    /\ ops' = ops + 1
    /\ UNCHANGED <<wal, txns, setting>>

ReleaseSavepoint(i) ==
    LET sp == pager.aSavepoint[i]
    IN  /\ pager' = [pager EXCEPT !.aSavepoint = SubSeq(@, 1, i - 1),
                                  !.subjournal = IF sp.bTruncateOnRelease
                                                 THEN SubSeq(@, 1, sp.iSubRec) ELSE @]
        /\ UNCHANGED <<db, wal, ops, txns, setting>>

-----------------------------------------------------------------------------
(* The end of a transaction.                                               *)

(* pager_end_transaction, btreeEndTransaction: all pages are clean, those  *)
(* past the end are dropped.                                               *)
Ended(s) ==
    [s EXCEPT !.eState = "READER", !.journal = <<>>, !.journalHdr = 0, !.pInJournal = {},
              !.pHasContent = {}, !.hasContentSize = 0, !.aSavepoint = <<>>, !.subjournal = <<>>,
              !.cache = [p \in {q \in DOMAIN s.cache : q <= s.dbSize} |->
                            IF s.cache[p].dirty THEN MakeClean(s.cache[p]) ELSE s.cache[p]]]

(* Both phases of a commit in one step; Pager and Wal have them in full.   *)
CommitToFile ==
    LET out(p) == Cached(pager, p) /\ pager.cache[p].dirty /\ ~pager.cache[p].dontWrite
    IN  /\ db' = [p \in 1 .. pager.dbSize |->
                     IF out(p) THEN pager.cache[p].val ELSE PageOf(db, p)]
        /\ pager' = Ended(pager)
        /\ UNCHANGED wal

(* A commit to the log writes page 1 for want of others. *)
OrPageOne(list) == IF list = <<>> THEN <<1>> ELSE list

DirtyList ==
    OrPageOne(SetToSortSeq({p \in DOMAIN pager.cache : pager.cache[p].dirty /\ p <= pager.dbSize}, <))

CommitToLog ==
    \E restart \in {FALSE, CanRestart} :
        \E x \in {walFrames(pager, DirtyList, pager.dbSize, restart)} :
            /\ pager' = Ended([pager EXCEPT !.pWal = x.pWal])
            /\ wal' = [x.wal EXCEPT !.mxFrame = x.pWal.mxFrame, !.sum = x.pWal.aFrameCksum]
            /\ UNCHANGED db

Commit ==
    /\ InWrite
    /\ IF pager.eState = "LOCKED" THEN pager' = Ended(pager) /\ UNCHANGED <<db, wal>>
       ELSE IF useWal THEN CommitToLog ELSE CommitToFile
    /\ UNCHANGED <<ops, txns, setting>>

(* sqlite3PagerRollback plays all of the journal back, once the file has   *)
(* been cut to its former size.                                            *)
CutBack(file, s) == IF s.eState = "DBMOD" THEN SubSeq(file, 1, s.dbOrigSize) ELSE file

Rollback ==
    /\ InWrite
    /\ \E x \in {IF pager.eState = "LOCKED" THEN Playing(pager, pager.dbSize)
                 ELSE RolledBack(pager, 0)} :
          /\ pager' = Ended(x.pager)
          /\ db' = CutBack(x.file, pager)
    /\ UNCHANGED <<wal, ops, txns, setting>>

Next ==
    \/ Begin \/ AllocateAtEnd \/ OpenSavepoint \/ Commit \/ Rollback
    \/ \E p \in 1 .. MaxPage : WritePage(p) \/ AllocateLeaf(p) \/ Free(p) \/ Evict(p) \/ Spill(p)
    \/ \E i \in 0 .. Len(pager.aSavepoint) : RollbackTo(i)
    \/ \E i \in DOMAIN pager.aSavepoint : ReleaseSavepoint(i)

Spec == Init /\ [][Next]_vars

-----------------------------------------------------------------------------
(* What the state stands for.                                              *)

Unneeded == [n |-> -1, free |-> {}]

(* The image of a sequence of pages, that may lack free ones at its end.   *)
ImageOf(size, pages(_)) ==
    LET image(root) == [p \in 1 .. size |-> IF p \in root.free THEN Unneeded ELSE pages(p)]
    IN  Then(pages(1), image)

View(s, file, log) ==
    LET page(p) == IF Cached(s, p) THEN s.cache[p].val ELSE readDbPage(s, file, log, p)
    IN  ImageOf(s.dbSize, page)

(* What a crash would leave after the journal or the log is recovered:     *)
(* with a synced journal what the synced segments hold is played back.     *)
HotRecords ==
    [k \in 1 .. (IF noSync THEN Len(pager.journal) ELSE pager.journalHdr) |-> pager.journal[k]]

AfterHotPlayback ==
    LET after(records) ==
            LET restored(p) == {k \in DOMAIN records : records[k].pg = p}
                page(p) == IF restored(p) = {} THEN PageOf(db, p) ELSE records[Min(restored(p))].val
            IN  ImageOf(IF records = <<>> THEN Len(db) ELSE pager.dbOrigSize, page)
    IN  Then(HotRecords, after)

(* walIndexRecover: the frames whose checksums are right, up to a commit.  *)
AfterLogRecovery ==
    LET ident(n) == <<wal.frames[n].pg, wal.frames[n].val, wal.frames[n].size>>
        valid[n \in Nat] ==
            IF n < Len(wal.frames) /\ wal.frames[n + 1].sum
                    = <<wal.nCkpt>> \o [k \in 1 .. n + 1 |-> ident(k)]
            THEN valid[n + 1] ELSE n
        commit[n \in Nat] == IF n = 0 \/ wal.frames[n].size > 0 THEN n ELSE commit[n - 1]
        upTo(last) ==
            LET page(p) == LET f == LastFrame(wal.frames, p, last)
                           IN  IF f > 0 THEN wal.frames[f].val ELSE PageOf(db, p)
            IN  ImageOf(IF last = 0 THEN Len(db) ELSE wal.frames[last].size, page)
    IN  Then(commit[valid[0]], upTo)

SavedImage(i) == Then(RolledBack(pager, i), LAMBDA x : View(x.pager, x.file, wal))

Abstract == INSTANCE SavepointStack WITH
    InitImage <- LET page(p) == InitPage(p) IN ImageOf(InitSize, page),
    committed <- IF useWal THEN AfterLogRecovery ELSE AfterHotPlayback,
    image <- View(pager, db, wal),
    saved <- [i \in DOMAIN pager.aSavepoint |-> SavedImage(i)]

(* The images that the open savepoints would bring back, and the one that  *)
(* a crash would, stay the same whatever is written, spilled, recycled,    *)
(* freed or allocated; ROLLBACK TO and ROLLBACK restore them (pager.c,     *)
(* pagerPlaybackSavepoint and subjournalPage; btree.c, pHasContent).       *)
ImplementsSavepointStack == Abstract!Spec

(* Rolling any open savepoint back now, or the transaction, comes to its   *)
(* end: the playback never meets a header where it expects a record (the   *)
(* assertion that rc is not SQLITE_DONE, pagerPlaybackSavepoint).          *)
PlaybacksEnd == \A i \in 0 .. Len(pager.aSavepoint) : RolledBack(pager, i).ok

(* Types (struct Pager, struct PagerSavepoint); the pages in the           *)
(* sub-journal are in the main journal or new (subjournalPage).            *)
TypeOK ==
    /\ DOMAIN db \subseteq 1 .. MaxPage
    /\ pager.eState \in {"READER", "LOCKED", "CACHEMOD", "DBMOD"}
    /\ DOMAIN pager.cache \subseteq 1 .. MaxPage
    /\ Len(pager.aSavepoint) <= MaxSavepoints
    /\ useWal \/ \A r \in ToSet(pager.subjournal) : r.pg \in pager.pInJournal \/ r.pg > pager.dbOrigSize
=============================================================================
