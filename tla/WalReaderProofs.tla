-------------------------- MODULE WalReaderProofs --------------------------
(***************************************************************************)
(* What readers of the write-ahead log may count on.                       *)
(***************************************************************************)
EXTENDS WalProofs

-----------------------------------------------------------------------------
(* What a call has in its variables: p is its pc, j its job, t its         *)
(* transaction, w its struct Wal.                                          *)
Marking(p) == p \in {"setmark", "lockmark", "minframe", "checkmark"}

Checkpointing(p) == p \in ScanPcs \cup CopyPcs

CallOf(p, j, t, w) ==
    /\ t.failed => t.on /\ p = "idle"
    /\ j.iFirst \in Nat /\ (j.kind # "write" => j.iFirst = 0)
    /\ ~Marking(p) /\ p \notin FramePcs => j.mxI = 0
    /\ Marking(p) /\ j.mxI > 0 => j.mark <= w.hdr.mxFrame
    /\ Checkpointing(p) => j.safe <= w.hdr.mxFrame
    /\ p = "lockmk" => j.mark < j.safe
    /\ p \in CopyPcs => j.safe > 0

Call(c) == CallOf(pc[c], job[c], tx[c], wc[c])

-----------------------------------------------------------------------------
(* Salts.                                                                  *)
Drawn(n) == n <= salts

SaltOf(c) == Drawn(wc[c].hdr.salt) /\ Drawn(job[c].h1.salt)

(* A writer's header is the shared one, or goes on from it, or starts a    *)
(* log, with a salt of its own.                                            *)
Unpublished(c) == tx[c].on /\ wc[c].hdr.salt # LiveHdr.salt

WriterOf(c) ==
    tx[c].on =>
        /\ pc[c] = "restart1" => Unpublished(c)
        /\ pc[c] # "restart1" => wc[c].hdr.mxFrame >= LiveHdr.mxFrame
        /\ pc[c] # "restart1" /\ Unpublished(c) => LiveHdr.mxFrame = 0
        /\ wc[c].readLock = 0 /\ pc[c] \in {"idle", "restart"} => wc[c].hdr = LiveHdr
        /\ Unpublished(c) => wc[c].hdr.salt = salts /\ LiveHdr.salt < salts

(* The salt that it has drawn is known to nobody else. *)
FreshFor(c, d) ==
    Unpublished(c) => wc[d].hdr.salt < salts /\ job[d].h1.salt < salts

SaltsDrawn == Drawn(LiveHdr.salt) /\ Drawn(wal.salt) /\ Drawn(walDisk.salt)

-----------------------------------------------------------------------------
(* The log up to the shared mxFrame, and what a writer has added to it.    *)
ValidTo(w, n) == \A m \in 1 .. n : ValidFrame(w, m)

Published ==
    LiveHdr.mxFrame > 0 =>
        /\ wal.salt # NoSalt /\ wal.salt = LiveHdr.salt
        /\ ValidTo(wal, LiveHdr.mxFrame)
        /\ wal.frames[LiveHdr.mxFrame].size > 0
        /\ LiveHdr.sum = SumUpTo(wal, LiveHdr.mxFrame)

(* The first m frames of log w are the writer's, with checksums that are   *)
(* right up to frame re, the first it has overwritten.                     *)
Chain(w, m, salt, re, sum) ==
    /\ w.salt # NoSalt /\ w.salt = salt
    /\ \A n \in 1 .. m : w.frames[n].salt = salt
    /\ \A n \in 1 .. m : re = 0 \/ n < re => ValidFrame(w, n)
    /\ re = 0 => sum = SumUpTo(w, m)

CommitWritten(c) == pc[c] = "publish" \/ (pc[c] \in {"sync", "index"} /\ job[c].commit)

LogOf(c) ==
    /\ ~tx[c].on => wc[c].iReCksum = 0
    /\ tx[c].on /\ ~tx[c].failed =>
        /\ Reached(c) > 0 \/ pc[c] \in {"synchdr", "frames"} =>
              Chain(wal, Reached(c), wc[c].hdr.salt, wc[c].iReCksum, wc[c].hdr.sum)
        /\ wc[c].iReCksum = 0 \/ wc[c].iReCksum \in LiveHdr.mxFrame + 1 .. Reached(c)
        /\ job[c].iFirst = 0 \/ (job[c].iFirst = LiveHdr.mxFrame + 1 /\ pc[c] \notin RestartPcs)
        /\ CommitWritten(c) =>
              wc[c].iReCksum = 0 /\ Reached(c) > 0 /\ wal.frames[Reached(c)].size > 0

HeaderOf(c) ==
    /\ pc[c] = "recover2" => wc[c].hdr = RecoveredHdr(wal)
    /\ pc[c] \in {"recover3", "restart2"} => wc[c].hdr = LiveHdr

-----------------------------------------------------------------------------
(* The newest frame that connection c may have to find in the log: for a   *)
(* writer that of the commit it began with.                                *)
Snap(c) == IF tx[c].on THEN LiveHdr.mxFrame ELSE wc[c].hdr.mxFrame

SnapOf(c) ==
    wc[c].readLock > 0 => shm.aReadMark[wc[c].readLock] <= Snap(c) /\ shm.nBackfill <= Snap(c)

(* The header of a checkpointer is not ahead of the shared one of the same *)
(* log, and what it copies is of that log.                                 *)
Below(h) == h.salt = LiveHdr.salt => h.mxFrame <= LiveHdr.mxFrame

Here(d) == LiveHdr.salt = wc[d].hdr.salt

CkptOf(d) ==
    /\ job[d].kind = "ckpt" /\ pc[d] = "tryhdr2" => Below(job[d].h1)
    /\ pc[d] = "ckpt" \/ Checkpointing(pc[d]) => Below(wc[d].hdr)
    /\ pc[d] \in CopyPcs => Here(d)

(* No reader of a mark that the checkpointer has dealt with needs a frame  *)
(* that comes after those that are safe to copy.                           *)
Scanned(d, i) == pc[d] \in {"mark", "lockmk"} => i < job[d].i

SafeFor(d, c) ==
    Checkpointing(pc[d]) /\ Here(d) /\ wc[c].readLock > 0 =>
        /\ Scanned(d, wc[c].readLock) => Snap(c) >= job[d].safe
        /\ pc[d] = "lockmk" /\ wc[c].readLock = job[d].i => Snap(c) >= job[d].mark

Restarting == \E c \in Conns : pc[c] = "restart2"

BackfillOK == shm.nBackfill <= LiveHdr.mxFrame \/ Restarting

Readers ==
    /\ \A c \in Conns : SnapOf(c) /\ CkptOf(c)
    /\ \A d \in Conns : \A c \in Others(d) : SafeFor(d, c)
    /\ BackfillOK

(* Nobody dies between the two parts of a restart of the log. *)
Spared == setting.die # "always"

Mine(c) == Call(c) /\ SaltOf(c) /\ WriterOf(c) /\ LogOf(c) /\ HeaderOf(c)

RInv ==
    /\ \A c \in Conns : Mine(c)
    /\ \A c \in Conns : \A d \in Others(c) : FreshFor(c, d)
    /\ SaltsDrawn /\ Published
    /\ Spared => Readers

-----------------------------------------------------------------------------
(* Steps that leave the log and the shared header alone.                   *)
Steady(c) ==
    /\ Unmoved(c) /\ LiveHdr' = LiveHdr /\ wal' = wal /\ salts' = salts /\ setting' = setting
    /\ walDisk' = walDisk \/ walDisk' = wal

(* A salt that c may learn of: the holder of the WRITE lock reads the log. *)
Known(c, n) ==
    \/ n \in {0, LiveHdr.salt, wc[c].hdr.salt, job[c].h1.salt}
    \/ Drawn(n) /\ Excl(c, WAL_WRITE_LOCK)

Knows(c) == Known(c, wc'[c].hdr.salt) /\ Known(c, job'[c].h1.salt)

LEMMA HdrNumbers ==
  ASSUME Types
  PROVE  /\ LiveHdr.mxFrame \in Nat /\ LiveHdr.salt \in Nat
         /\ \A d \in Conns : /\ wc[d].hdr.mxFrame \in Nat /\ wc[d].hdr.salt \in Nat
                             /\ job[d].h1.mxFrame \in Nat /\ job[d].h1.salt \in Nat
         /\ salts \in Nat
  BY WalAssumption DEF Types, SharedOK, HdrOK, CountersOK, Conn, ConnOf

(* Without the WRITE lock nobody is in a write transaction, recovers the   *)
(* log or restarts it.                                                     *)
LEMMA OthersOff ==
  ASSUME LInv, NEW c \in Conns, Excl(c, WAL_WRITE_LOCK), NEW d \in Others(c)
  PROVE  /\ ~tx[d].on /\ pc[d] \notin Recovery \cup {"recover", "restart2", "trunclog"}
         /\ ~Excl(d, WAL_WRITE_LOCK)
  <1>1. ~Excl(d, WAL_WRITE_LOCK) /\ ~tx[d].on /\ pc[d] \notin {"restart2", "trunclog"}
    BY WriterAlone, WalAssumption DEF LInv, Exclusion, Others, Slots, WAL_WRITE_LOCK, WAL_READ_LOCK
  <1> QED BY <1>1 DEF Excl, ExclOf, WAL_WRITE_LOCK

LEMMA SteadyStep ==
  ASSUME TInv, RInv, NEW c \in Conns, Steady(c), Knows(c),
         Call(c)', WriterOf(c)', LogOf(c)', HeaderOf(c)', Unpublished(c)' => Unpublished(c),
         Spared => /\ \A d \in Conns : SnapOf(d)'
                   /\ CkptOf(c)' /\ BackfillOK'
                   /\ \A d \in Others(c) : SafeFor(c, d)' /\ SafeFor(d, c)'
  PROVE  RInv'
  <1> USE DEF Others
  <1>h. /\ salts \in Nat /\ LiveHdr.salt \in Nat
        /\ \A d \in Conns : wc[d].hdr.salt \in Nat /\ job[d].h1.salt \in Nat
    BY HdrNumbers DEF TInv
  <1>1. SaltsDrawn' /\ SaltOf(c)'
    BY <1>h DEF RInv, SaltsDrawn, Drawn, Steady, Knows, Known, SaltOf, Mine
  <1>2. Published'
    BY DEF RInv, Published, Steady
  <1>3. ASSUME NEW d \in Others(c) PROVE Mine(d)'
    BY <1>3 DEF RInv, Mine, Steady, Unmoved, Call, SaltOf, WriterOf, LogOf, HeaderOf, Unpublished,
       Reached, CommitWritten, Drawn
  <1>4. \A d \in Conns : Mine(d)'
    BY <1>1, <1>3 DEF Mine
  <1>5. ASSUME NEW d \in Conns, NEW e \in Others(d) PROVE FreshFor(d, e)'
    <2>1. FreshFor(d, e) /\ SaltOf(e) /\ WriterOf(d)
      BY DEF RInv, Mine
    <2>2. CASE d = c
      BY <2>1, <2>2 DEF FreshFor, Steady, Unmoved
    <2>3. CASE d # c /\ e # c
      BY <2>1, <2>3 DEF FreshFor, Steady, Unmoved, Unpublished
    <2>4. CASE d # c /\ e = c
      <3>1. Unpublished(d)' <=> Unpublished(d)
        BY <2>4 DEF Steady, Unmoved, Unpublished
      <3>2. Unpublished(d) => LiveHdr.salt < salts /\ 0 < salts
        BY <2>1, <1>h DEF WriterOf, Unpublished
      <3>3. Excl(c, WAL_WRITE_LOCK) => ~Unpublished(d)
        BY <2>4, OthersOff DEF TInv, Unpublished, Others
      <3> QED BY <3>1, <3>2, <3>3, <2>1, <2>4 DEF FreshFor, Steady, Knows, Known
    <2> QED BY <2>2, <2>3, <2>4
  <1>6. ASSUME Spared' PROVE Readers'
    <2>0. Spared /\ Readers
      BY <1>6 DEF Spared, Steady, RInv
    <2>1. ASSUME NEW d \in Others(c) PROVE CkptOf(d)'
      BY <2>0, <2>1 DEF Readers, CkptOf, Below, Here, Steady, Unmoved
    <2>2. ASSUME NEW d \in Others(c), NEW e \in Others(c), d # e PROVE SafeFor(d, e)'
      BY <2>0, <2>2 DEF Readers, SafeFor, Snap, Scanned, Here, Steady, Unmoved
    <2> QED BY <2>0, <2>1, <2>2 DEF Readers
  <1> QED BY <1>1, <1>2, <1>4, <1>5, <1>6 DEF RInv

(* Such a step of a connection that is in no write transaction and has no  *)
(* mark; it leaves the wal-index alone altogether.                         *)
NoCopies == ScanPcs \cup CopyPcs \cup {"recover2", "recover3", "restart2"}

Quiet(c) ==
    /\ Unmoved(c) /\ shm' = shm /\ wal' = wal /\ salts' = salts /\ setting' = setting
    /\ walDisk' = walDisk \/ walDisk' = wal
    /\ ~tx[c].on /\ ~tx'[c].on
    /\ wc'[c].readLock <= 0 /\ wc'[c].iReCksum = wc[c].iReCksum
    /\ pc[c] # "restart2" /\ pc'[c] \notin NoCopies
    /\ Knows(c)
    /\ Call(c)'
    /\ job'[c].kind = "ckpt" /\ pc'[c] = "tryhdr2" /\ Spared => Below(job'[c].h1)
    /\ pc'[c] = "ckpt" /\ Spared => Below(wc'[c].hdr)

LEMMA QuietStep ==
  ASSUME TInv, TInv', RInv, NEW c \in Conns, Quiet(c)
  PROVE  RInv'
  <1>0. LiveHdr' = LiveHdr /\ \A h : Below(h)' <=> Below(h)
    BY DEF Quiet, LiveHdr, Below
  <1>1. Steady(c) /\ Knows(c) /\ Call(c)' /\ ~Unpublished(c)'
    BY <1>0 DEF Steady, Quiet, Unpublished
  <1>2. WriterOf(c)' /\ LogOf(c)' /\ HeaderOf(c)'
    BY DEF Quiet, NoCopies, WriterOf, LogOf, HeaderOf, RInv, Mine
  <1>3. wc'[c].readLock \in Int /\ ~(wc'[c].readLock > 0)
    BY WalAssumption DEF Quiet, TInv, LInv, Local, ControlOf
  <1>4. ASSUME Spared
        PROVE  /\ \A d \in Conns : SnapOf(d)'
               /\ CkptOf(c)' /\ BackfillOK'
               /\ \A d \in Others(c) : SafeFor(c, d)' /\ SafeFor(d, c)'
    <2>0. Readers
      BY <1>4 DEF RInv
    <2>1. ASSUME NEW d \in Conns PROVE SnapOf(d)'
      <3>1. CASE d = c
        BY <1>3, <3>1 DEF SnapOf
      <3>2. CASE d # c
        BY <2>0, <3>2, <1>0 DEF Readers, SnapOf, Snap, Quiet, Unmoved, Others
      <3> QED BY <3>1, <3>2
    <2>2. CkptOf(c)'
      BY <1>0, <1>4 DEF Quiet, NoCopies, CkptOf, Checkpointing
    <2>3. BackfillOK'
      BY <2>0, <1>0 DEF Quiet, Unmoved, Readers, BackfillOK, Restarting, Others
    <2>4. ASSUME NEW d \in Others(c) PROVE SafeFor(c, d)' /\ SafeFor(d, c)'
      BY <1>3 DEF Quiet, NoCopies, SafeFor, Checkpointing
    <2> QED BY <2>1, <2>2, <2>3, <2>4
  <1> QED BY <1>1, <1>2, <1>4, SteadyStep

(* Such a step of a writer, with the header that it has.                   *)
Private(c) ==
    /\ Unmoved(c) /\ shm' = shm /\ wal' = wal /\ salts' = salts /\ setting' = setting
    /\ walDisk' = walDisk \/ walDisk' = wal
    /\ tx[c].on /\ tx'[c].on
    /\ wc'[c].hdr = wc[c].hdr
    /\ wc'[c].readLock <= 0 \/ wc'[c].readLock = wc[c].readLock
    /\ pc[c] # "restart2" /\ pc'[c] \notin NoCopies /\ job'[c].kind # "ckpt"
    /\ Known(c, job'[c].h1.salt)
    /\ Call(c)' /\ WriterOf(c)' /\ LogOf(c)'

LEMMA PrivateStep ==
  ASSUME TInv, TInv', RInv, NEW c \in Conns, Private(c)
  PROVE  RInv'
  <1>0. LiveHdr' = LiveHdr
    BY DEF Private, LiveHdr
  <1>1. Steady(c) /\ Knows(c) /\ Call(c)' /\ WriterOf(c)' /\ LogOf(c)'
    BY <1>0 DEF Steady, Private, Knows, Known
  <1>2. HeaderOf(c)' /\ (Unpublished(c)' => Unpublished(c))
    BY <1>0 DEF Private, NoCopies, HeaderOf, Unpublished
  <1>3. /\ wc'[c].readLock \in Int /\ Snap(c)' = Snap(c)
        /\ wc'[c].readLock > 0 => wc'[c].readLock = wc[c].readLock
    BY <1>0, WalAssumption DEF Private, TInv, LInv, Local, ControlOf, Snap
  <1>n. pc'[c] # "ckpt" /\ job'[c].kind # "ckpt"
    BY DEF Private, TInv, LInv, Local, ControlOf, HdrPcs, Recovery, MarkPcs, RestartPcs, FramePcs
  <1>4. ASSUME Spared
        PROVE  /\ \A d \in Conns : SnapOf(d)'
               /\ CkptOf(c)' /\ BackfillOK'
               /\ \A d \in Others(c) : SafeFor(c, d)' /\ SafeFor(d, c)'
    <2>0. Readers
      BY <1>4 DEF RInv
    <2>1. ASSUME NEW d \in Conns PROVE SnapOf(d)'
      <3>1. CASE d = c
        BY <1>3, <3>1, <2>0 DEF SnapOf, Readers, Private
      <3>2. CASE d # c
        BY <2>0, <3>2, <1>0 DEF Readers, SnapOf, Snap, Private, Unmoved, Others
      <3> QED BY <3>1, <3>2
    <2>2. CkptOf(c)'
      BY <1>n DEF Private, NoCopies, CkptOf, Checkpointing
    <2>3. BackfillOK'
      BY <2>0, <1>0 DEF Private, Unmoved, Readers, BackfillOK, Restarting, Others
    <2>4. ASSUME NEW d \in Others(c) PROVE SafeFor(c, d)' /\ SafeFor(d, c)'
      <3>1. SafeFor(d, c)
        BY <2>0 DEF Readers, Others
      <3>2. SafeFor(d, c)'
        BY <3>1, <1>0, <1>3 DEF SafeFor, Private, Unmoved, Here, Scanned
      <3> QED BY <3>2 DEF Private, NoCopies, SafeFor, Checkpointing
    <2> QED BY <2>1, <2>2, <2>3, <2>4
  <1> QED BY <1>1, <1>2, <1>4, SteadyStep

(* Steps of a checkpointer between its header and the end of the copying.  *)
Carries(c) ==
    /\ Unmoved(c) /\ shm'.hdr = shm.hdr /\ wal' = wal /\ salts' = salts /\ setting' = setting
    /\ walDisk' = walDisk \/ walDisk' = wal
    /\ ~tx[c].on /\ ~tx'[c].on
    /\ wc'[c] = wc[c] /\ wc[c].readLock = -1
    /\ pc[c] # "restart2" /\ pc'[c] \in {"ckptdone", "ckptend"} \cup ScanPcs \cup CopyPcs
    /\ job'[c].h1 = job[c].h1
    /\ Call(c)'
    /\ Spared => /\ Checkpointing(pc'[c]) => Below(wc[c].hdr)
                 /\ pc'[c] \in CopyPcs => Here(c)

(* What else it must see to: job[c].safe, and the marks it has passed.     *)
SafeNow(c, d) ==
    Checkpointing(pc'[c]) /\ Here(c) /\ wc[d].readLock > 0 =>
        /\ (pc'[c] \in {"mark", "lockmk"} => wc[d].readLock < job'[c].i) => Snap(d) >= job'[c].safe
        /\ pc'[c] = "lockmk" /\ wc[d].readLock = job'[c].i => Snap(d) >= job'[c].mark

LEMMA CarryStep ==
  ASSUME TInv, TInv', RInv, NEW c \in Conns, Carries(c),
         Spared => /\ BackfillOK'
                   /\ \A d \in Others(c) : SnapOf(d)' /\ SafeNow(c, d)
  PROVE  RInv'
  <1>0. LiveHdr' = LiveHdr /\ \A h : Below(h)' <=> Below(h)
    BY DEF Carries, LiveHdr, Below
  <1>1. Steady(c) /\ Call(c)' /\ ~Unpublished(c)'
    BY <1>0 DEF Steady, Carries, Unpublished
  <1>2. WriterOf(c)' /\ LogOf(c)' /\ HeaderOf(c)' /\ Knows(c)
    BY DEF Carries, WriterOf, LogOf, HeaderOf, RInv, Mine, ScanPcs, CopyPcs, Knows, Known
  <1>3. ASSUME Spared
        PROVE  /\ \A d \in Conns : SnapOf(d)'
               /\ CkptOf(c)' /\ BackfillOK'
               /\ \A d \in Others(c) : SafeFor(c, d)' /\ SafeFor(d, c)'
    <2>1. SnapOf(c)'
      BY DEF Carries, SnapOf
    <2>2. CkptOf(c)'
      BY <1>0, <1>3 DEF Carries, CkptOf, Checkpointing, ScanPcs, CopyPcs, Here
    <2>3. ASSUME NEW d \in Others(c) PROVE SafeFor(c, d)' /\ SafeFor(d, c)'
      <3>1. SafeFor(d, c)'
        BY DEF Carries, SafeFor
      <3>2. SafeNow(c, d)
        BY <1>3
      <3>3. SafeFor(c, d)'
        BY <3>2, <1>0 DEF SafeNow, SafeFor, Carries, Unmoved, Here, Snap, Scanned
      <3> QED BY <3>1, <3>3
    <2> QED BY <1>3, <2>1, <2>2, <2>3 DEF Others
  <1> QED BY <1>1, <1>2, <1>3, SteadyStep

LEMMA CarryQuietly ==
  ASSUME TInv, TInv', RInv, NEW c \in Conns, Carries(c), shm' = shm,
         Spared => \A d \in Others(c) : SafeNow(c, d)
  PROVE  RInv'
  <1>1. ASSUME Spared, NEW d \in Others(c) PROVE SnapOf(d)'
    BY <1>1 DEF RInv, Readers, SnapOf, Snap, LiveHdr, Carries, Unmoved, Others
  <1>2. ASSUME Spared PROVE BackfillOK'
    BY <1>2 DEF RInv, Readers, BackfillOK, Restarting, LiveHdr, Carries, Unmoved, Others
  <1> QED BY <1>1, <1>2, CarryStep

(* Nobody reads by a mark that is not locked.                              *)
LEMMA FreeMark ==
  ASSUME LInv, NEW i \in Marks, Lockable({WAL_READ_LOCK(i)}), NEW d \in Conns
  PROVE  /\ wc[d].readLock # i
         /\ pc[d] \in {"minframe", "checkmark"} => job[d].mxI # i
  <1>1. WAL_READ_LOCK(i) \in Slots /\ i >= 0
    BY WalAssumption DEF Marks, Slots, WAL_READ_LOCK
  <1>2. lock[WAL_READ_LOCK(i)].shared = {}
    BY DEF Lockable, Free
  <1>3. ~Shares(d, WAL_READ_LOCK(i))
    BY <1>1, <1>2, Holders
  <1> QED BY <1>1, <1>3 DEF Shares, SharedOf

(* A reader's mark says that it has its lock.                              *)
LEMMA MarkLocked ==
  ASSUME LInv, NEW d \in Conns, wc[d].readLock >= 0
  PROVE  /\ WAL_READ_LOCK(wc[d].readLock) \in Slots
         /\ d \in lock[WAL_READ_LOCK(wc[d].readLock)].shared
         /\ \A c \in Conns : ~Excl(c, WAL_READ_LOCK(wc[d].readLock))
  <1>1. WAL_READ_LOCK(wc[d].readLock) \in Slots
    BY WalAssumption DEF LInv, Local, ControlOf, Slots, WAL_READ_LOCK
  <1>2. Shares(d, WAL_READ_LOCK(wc[d].readLock))
    BY DEF Shares, SharedOf
  <1> QED BY <1>1, <1>2, Holders DEF LInv, Exclusion

(* Such a step of a connection that copies nothing, and moves no mark by   *)
(* which somebody reads.                                                   *)
LEMMA MarksKept ==
  ASSUME RInv, Spared, NEW c \in Conns, Steady(c),
         \A d \in Conns : wc'[d].readLock > 0 =>
             /\ wc'[d].readLock = wc[d].readLock
             /\ shm'.aReadMark[wc[d].readLock] = shm.aReadMark[wc[d].readLock],
         shm'.nBackfill = shm.nBackfill \/ shm'.nBackfill = 0,
         LiveHdr.mxFrame \in Nat,
         \A d \in Conns : Snap(d) \in Nat,
         wc'[c].readLock > 0 => Snap(c)' = Snap(c),
         ~Checkpointing(pc'[c]), CkptOf(c)',
         pc[c] = "restart2" => shm'.nBackfill = 0
  PROVE  /\ \A d \in Conns : SnapOf(d)'
         /\ CkptOf(c)' /\ BackfillOK'
         /\ \A d \in Others(c) : SafeFor(c, d)' /\ SafeFor(d, c)'
  <1>0. Readers /\ LiveHdr' = LiveHdr
    BY DEF RInv, Steady
  <1>1. ASSUME NEW d \in Conns PROVE SnapOf(d)'
    <2>1. wc'[d].readLock > 0 => Snap(d)' = Snap(d)
      BY <1>0 DEF Steady, Unmoved, Others, Snap
    <2>2. SnapOf(d)
      BY <1>0 DEF Readers
    <2> QED BY <2>1, <2>2 DEF SnapOf
  <1>2. BackfillOK'
    BY <1>0 DEF Readers, BackfillOK, Restarting, Steady, Unmoved, Others
  <1>3. ASSUME NEW d \in Others(c) PROVE SafeFor(c, d)' /\ SafeFor(d, c)'
    <2>1. SafeFor(d, c)
      BY <1>0 DEF Readers, Others
    <2>2. SafeFor(d, c)'
      BY <2>1, <1>0 DEF SafeFor, Steady, Unmoved, Here, Scanned, Others
    <2> QED BY <2>2 DEF SafeFor
  <1> QED BY <1>1, <1>2, <1>3

LEMMA BeginReadReads ==
  ASSUME TInv, TInv', RInv, NEW c \in Conns, BeginRead(c)
  PROVE  RInv'
  <1>0. pc[c] = "idle" /\ ~(wc[c].readLock >= 0)
    BY DEF BeginRead, Reading, Step, At
  <1>s. Shaped /\ Local(c) /\ Conn(c) /\ Mine(c)
    BY DEF TInv, LInv, Shaped, Local, Types, RInv
  <1>h. HdrOK(LiveHdr) /\ HdrOK(wc[c].hdr) /\ HdrOK(job[c].h1) /\ (Spared => CkptOf(c))
    BY <1>s DEF TInv, Types, SharedOK, Conn, ConnOf, RInv, Readers
  <1>u. /\ shm' = shm /\ wal' = wal /\ salts' = salts /\ setting' = setting
        /\ walDisk' = walDisk \/ walDisk' = wal
    BY DEF BeginRead, files, rest
  <1>1. Becomes(c, "tryhdr", [NoJob EXCEPT !.kind = "read"],
             wc[c], tx[c])
    BY <1>s, BeginReadDoes
  <1>2. Quiet(c)
    BY <1>0, <1>s, <1>h, <1>u, <1>1, WalAssumption DEF Becomes, Quiet,
       Unmoved, Others, NoCopies, Knows, Known, Call, CallOf, Mine, Marking,
       Checkpointing, Local, ShapeOf, ControlOf, NoJob, NoTx, ZeroHdr, HdrPcs,
       Recovery, MarkPcs, RestartPcs, FramePcs, CopyPcs, ScanPcs, CkptPcs,
       Marks
  <1> QED BY <1>2, QuietStep

LEMMA TryHdrReads ==
  ASSUME TInv, TInv', RInv, NEW c \in Conns, TryHdr(c)
  PROVE  RInv'
  <1>0. pc[c] = "tryhdr"
    BY DEF TryHdr, Step, At
  <1>s. Shaped /\ Local(c) /\ Conn(c) /\ Mine(c)
    BY DEF TInv, LInv, Shaped, Local, Types, RInv
  <1>h. HdrOK(LiveHdr) /\ HdrOK(wc[c].hdr) /\ HdrOK(job[c].h1) /\ (Spared => CkptOf(c))
    BY <1>s DEF TInv, Types, SharedOK, Conn, ConnOf, RInv, Readers
  <1>u. /\ shm' = shm /\ wal' = wal /\ salts' = salts /\ setting' = setting
        /\ walDisk' = walDisk \/ walDisk' = wal
    BY DEF TryHdr, files, rest
  <1>1. Becomes(c, "tryhdr2", [job[c] EXCEPT !.h1 = LiveHdr],
             wc[c], tx[c])
    BY <1>s, TryHdrDoes
  <1>2. Quiet(c)
    BY <1>0, <1>s, <1>h, <1>u, <1>1, WalAssumption DEF Becomes, Quiet,
       Unmoved, Others, NoCopies, Knows, Known, Call, CallOf, Mine, Marking,
       Checkpointing, Below, HdrOK, Local, ShapeOf, ControlOf, NoJob, NoTx,
       ZeroHdr, HdrPcs, Recovery, MarkPcs, RestartPcs, FramePcs, CopyPcs,
       ScanPcs, CkptPcs, Marks
  <1> QED BY <1>2, QuietStep

LEMMA TryHdr2Reads ==
  ASSUME TInv, TInv', RInv, NEW c \in Conns, TryHdr2(c)
  PROVE  RInv'
  <1>0. pc[c] = "tryhdr2"
    BY DEF TryHdr2, Step, At
  <1>s. Shaped /\ Local(c) /\ Conn(c) /\ Mine(c)
    BY DEF TInv, LInv, Shaped, Local, Types, RInv
  <1>h. HdrOK(LiveHdr) /\ HdrOK(wc[c].hdr) /\ HdrOK(job[c].h1) /\ (Spared => CkptOf(c))
    BY <1>s DEF TInv, Types, SharedOK, Conn, ConnOf, RInv, Readers
  <1>u. /\ shm' = shm /\ wal' = wal /\ salts' = salts /\ setting' = setting
        /\ walDisk' = walDisk \/ walDisk' = wal
    BY DEF TryHdr2, Accept, files, rest
  <1>1. CASE job[c].h1 = shm.hdr[2] /\ job[c].h1.isInit
    <2>1. Becomes(c, AfterHdr(c), [job[c] EXCEPT !.h1 = ZeroHdr, !.changed = @ \/ job[c].h1 # wc[c].hdr],
               [wc[c] EXCEPT !.hdr = job[c].h1], tx[c])
      BY <1>s, TryHdr2Does, <1>1
    <2>2. Quiet(c)
      BY <1>0, <1>s, <1>h, <1>u, <1>1, <2>1, WalAssumption DEF Becomes, Quiet,
         Unmoved, Others, NoCopies, Knows, Known, Call, CallOf, Mine, Marking,
         Checkpointing, CkptOf, Below, Local, ShapeOf, ControlOf, NoJob, NoTx,
         ZeroHdr, HdrPcs, Recovery, MarkPcs, RestartPcs, FramePcs, CopyPcs,
         ScanPcs, CkptPcs, Marks, AfterHdr
    <2> QED BY <2>2, QuietStep
  <1>2. CASE ~(job[c].h1 = shm.hdr[2] /\ job[c].h1.isInit)
    <2>1. Becomes(c, "badhdr", [job[c] EXCEPT !.h1 = ZeroHdr],
               wc[c], tx[c])
      BY <1>s, TryHdr2Does, <1>2
    <2>2. Quiet(c)
      BY <1>0, <1>s, <1>h, <1>u, <1>2, <2>1, WalAssumption DEF Becomes, Quiet,
         Unmoved, Others, NoCopies, Knows, Known, Call, CallOf, Mine, Marking,
         Checkpointing, CkptOf, Below, Local, ShapeOf, ControlOf, NoJob, NoTx,
         ZeroHdr, HdrPcs, Recovery, MarkPcs, RestartPcs, FramePcs, CopyPcs,
         ScanPcs, CkptPcs, Marks, AfterHdr
    <2> QED BY <2>2, QuietStep
  <1> QED BY <1>1, <1>2

LEMMA BadHdrReads ==
  ASSUME TInv, TInv', RInv, NEW c \in Conns, BadHdr(c)
  PROVE  RInv'
  <1>0. pc[c] = "badhdr"
    BY DEF BadHdr, Step, At
  <1>s. Shaped /\ Local(c) /\ Conn(c) /\ Mine(c)
    BY DEF TInv, LInv, Shaped, Local, Types, RInv
  <1>h. HdrOK(LiveHdr) /\ HdrOK(wc[c].hdr) /\ HdrOK(job[c].h1) /\ (Spared => CkptOf(c))
    BY <1>s DEF TInv, Types, SharedOK, Conn, ConnOf, RInv, Readers
  <1>u. /\ shm' = shm /\ wal' = wal /\ salts' = salts /\ setting' = setting
        /\ walDisk' = walDisk \/ walDisk' = wal
    BY DEF BadHdr, Accept, files, rest
  <1>1. CASE shm.hdr[1] = shm.hdr[2] /\ LiveHdr.isInit
    <2>1. Becomes(c, AfterHdr(c), [job[c] EXCEPT !.h1 = ZeroHdr, !.changed = @ \/ LiveHdr # wc[c].hdr],
               [wc[c] EXCEPT !.hdr = LiveHdr], tx[c])
      BY <1>s, BadHdrDoes, <1>1
    <2>2. Quiet(c)
      BY <1>0, <1>s, <1>h, <1>u, <1>1, <2>1, WalAssumption DEF Becomes, Quiet,
         Unmoved, Others, NoCopies, Knows, Known, Call, CallOf, Mine, Marking,
         Checkpointing, CkptOf, Below, HdrOK, Local, ShapeOf, ControlOf,
         NoJob, NoTx, ZeroHdr, HdrPcs, Recovery, MarkPcs, RestartPcs,
         FramePcs, CopyPcs, ScanPcs, CkptPcs, Marks, AfterHdr
    <2> QED BY <2>2, QuietStep
  <1>2. CASE ~(shm.hdr[1] = shm.hdr[2] /\ LiveHdr.isInit)
    <2>1. Becomes(c, "recover", job[c],
               wc[c], tx[c])
      BY <1>s, BadHdrDoes, <1>2
    <2>2. Quiet(c)
      BY <1>0, <1>s, <1>h, <1>u, <1>2, <2>1, WalAssumption DEF Becomes, Quiet,
         Unmoved, Others, NoCopies, Knows, Known, Call, CallOf, Mine, Marking,
         Checkpointing, CkptOf, Below, HdrOK, Local, ShapeOf, ControlOf,
         NoJob, NoTx, ZeroHdr, HdrPcs, Recovery, MarkPcs, RestartPcs,
         FramePcs, CopyPcs, ScanPcs, CkptPcs, Marks, AfterHdr
    <2> QED BY <2>2, QuietStep
  <1> QED BY <1>1, <1>2

LEMMA BadHdrBusyReads ==
  ASSUME TInv, TInv', RInv, NEW c \in Conns, BadHdrBusy(c)
  PROVE  RInv'
  <1>0. pc[c] = "badhdr"
    BY DEF BadHdrBusy, Step, At
  <1>s. Shaped /\ Local(c) /\ Conn(c) /\ Mine(c)
    BY DEF TInv, LInv, Shaped, Local, Types, RInv
  <1>h. HdrOK(LiveHdr) /\ HdrOK(wc[c].hdr) /\ HdrOK(job[c].h1) /\ (Spared => CkptOf(c))
    BY <1>s DEF TInv, Types, SharedOK, Conn, ConnOf, RInv, Readers
  <1>u. /\ shm' = shm /\ wal' = wal /\ salts' = salts /\ setting' = setting
        /\ walDisk' = walDisk \/ walDisk' = wal
    BY DEF BadHdrBusy, ReadBusy, files, rest
  <1>1. CASE job[c].kind = "ckpt"
    <2>1. Becomes(c, "ckptend", [job[c] EXCEPT !.ok = FALSE],
               wc[c], tx[c])
      BY <1>s, BadHdrBusyDoes, <1>1
    <2>2. Quiet(c)
      BY <1>0, <1>s, <1>h, <1>u, <1>1, <2>1, WalAssumption DEF Becomes, Quiet,
         Unmoved, Others, NoCopies, Knows, Known, Call, CallOf, Mine, Marking,
         Checkpointing, Local, ShapeOf, ControlOf, NoJob, NoTx, ZeroHdr,
         HdrPcs, Recovery, MarkPcs, RestartPcs, FramePcs, CopyPcs, ScanPcs,
         CkptPcs, Marks
    <2> QED BY <2>2, QuietStep
  <1>2. CASE job[c].kind # "ckpt" /\ Sharable(WAL_RECOVER_LOCK)
    <2>1. Becomes(c, "tryhdr", job[c],
               wc[c], tx[c])
      BY <1>s, BadHdrBusyDoes, <1>2
    <2>2. Quiet(c)
      BY <1>0, <1>s, <1>h, <1>u, <1>2, <2>1, WalAssumption DEF Becomes, Quiet,
         Unmoved, Others, NoCopies, Knows, Known, Call, CallOf, Mine, Marking,
         Checkpointing, Local, ShapeOf, ControlOf, NoJob, NoTx, ZeroHdr,
         HdrPcs, Recovery, MarkPcs, RestartPcs, FramePcs, CopyPcs, ScanPcs,
         CkptPcs, Marks
    <2> QED BY <2>2, QuietStep
  <1>3. CASE job[c].kind # "ckpt" /\ ~Sharable(WAL_RECOVER_LOCK)
    <2>1. Becomes(c, "idle", NoJob,
               wc[c], tx[c])
      BY <1>s, BadHdrBusyDoes, <1>3
    <2>2. Quiet(c)
      BY <1>0, <1>s, <1>h, <1>u, <1>3, <2>1, WalAssumption DEF Becomes, Quiet,
         Unmoved, Others, NoCopies, Knows, Known, Call, CallOf, Mine, Marking,
         Checkpointing, Local, ShapeOf, ControlOf, NoJob, NoTx, ZeroHdr,
         HdrPcs, Recovery, MarkPcs, RestartPcs, FramePcs, CopyPcs, ScanPcs,
         CkptPcs, Marks
    <2> QED BY <2>2, QuietStep
  <1> QED BY <1>1, <1>2, <1>3

LEMMA RecoverLockReads ==
  ASSUME TInv, TInv', RInv, NEW c \in Conns, RecoverLock(c)
  PROVE  RInv'
  <1>0. pc[c] = "recover"
    BY DEF RecoverLock, Step, At
  <1>s. Shaped /\ Local(c) /\ Conn(c) /\ Mine(c)
    BY DEF TInv, LInv, Shaped, Local, Types, RInv
  <1>h. HdrOK(LiveHdr) /\ HdrOK(wc[c].hdr) /\ HdrOK(job[c].h1) /\ (Spared => CkptOf(c))
    BY <1>s DEF TInv, Types, SharedOK, Conn, ConnOf, RInv, Readers
  <1>u. /\ shm' = shm /\ wal' = wal /\ salts' = salts /\ setting' = setting
        /\ walDisk' = walDisk \/ walDisk' = wal
    BY DEF RecoverLock, files, rest
  <1>1. Becomes(c, "recover1", job[c],
             wc[c], tx[c])
    BY <1>s, RecoverLockDoes
  <1>2. Quiet(c)
    BY <1>0, <1>s, <1>h, <1>u, <1>1, WalAssumption DEF Becomes, Quiet,
       Unmoved, Others, NoCopies, Knows, Known, Call, CallOf, Mine, Marking,
       Checkpointing, Local, ShapeOf, ControlOf, NoJob, NoTx, ZeroHdr, HdrPcs,
       Recovery, MarkPcs, RestartPcs, FramePcs, CopyPcs, ScanPcs, CkptPcs,
       Marks
  <1> QED BY <1>2, QuietStep

LEMMA RecoverBusyReads ==
  ASSUME TInv, TInv', RInv, NEW c \in Conns, RecoverBusy(c)
  PROVE  RInv'
  <1>0. pc[c] = "recover"
    BY DEF RecoverBusy, Step, At
  <1>s. Shaped /\ Local(c) /\ Conn(c) /\ Mine(c)
    BY DEF TInv, LInv, Shaped, Local, Types, RInv
  <1>h. HdrOK(LiveHdr) /\ HdrOK(wc[c].hdr) /\ HdrOK(job[c].h1) /\ (Spared => CkptOf(c))
    BY <1>s DEF TInv, Types, SharedOK, Conn, ConnOf, RInv, Readers
  <1>u. /\ shm' = shm /\ wal' = wal /\ salts' = salts /\ setting' = setting
        /\ walDisk' = walDisk \/ walDisk' = wal
    BY DEF RecoverBusy, ReadBusy, files, rest
  <1>1. CASE OwnWrite(c) /\ job[c].kind = "ckpt"
    <2>1. Becomes(c, "ckptend", [job[c] EXCEPT !.changed = TRUE, !.ok = FALSE],
               wc[c], tx[c])
      BY <1>s, RecoverBusyDoes, <1>1
    <2>2. Quiet(c)
      BY <1>0, <1>s, <1>h, <1>u, <1>1, <2>1, WalAssumption DEF Becomes, Quiet,
         Unmoved, Others, NoCopies, Knows, Known, Call, CallOf, Mine, Marking,
         Checkpointing, Local, ShapeOf, ControlOf, NoJob, NoTx, ZeroHdr,
         HdrPcs, Recovery, MarkPcs, RestartPcs, FramePcs, CopyPcs, ScanPcs,
         CkptPcs, Marks, OwnWrite
    <2> QED BY <2>2, QuietStep
  <1>2. CASE OwnWrite(c) /\ job[c].kind # "ckpt" /\ Sharable(WAL_RECOVER_LOCK)
    <2>1. Becomes(c, "tryhdr", [job[c] EXCEPT !.changed = TRUE],
               wc[c], tx[c])
      BY <1>s, RecoverBusyDoes, <1>2
    <2>2. Quiet(c)
      BY <1>0, <1>s, <1>h, <1>u, <1>2, <2>1, WalAssumption DEF Becomes, Quiet,
         Unmoved, Others, NoCopies, Knows, Known, Call, CallOf, Mine, Marking,
         Checkpointing, Local, ShapeOf, ControlOf, NoJob, NoTx, ZeroHdr,
         HdrPcs, Recovery, MarkPcs, RestartPcs, FramePcs, CopyPcs, ScanPcs,
         CkptPcs, Marks, OwnWrite
    <2> QED BY <2>2, QuietStep
  <1>3. CASE OwnWrite(c) /\ job[c].kind # "ckpt" /\ ~Sharable(WAL_RECOVER_LOCK)
    <2>1. Becomes(c, "idle", NoJob,
               wc[c], tx[c])
      BY <1>s, RecoverBusyDoes, <1>3
    <2>2. Quiet(c)
      BY <1>0, <1>s, <1>h, <1>u, <1>3, <2>1, WalAssumption DEF Becomes, Quiet,
         Unmoved, Others, NoCopies, Knows, Known, Call, CallOf, Mine, Marking,
         Checkpointing, Local, ShapeOf, ControlOf, NoJob, NoTx, ZeroHdr,
         HdrPcs, Recovery, MarkPcs, RestartPcs, FramePcs, CopyPcs, ScanPcs,
         CkptPcs, Marks, OwnWrite
    <2> QED BY <2>2, QuietStep
  <1>4. CASE ~OwnWrite(c) /\ job[c].kind = "ckpt"
    <2>1. Becomes(c, "ckptend", [job[c] EXCEPT !.changed = TRUE, !.ok = FALSE],
               wc[c], tx[c])
      BY <1>s, RecoverBusyDoes, <1>4
    <2>2. Quiet(c)
      BY <1>0, <1>s, <1>h, <1>u, <1>4, <2>1, WalAssumption DEF Becomes, Quiet,
         Unmoved, Others, NoCopies, Knows, Known, Call, CallOf, Mine, Marking,
         Checkpointing, Local, ShapeOf, ControlOf, NoJob, NoTx, ZeroHdr,
         HdrPcs, Recovery, MarkPcs, RestartPcs, FramePcs, CopyPcs, ScanPcs,
         CkptPcs, Marks, OwnWrite
    <2> QED BY <2>2, QuietStep
  <1>5. CASE ~OwnWrite(c) /\ job[c].kind # "ckpt" /\ Sharable(WAL_RECOVER_LOCK)
    <2>1. Becomes(c, "tryhdr", [job[c] EXCEPT !.changed = TRUE],
               wc[c], tx[c])
      BY <1>s, RecoverBusyDoes, <1>5
    <2>2. Quiet(c)
      BY <1>0, <1>s, <1>h, <1>u, <1>5, <2>1, WalAssumption DEF Becomes, Quiet,
         Unmoved, Others, NoCopies, Knows, Known, Call, CallOf, Mine, Marking,
         Checkpointing, Local, ShapeOf, ControlOf, NoJob, NoTx, ZeroHdr,
         HdrPcs, Recovery, MarkPcs, RestartPcs, FramePcs, CopyPcs, ScanPcs,
         CkptPcs, Marks, OwnWrite
    <2> QED BY <2>2, QuietStep
  <1>6. CASE ~OwnWrite(c) /\ job[c].kind # "ckpt" /\ ~Sharable(WAL_RECOVER_LOCK)
    <2>1. Becomes(c, "idle", NoJob,
               wc[c], tx[c])
      BY <1>s, RecoverBusyDoes, <1>6
    <2>2. Quiet(c)
      BY <1>0, <1>s, <1>h, <1>u, <1>6, <2>1, WalAssumption DEF Becomes, Quiet,
         Unmoved, Others, NoCopies, Knows, Known, Call, CallOf, Mine, Marking,
         Checkpointing, Local, ShapeOf, ControlOf, NoJob, NoTx, ZeroHdr,
         HdrPcs, Recovery, MarkPcs, RestartPcs, FramePcs, CopyPcs, ScanPcs,
         CkptPcs, Marks, OwnWrite
    <2> QED BY <2>2, QuietStep
  <1> QED BY <1>1, <1>2, <1>3, <1>4, <1>5, <1>6

LEMMA ChooseDbReads ==
  ASSUME TInv, TInv', RInv, NEW c \in Conns, ChooseDb(c)
  PROVE  RInv'
  <1>0. pc[c] = "choose"
    BY DEF ChooseDb, Step, At
  <1>s. Shaped /\ Local(c) /\ Conn(c) /\ Mine(c)
    BY DEF TInv, LInv, Shaped, Local, Types, RInv
  <1>h. HdrOK(LiveHdr) /\ HdrOK(wc[c].hdr) /\ HdrOK(job[c].h1) /\ (Spared => CkptOf(c))
    BY <1>s DEF TInv, Types, SharedOK, Conn, ConnOf, RInv, Readers
  <1>u. /\ shm' = shm /\ wal' = wal /\ salts' = salts /\ setting' = setting
        /\ walDisk' = walDisk \/ walDisk' = wal
    BY DEF ChooseDb, files, rest
  <1>1. Becomes(c, "check0", job[c],
             wc[c], tx[c])
    BY <1>s, ChooseDbDoes
  <1>2. Quiet(c)
    BY <1>0, <1>s, <1>h, <1>u, <1>1, WalAssumption DEF Becomes, Quiet,
       Unmoved, Others, NoCopies, Knows, Known, Call, CallOf, Mine, Marking,
       Checkpointing, Local, ShapeOf, ControlOf, NoJob, NoTx, ZeroHdr, HdrPcs,
       Recovery, MarkPcs, RestartPcs, FramePcs, CopyPcs, ScanPcs, CkptPcs,
       Marks
  <1> QED BY <1>2, QuietStep

LEMMA Check0Reads ==
  ASSUME TInv, TInv', RInv, NEW c \in Conns, Check0(c)
  PROVE  RInv'
  <1>0. pc[c] = "check0"
    BY DEF Check0, Step, At
  <1>s. Shaped /\ Local(c) /\ Conn(c) /\ Mine(c)
    BY DEF TInv, LInv, Shaped, Local, Types, RInv
  <1>h. HdrOK(LiveHdr) /\ HdrOK(wc[c].hdr) /\ HdrOK(job[c].h1) /\ (Spared => CkptOf(c))
    BY <1>s DEF TInv, Types, SharedOK, Conn, ConnOf, RInv, Readers
  <1>u. /\ shm' = shm /\ wal' = wal /\ salts' = salts /\ setting' = setting
        /\ walDisk' = walDisk \/ walDisk' = wal
    BY DEF Check0, ReadBegun, Retry, files, rest
  <1>1. CASE wc[c].hdr = LiveHdr /\ job[c].useWal
    <2>1. Becomes(c, "log", [job[c] EXCEPT !.useWal = FALSE],
               [wc[c] EXCEPT !.readLock = 0], tx[c])
      BY <1>s, Check0Does, <1>1
    <2>2. Quiet(c)
      BY <1>0, <1>s, <1>h, <1>u, <1>1, <2>1, WalAssumption DEF Becomes, Quiet,
         Unmoved, Others, NoCopies, Knows, Known, Call, CallOf, Mine, Marking,
         Checkpointing, Local, ShapeOf, ControlOf, NoJob, NoTx, ZeroHdr,
         HdrPcs, Recovery, MarkPcs, RestartPcs, FramePcs, CopyPcs, ScanPcs,
         CkptPcs, Marks
    <2> QED BY <2>2, QuietStep
  <1>2. CASE wc[c].hdr = LiveHdr /\ ~job[c].useWal
    <2>1. Becomes(c, "idle", NoJob,
               [wc[c] EXCEPT !.readLock = 0], tx[c])
      BY <1>s, Check0Does, <1>2
    <2>2. Quiet(c)
      BY <1>0, <1>s, <1>h, <1>u, <1>2, <2>1, WalAssumption DEF Becomes, Quiet,
         Unmoved, Others, NoCopies, Knows, Known, Call, CallOf, Mine, Marking,
         Checkpointing, Local, ShapeOf, ControlOf, NoJob, NoTx, ZeroHdr,
         HdrPcs, Recovery, MarkPcs, RestartPcs, FramePcs, CopyPcs, ScanPcs,
         CkptPcs, Marks
    <2> QED BY <2>2, QuietStep
  <1>3. CASE wc[c].hdr # LiveHdr
    <2>1. Becomes(c, IF job[c].useWal THEN "scan" ELSE "tryhdr", [job[c] EXCEPT !.mxI = 0, !.mark = 0],
               wc[c], tx[c])
      BY <1>s, Check0Does, <1>3
    <2>2. Quiet(c)
      BY <1>0, <1>s, <1>h, <1>u, <1>3, <2>1, WalAssumption DEF Becomes, Quiet,
         Unmoved, Others, NoCopies, Knows, Known, Call, CallOf, Mine, Marking,
         Checkpointing, Local, ShapeOf, ControlOf, NoJob, NoTx, ZeroHdr,
         HdrPcs, Recovery, MarkPcs, RestartPcs, FramePcs, CopyPcs, ScanPcs,
         CkptPcs, Marks
    <2> QED BY <2>2, QuietStep
  <1> QED BY <1>1, <1>2, <1>3

LEMMA EndReadReads ==
  ASSUME TInv, TInv', RInv, NEW c \in Conns, EndRead(c)
  PROVE  RInv'
  <1>0. pc[c] = "idle" /\ wc[c].readLock >= 0 /\ ~tx[c].on
    BY DEF EndRead, Idle, Reading, Step, At
  <1>s. Shaped /\ Local(c) /\ Conn(c) /\ Mine(c)
    BY DEF TInv, LInv, Shaped, Local, Types, RInv
  <1>h. HdrOK(LiveHdr) /\ HdrOK(wc[c].hdr) /\ HdrOK(job[c].h1) /\ (Spared => CkptOf(c))
    BY <1>s DEF TInv, Types, SharedOK, Conn, ConnOf, RInv, Readers
  <1>u. /\ shm' = shm /\ wal' = wal /\ salts' = salts /\ setting' = setting
        /\ walDisk' = walDisk \/ walDisk' = wal
    BY DEF EndRead, files, rest
  <1>1. Becomes(c, pc[c], job[c],
             [wc[c] EXCEPT !.readLock = -1], tx[c])
    BY <1>s, EndReadDoes
  <1>2. Quiet(c)
    BY <1>0, <1>s, <1>h, <1>u, <1>1, WalAssumption DEF Becomes, Quiet,
       Unmoved, Others, NoCopies, Knows, Known, Call, CallOf, Mine, Marking,
       Checkpointing, Local, ShapeOf, ControlOf, NoJob, NoTx, ZeroHdr, HdrPcs,
       Recovery, MarkPcs, RestartPcs, FramePcs, CopyPcs, ScanPcs, CkptPcs,
       Marks
  <1> QED BY <1>2, QuietStep

LEMMA StartCkptReads ==
  ASSUME TInv, TInv', RInv, NEW c \in Conns, NEW mode \in Modes, StartCkpt(c, mode)
  PROVE  RInv'
  <1>0. pc[c] = "idle" /\ ~(wc[c].readLock >= 0)
    BY DEF StartCkpt, Idle, Reading, Step, At
  <1>s. Shaped /\ Local(c) /\ Conn(c) /\ Mine(c)
    BY DEF TInv, LInv, Shaped, Local, Types, RInv
  <1>h. HdrOK(LiveHdr) /\ HdrOK(wc[c].hdr) /\ HdrOK(job[c].h1) /\ (Spared => CkptOf(c))
    BY <1>s DEF TInv, Types, SharedOK, Conn, ConnOf, RInv, Readers
  <1>u. /\ shm' = shm /\ wal' = wal /\ salts' = salts /\ setting' = setting
        /\ walDisk' = walDisk \/ walDisk' = wal
    BY DEF StartCkpt, files, rest
  <1>1. Becomes(c, IF mode \in {"full", "truncate"} THEN "ckptwrite" ELSE "tryhdr", [NoJob EXCEPT !.kind = "ckpt", !.mode = mode],
             wc[c], tx[c])
    BY <1>s, StartCkptDoes
  <1>2. Quiet(c)
    BY <1>0, <1>s, <1>h, <1>u, <1>1, WalAssumption DEF Becomes, Quiet,
       Unmoved, Others, NoCopies, Knows, Known, Call, CallOf, Mine, Marking,
       Checkpointing, Local, ShapeOf, ControlOf, NoJob, NoTx, ZeroHdr, HdrPcs,
       Recovery, MarkPcs, RestartPcs, FramePcs, CopyPcs, ScanPcs, CkptPcs,
       Marks
  <1> QED BY <1>2, QuietStep

LEMMA CkptWriteReads ==
  ASSUME TInv, TInv', RInv, NEW c \in Conns, CkptWrite(c)
  PROVE  RInv'
  <1>0. pc[c] = "ckptwrite"
    BY DEF CkptWrite, Step, At
  <1>s. Shaped /\ Local(c) /\ Conn(c) /\ Mine(c)
    BY DEF TInv, LInv, Shaped, Local, Types, RInv
  <1>h. HdrOK(LiveHdr) /\ HdrOK(wc[c].hdr) /\ HdrOK(job[c].h1) /\ (Spared => CkptOf(c))
    BY <1>s DEF TInv, Types, SharedOK, Conn, ConnOf, RInv, Readers
  <1>u. /\ shm' = shm /\ wal' = wal /\ salts' = salts /\ setting' = setting
        /\ walDisk' = walDisk \/ walDisk' = wal
    BY DEF CkptWrite, files, rest
  <1>1. CASE Lockable({WAL_WRITE_LOCK})
    <2>1. Becomes(c, "tryhdr", job[c],
               wc[c], tx[c])
      BY <1>s, CkptWriteDoes, <1>1
    <2>2. Quiet(c)
      BY <1>0, <1>s, <1>h, <1>u, <1>1, <2>1, WalAssumption DEF Becomes, Quiet,
         Unmoved, Others, NoCopies, Knows, Known, Call, CallOf, Mine, Marking,
         Checkpointing, Local, ShapeOf, ControlOf, NoJob, NoTx, ZeroHdr,
         HdrPcs, Recovery, MarkPcs, RestartPcs, FramePcs, CopyPcs, ScanPcs,
         CkptPcs, Marks
    <2> QED BY <2>2, QuietStep
  <1>2. CASE ~Lockable({WAL_WRITE_LOCK})
    <2>1. Becomes(c, "tryhdr", [job[c] EXCEPT !.mode = "passive"],
               wc[c], tx[c])
      BY <1>s, CkptWriteDoes, <1>2
    <2>2. Quiet(c)
      BY <1>0, <1>s, <1>h, <1>u, <1>2, <2>1, WalAssumption DEF Becomes, Quiet,
         Unmoved, Others, NoCopies, Knows, Known, Call, CallOf, Mine, Marking,
         Checkpointing, Local, ShapeOf, ControlOf, NoJob, NoTx, ZeroHdr,
         HdrPcs, Recovery, MarkPcs, RestartPcs, FramePcs, CopyPcs, ScanPcs,
         CkptPcs, Marks
    <2> QED BY <2>2, QuietStep
  <1> QED BY <1>1, <1>2

LEMMA CkptFailsReads ==
  ASSUME TInv, TInv', RInv, NEW c \in Conns, CkptFails(c)
  PROVE  RInv'
  <1>0. pc[c] \in {"synclog", "copy", "syncdb"}
    BY DEF CkptFails, Step, At
  <1>s. Shaped /\ Local(c) /\ Conn(c) /\ Mine(c)
    BY DEF TInv, LInv, Shaped, Local, Types, RInv
  <1>h. HdrOK(LiveHdr) /\ HdrOK(wc[c].hdr) /\ HdrOK(job[c].h1) /\ (Spared => CkptOf(c))
    BY <1>s DEF TInv, Types, SharedOK, Conn, ConnOf, RInv, Readers
  <1>u. /\ shm' = shm /\ wal' = wal /\ salts' = salts /\ setting' = setting
        /\ walDisk' = walDisk \/ walDisk' = wal
    BY DEF CkptFails, files, rest
  <1>1. Becomes(c, "ckptend", [job[c] EXCEPT !.ok = FALSE],
             wc[c], tx[c])
    BY <1>s, CkptFailsDoes
  <1>2. Quiet(c)
    BY <1>0, <1>s, <1>h, <1>u, <1>1, WalAssumption DEF Becomes, Quiet,
       Unmoved, Others, NoCopies, Knows, Known, Call, CallOf, Mine, Marking,
       Checkpointing, Local, ShapeOf, ControlOf, NoJob, NoTx, ZeroHdr, HdrPcs,
       Recovery, MarkPcs, RestartPcs, FramePcs, CopyPcs, ScanPcs, CkptPcs,
       Marks
  <1> QED BY <1>2, QuietStep

LEMMA CkptDoneReads ==
  ASSUME TInv, TInv', RInv, NEW c \in Conns, CkptDone(c)
  PROVE  RInv'
  <1>0. pc[c] = "ckptdone"
    BY DEF CkptDone, Step, At
  <1>s. Shaped /\ Local(c) /\ Conn(c) /\ Mine(c)
    BY DEF TInv, LInv, Shaped, Local, Types, RInv
  <1>h. HdrOK(LiveHdr) /\ HdrOK(wc[c].hdr) /\ HdrOK(job[c].h1) /\ (Spared => CkptOf(c))
    BY <1>s DEF TInv, Types, SharedOK, Conn, ConnOf, RInv, Readers
  <1>u. /\ shm' = shm /\ wal' = wal /\ salts' = salts /\ setting' = setting
        /\ walDisk' = walDisk \/ walDisk' = wal
    BY DEF CkptDone, files, rest
  <1>1. Becomes(c, IF shm.nBackfill >= wc[c].hdr.mxFrame THEN "restart" ELSE "ckptend", job[c],
             wc[c], tx[c])
    BY <1>s, CkptDoneDoes
  <1>2. Quiet(c)
    BY <1>0, <1>s, <1>h, <1>u, <1>1, WalAssumption DEF Becomes, Quiet,
       Unmoved, Others, NoCopies, Knows, Known, Call, CallOf, Mine, Marking,
       Checkpointing, Local, ShapeOf, ControlOf, NoJob, NoTx, ZeroHdr, HdrPcs,
       Recovery, MarkPcs, RestartPcs, FramePcs, CopyPcs, ScanPcs, CkptPcs,
       Marks
  <1> QED BY <1>2, QuietStep

LEMMA CkptEndReads ==
  ASSUME TInv, TInv', RInv, NEW c \in Conns, CkptEnd(c)
  PROVE  RInv'
  <1>0. pc[c] = "ckptend"
    BY DEF CkptEnd, Step, At
  <1>s. Shaped /\ Local(c) /\ Conn(c) /\ Mine(c)
    BY DEF TInv, LInv, Shaped, Local, Types, RInv
  <1>h. HdrOK(LiveHdr) /\ HdrOK(wc[c].hdr) /\ HdrOK(job[c].h1) /\ (Spared => CkptOf(c))
    BY <1>s DEF TInv, Types, SharedOK, Conn, ConnOf, RInv, Readers
  <1>u. /\ shm' = shm /\ wal' = wal /\ salts' = salts /\ setting' = setting
        /\ walDisk' = walDisk \/ walDisk' = wal
    BY DEF CkptEnd, files, rest
  <1>1. CASE Closing(c)
    <2>1. Becomes(c, "closewal", job[c],
               IF job[c].changed THEN [wc[c] EXCEPT !.hdr = ZeroHdr] ELSE wc[c], tx[c])
      BY <1>s, CkptEndDoes, <1>1
    <2>2. Quiet(c)
      BY <1>0, <1>s, <1>h, <1>u, <1>1, <2>1, WalAssumption DEF Becomes, Quiet,
         Unmoved, Others, NoCopies, Knows, Known, Call, CallOf, Mine, Marking,
         Checkpointing, Local, ShapeOf, ControlOf, NoJob, NoTx, ZeroHdr,
         HdrPcs, Recovery, MarkPcs, RestartPcs, FramePcs, CopyPcs, ScanPcs,
         CkptPcs, Marks, Closing, OwnWrite
    <2> QED BY <2>2, QuietStep
  <1>2. CASE ~Closing(c)
    <2>1. Becomes(c, "idle", NoJob,
               IF job[c].changed THEN [wc[c] EXCEPT !.hdr = ZeroHdr] ELSE wc[c], tx[c])
      BY <1>s, CkptEndDoes, <1>2
    <2>2. Quiet(c)
      BY <1>0, <1>s, <1>h, <1>u, <1>2, <2>1, WalAssumption DEF Becomes, Quiet,
         Unmoved, Others, NoCopies, Knows, Known, Call, CallOf, Mine, Marking,
         Checkpointing, Local, ShapeOf, ControlOf, NoJob, NoTx, ZeroHdr,
         HdrPcs, Recovery, MarkPcs, RestartPcs, FramePcs, CopyPcs, ScanPcs,
         CkptPcs, Marks, Closing, OwnWrite
    <2> QED BY <2>2, QuietStep
  <1> QED BY <1>1, <1>2

LEMMA OpenReads ==
  ASSUME TInv, TInv', RInv, NEW c \in Conns, Open(c)
  PROVE  RInv'
  <1>0. pc[c] = "closed"
    BY DEF Open, Step, At
  <1>s. Shaped /\ Local(c) /\ Conn(c) /\ Mine(c)
    BY DEF TInv, LInv, Shaped, Local, Types, RInv
  <1>h. HdrOK(LiveHdr) /\ HdrOK(wc[c].hdr) /\ HdrOK(job[c].h1) /\ (Spared => CkptOf(c))
    BY <1>s DEF TInv, Types, SharedOK, Conn, ConnOf, RInv, Readers
  <1>u. /\ shm' = shm /\ wal' = wal /\ salts' = salts /\ setting' = setting
        /\ walDisk' = walDisk \/ walDisk' = wal
    BY DEF Open, files, rest
  <1>1. Becomes(c, "idle", job[c],
             wc[c], tx[c])
    BY <1>s, OpenDoes
  <1>2. Quiet(c)
    BY <1>0, <1>s, <1>h, <1>u, <1>1, WalAssumption DEF Becomes, Quiet,
       Unmoved, Others, NoCopies, Knows, Known, Call, CallOf, Mine, Marking,
       Checkpointing, Local, ShapeOf, ControlOf, NoJob, NoTx, ZeroHdr, HdrPcs,
       Recovery, MarkPcs, RestartPcs, FramePcs, CopyPcs, ScanPcs, CkptPcs,
       Marks
  <1> QED BY <1>2, QuietStep

LEMMA ModifyReads ==
  ASSUME TInv, TInv', RInv, NEW c \in Conns, NEW p \in Pages, Modify(c, p)
  PROVE  RInv'
  <1>0. pc[c] = "idle" /\ tx[c].on
    BY DEF Modify, InWrite, Idle, Step, At
  <1>s. Shaped /\ Local(c) /\ Conn(c) /\ Mine(c)
    BY DEF TInv, LInv, Shaped, Local, Types, RInv
  <1>h. HdrOK(LiveHdr) /\ HdrOK(wc[c].hdr) /\ HdrOK(job[c].h1) /\ (Spared => CkptOf(c))
    BY <1>s DEF TInv, Types, SharedOK, Conn, ConnOf, RInv, Readers
  <1>u. /\ shm' = shm /\ wal' = wal /\ salts' = salts /\ setting' = setting
        /\ walDisk' = walDisk \/ walDisk' = wal
    BY DEF Modify, files, rest
  <1>v. LiveHdr' = LiveHdr
    BY <1>u DEF LiveHdr
  <1>1. Becomes(c, pc[c], job[c],
             wc[c], [tx[c] EXCEPT !.dirty = Put(tx[c].dirty, p, writes + 1), !.size = Largest({@, p})])
    BY <1>s, ModifyDoes
  <1>2. Private(c)
    BY <1>0, <1>s, <1>h, <1>u, <1>v, <1>1, WalAssumption DEF Becomes, Private,
       Unmoved, Others, NoCopies, Known, Call, CallOf, Mine, Marking,
       Checkpointing, WriterOf, LogOf, Reached, CommitWritten, Unpublished,
       Local, ShapeOf, ControlOf, NoJob, NoTx, ZeroHdr, HdrPcs, Recovery,
       MarkPcs, RestartPcs, FramePcs, CopyPcs, ScanPcs, CkptPcs, Marks
  <1> QED BY <1>2, PrivateStep

LEMMA ShrinkReads ==
  ASSUME TInv, TInv', RInv, NEW c \in Conns, Shrink(c)
  PROVE  RInv'
  <1>0. pc[c] = "idle" /\ tx[c].on
    BY DEF Shrink, InWrite, Idle, Step, At
  <1>s. Shaped /\ Local(c) /\ Conn(c) /\ Mine(c)
    BY DEF TInv, LInv, Shaped, Local, Types, RInv
  <1>h. HdrOK(LiveHdr) /\ HdrOK(wc[c].hdr) /\ HdrOK(job[c].h1) /\ (Spared => CkptOf(c))
    BY <1>s DEF TInv, Types, SharedOK, Conn, ConnOf, RInv, Readers
  <1>u. /\ shm' = shm /\ wal' = wal /\ salts' = salts /\ setting' = setting
        /\ walDisk' = walDisk \/ walDisk' = wal
    BY DEF Shrink, files, rest
  <1>v. LiveHdr' = LiveHdr
    BY <1>u DEF LiveHdr
  <1>1. Becomes(c, pc[c], job[c],
             wc[c], [tx[c] EXCEPT !.size = @ - 1])
    BY <1>s, ShrinkDoes
  <1>2. Private(c)
    BY <1>0, <1>s, <1>h, <1>u, <1>v, <1>1, WalAssumption DEF Becomes, Private,
       Unmoved, Others, NoCopies, Known, Call, CallOf, Mine, Marking,
       Checkpointing, WriterOf, LogOf, Reached, CommitWritten, Unpublished,
       Local, ShapeOf, ControlOf, NoJob, NoTx, ZeroHdr, HdrPcs, Recovery,
       MarkPcs, RestartPcs, FramePcs, CopyPcs, ScanPcs, CkptPcs, Marks
  <1> QED BY <1>2, PrivateStep

(* A writer sets out to write frames.                                      *)
LEMMA FramesStartPrivately ==
  ASSUME NEW c \in Conns, NEW list, NEW commit,
         ShapeOf(wc[c], tx[c], job[c]), Mine(c), HdrOK(LiveHdr), HdrOK(wc[c].hdr),
         pc[c] = "idle", tx[c].on, ~tx[c].failed,
         shm' = shm, wal' = wal, salts' = salts, setting' = setting, LiveHdr' = LiveHdr,
         walDisk' = walDisk \/ walDisk' = wal,
         Becomes(c, IF wc[c].readLock = 0 THEN "restart" ELSE "log", FramesJob(c, list, commit),
                 wc[c], tx[c])
  PROVE  Private(c)
  <1>1. /\ pc'[c] = IF wc[c].readLock = 0 THEN "restart" ELSE "log"
        /\ wc'[c] = wc[c] /\ tx'[c] = tx[c] /\ Unmoved(c)
    BY DEF Becomes, Unmoved
  <1>2. /\ job'[c].kind = "write" /\ job'[c].mxI = 0 /\ job'[c].h1.salt = 0
        /\ job'[c].iFirst = IF wc[c].hdr = LiveHdr THEN 0 ELSE LiveHdr.mxFrame + 1
    BY DEF Becomes, FramesJob, NoJob, ZeroHdr
  <1>3. /\ pc'[c] \in {"restart", "log"}
        /\ pc'[c] = "restart" => wc[c].readLock = 0
        /\ pc'[c] \notin NoCopies /\ ~Marking(pc'[c]) /\ ~Checkpointing(pc'[c])
    BY <1>1 DEF NoCopies, Marking, Checkpointing, ScanPcs, CopyPcs
  <1>4. LiveHdr.mxFrame \in Nat /\ wc[c].hdr.mxFrame \in Nat
    BY DEF HdrOK
  <1>5. Call(c)'
    <2>1. job'[c].iFirst \in Nat
      BY <1>2, <1>4
    <2> QED BY <1>1, <1>2, <1>3, <2>1 DEF Call, CallOf, ScanPcs, CopyPcs
  <1>6. WriterOf(c)'
    BY <1>1, <1>3 DEF Mine, WriterOf, Unpublished
  <1>7. LogOf(c)'
    <2>1. Reached(c)' = wc[c].hdr.mxFrame + 0 /\ Reached(c) = wc[c].hdr.mxFrame + 0
      BY <1>1, <1>3 DEF Reached
    <2>2. ~CommitWritten(c)'
      <3>1. pc'[c] # "publish" /\ pc'[c] \notin {"sync", "index"}
        BY <1>3
      <3> QED BY <3>1, Zenon DEF CommitWritten
    <2>3. pc'[c] = "restart" => job'[c].iFirst = 0
      BY <1>2, <1>3 DEF Mine, WriterOf
    <2>4. job'[c].iFirst = 0 \/ (job'[c].iFirst = LiveHdr.mxFrame + 1 /\ pc'[c] \notin RestartPcs)
      <3>1. CASE pc'[c] = "restart"
        BY <2>3, <3>1
      <3>2. CASE pc'[c] = "log"
        <4>1. pc'[c] \notin RestartPcs
          BY <3>2 DEF RestartPcs
        <4>2. job'[c].iFirst = 0 \/ job'[c].iFirst = LiveHdr.mxFrame + 1
          BY <1>2
        <4> QED BY <4>1, <4>2
      <3> QED BY <1>3, <3>1, <3>2
    <2> QED BY <1>1, <1>3, <2>1, <2>2, <2>4 DEF Mine, LogOf
  <1> QED BY <1>1, <1>2, <1>3, <1>5, <1>6, <1>7 DEF Private, Known

LEMMA SpillReads ==
  ASSUME TInv, TInv', RInv, NEW c \in Conns, NEW p \in Pages, Spill(c, p)
  PROVE  RInv'
  <1>0. pc[c] = "idle" /\ tx[c].on
    BY DEF Spill, InWrite, Idle, Step, At
  <1>s. Shaped /\ Local(c) /\ Conn(c) /\ Mine(c)
    BY DEF TInv, LInv, Shaped, Local, Types, RInv
  <1>h. HdrOK(LiveHdr) /\ HdrOK(wc[c].hdr) /\ HdrOK(job[c].h1) /\ (Spared => CkptOf(c))
    BY <1>s DEF TInv, Types, SharedOK, Conn, ConnOf, RInv, Readers
  <1>u. /\ shm' = shm /\ wal' = wal /\ salts' = salts /\ setting' = setting
        /\ walDisk' = walDisk \/ walDisk' = wal
    BY DEF Spill, FramesStart, files, rest
  <1>v. LiveHdr' = LiveHdr
    BY <1>u DEF LiveHdr
  <1>o. tx[c].on /\ ~tx[c].failed
    BY <1>0, <1>s DEF Spill, InWrite
  <1>1. Becomes(c, IF wc[c].readLock = 0 THEN "restart" ELSE "log", FramesJob(c, <<p>>, FALSE),
             wc[c], tx[c])
    BY <1>s, SpillDoes
  <1>2. Private(c)
    BY <1>0, <1>s, <1>h, <1>u, <1>v, <1>1, <1>o, FramesStartPrivately DEF Local
  <1> QED BY <1>2, PrivateStep

LEMMA CommitReads ==
  ASSUME TInv, TInv', RInv, NEW c \in Conns, Commit(c)
  PROVE  RInv'
  <1>0. pc[c] = "idle" /\ tx[c].on
    BY DEF Commit, InWrite, Idle, Step, At
  <1>s. Shaped /\ Local(c) /\ Conn(c) /\ Mine(c)
    BY DEF TInv, LInv, Shaped, Local, Types, RInv
  <1>h. HdrOK(LiveHdr) /\ HdrOK(wc[c].hdr) /\ HdrOK(job[c].h1) /\ (Spared => CkptOf(c))
    BY <1>s DEF TInv, Types, SharedOK, Conn, ConnOf, RInv, Readers
  <1>u. /\ shm' = shm /\ wal' = wal /\ salts' = salts /\ setting' = setting
        /\ walDisk' = walDisk \/ walDisk' = wal
    BY DEF Commit, FramesStart, files, rest
  <1>v. LiveHdr' = LiveHdr
    BY <1>u DEF LiveHdr
  <1>o. tx[c].on /\ ~tx[c].failed
    BY <1>0, <1>s DEF Commit, InWrite
  <1>1. PICK list \in CommitLists(c) : list # <<>> /\ Becomes(c, IF wc[c].readLock = 0 THEN "restart" ELSE "log", FramesJob(c, list, TRUE),
             wc[c], tx[c])
    BY <1>s, CommitDoes
  <1>2. Private(c)
    BY <1>0, <1>s, <1>h, <1>u, <1>v, <1>1, <1>o, FramesStartPrivately DEF Local
  <1> QED BY <1>2, PrivateStep

LEMMA SyncHeaderReads ==
  ASSUME TInv, TInv', RInv, NEW c \in Conns, SyncHeader(c)
  PROVE  RInv'
  <1>0. pc[c] = "synchdr"
    BY DEF SyncHeader, Step, At
  <1>s. Shaped /\ Local(c) /\ Conn(c) /\ Mine(c)
    BY DEF TInv, LInv, Shaped, Local, Types, RInv
  <1>h. HdrOK(LiveHdr) /\ HdrOK(wc[c].hdr) /\ HdrOK(job[c].h1) /\ (Spared => CkptOf(c))
    BY <1>s DEF TInv, Types, SharedOK, Conn, ConnOf, RInv, Readers
  <1>u. /\ shm' = shm /\ wal' = wal /\ salts' = salts /\ setting' = setting
        /\ walDisk' = walDisk \/ walDisk' = wal
    BY DEF SyncHeader, files, rest
  <1>v. LiveHdr' = LiveHdr
    BY <1>u DEF LiveHdr
  <1>o. tx[c].on
    BY <1>0, <1>s DEF Local, ControlOf, HdrPcs, Recovery, MarkPcs, RestartPcs, FramePcs, CopyPcs, ScanPcs, CkptPcs, Marks
  <1>1. Becomes(c, "frames", job[c],
             wc[c], tx[c])
    BY <1>s, SyncHeaderDoes
  <1>2. Private(c)
    BY <1>0, <1>s, <1>h, <1>u, <1>v, <1>1, <1>o, WalAssumption DEF Becomes,
       Private, Unmoved, Others, NoCopies, Known, Call, CallOf, Mine, Marking,
       Checkpointing, WriterOf, LogOf, Reached, CommitWritten, Unpublished,
       Local, ShapeOf, ControlOf, NoJob, NoTx, ZeroHdr, HdrPcs, Recovery,
       MarkPcs, RestartPcs, FramePcs, CopyPcs, ScanPcs, CkptPcs, Marks
  <1> QED BY <1>2, PrivateStep

LEMMA SyncFramesReads ==
  ASSUME TInv, TInv', RInv, NEW c \in Conns, SyncFrames(c)
  PROVE  RInv'
  <1>0. pc[c] = "sync"
    BY DEF SyncFrames, Step, At
  <1>s. Shaped /\ Local(c) /\ Conn(c) /\ Mine(c)
    BY DEF TInv, LInv, Shaped, Local, Types, RInv
  <1>h. HdrOK(LiveHdr) /\ HdrOK(wc[c].hdr) /\ HdrOK(job[c].h1) /\ (Spared => CkptOf(c))
    BY <1>s DEF TInv, Types, SharedOK, Conn, ConnOf, RInv, Readers
  <1>u. /\ shm' = shm /\ wal' = wal /\ salts' = salts /\ setting' = setting
        /\ walDisk' = walDisk \/ walDisk' = wal
    BY DEF SyncFrames, files, rest
  <1>v. LiveHdr' = LiveHdr
    BY <1>u DEF LiveHdr
  <1>o. tx[c].on
    BY <1>0, <1>s DEF Local, ControlOf, HdrPcs, Recovery, MarkPcs, RestartPcs, FramePcs, CopyPcs, ScanPcs, CkptPcs, Marks
  <1>1. Becomes(c, "index", job[c],
             wc[c], tx[c])
    BY <1>s, SyncFramesDoes
  <1>2. Private(c)
    BY <1>0, <1>s, <1>h, <1>u, <1>v, <1>1, <1>o, WalAssumption DEF Becomes,
       Private, Unmoved, Others, NoCopies, Known, Call, CallOf, Mine, Marking,
       Checkpointing, WriterOf, LogOf, Reached, CommitWritten, Unpublished,
       Local, ShapeOf, ControlOf, NoJob, NoTx, ZeroHdr, HdrPcs, Recovery,
       MarkPcs, RestartPcs, FramePcs, CopyPcs, ScanPcs, CkptPcs, Marks
  <1> QED BY <1>2, PrivateStep

(* The mark that a reader chooses.                                        *)
LEMMA BestMarkNumber ==
  ASSUME LInv, Types, NEW c \in Conns, Usable(c) # {}
  PROVE  shm.aReadMark[BestMark(c)] \in Nat /\ shm.aReadMark[BestMark(c)] <= wc[c].hdr.mxFrame
  <1> DEFINE b == BestMark(c)
  <1>1. MarkNumbers
    BY TypesNumbers
  <1>2. b \in Usable(c)
    BY <1>1, BestMarkUsable
  <1> HIDE DEF b
  <1>3. b \in 1 .. WAL_NREADER - 1 /\ shm.aReadMark[b] <= wc[c].hdr.mxFrame
    BY <1>2 DEF Usable
  <1>4. shm.aReadMark[b] \in Nat
    BY <1>1, <1>3, WalAssumption DEF MarkNumbers
  <1> QED BY <1>3, <1>4 DEF b

LEMMA ScanReads ==
  ASSUME TInv, TInv', RInv, NEW c \in Conns, Scan(c)
  PROVE  RInv'
  <1>0. pc[c] \in {"choose", "scan"}
    BY DEF Scan, Step, At
  <1>s. Shaped /\ Local(c) /\ Conn(c) /\ Mine(c)
    BY DEF TInv, LInv, Shaped, Local, Types, RInv
  <1>h. HdrOK(LiveHdr) /\ HdrOK(wc[c].hdr) /\ HdrOK(job[c].h1) /\ (Spared => CkptOf(c))
    BY <1>s DEF TInv, Types, SharedOK, Conn, ConnOf, RInv, Readers
  <1>u. /\ shm' = shm /\ wal' = wal /\ salts' = salts /\ setting' = setting
        /\ walDisk' = walDisk \/ walDisk' = wal
    BY DEF Scan, files, rest
  <1>v. LiveHdr' = LiveHdr
    BY <1>u DEF LiveHdr
  <1>m. Usable(c) # {} => /\ shm.aReadMark[BestMark(c)] \in Nat
                           /\ shm.aReadMark[BestMark(c)] <= wc[c].hdr.mxFrame
    BY BestMarkNumber DEF TInv
  <1>1. CASE Usable(c) = {}
    <2>1. Becomes(c, "setmark", job[c],
               wc[c], tx[c])
      BY <1>s, ScanDoes, <1>1
    <2>2. tx[c].on => Private(c)
      BY <1>0, <1>s, <1>h, <1>u, <1>v, <1>1, <2>1, <1>m,
         WalAssumption DEF Becomes, Private, Unmoved, Others, NoCopies, Known,
         Call, CallOf, Mine, Marking, Checkpointing, WriterOf, LogOf, Reached,
         CommitWritten, Unpublished, Local, ShapeOf, ControlOf, NoJob, NoTx,
         ZeroHdr, HdrPcs, Recovery, MarkPcs, RestartPcs, FramePcs, CopyPcs,
         ScanPcs, CkptPcs, Marks
    <2>3. ~tx[c].on => Quiet(c)
      BY <1>0, <1>s, <1>h, <1>u, <1>1, <2>1, <1>m, WalAssumption DEF Becomes,
         Quiet, Unmoved, Others, NoCopies, Knows, Known, Call, CallOf, Mine,
         Marking, Checkpointing, Local, ShapeOf, ControlOf, NoJob, NoTx,
         ZeroHdr, HdrPcs, Recovery, MarkPcs, RestartPcs, FramePcs, CopyPcs,
         ScanPcs, CkptPcs, Marks
    <2> QED BY <2>2, <2>3, PrivateStep, QuietStep
  <1>2. CASE Usable(c) # {}
    <2>1. Becomes(c, IF shm.aReadMark[BestMark(c)] < wc[c].hdr.mxFrame THEN "setmark" ELSE "lockmark", [job[c] EXCEPT !.mxI = BestMark(c), !.mark = shm.aReadMark[BestMark(c)]],
               wc[c], tx[c])
      BY <1>s, ScanDoes, <1>2
    <2>2. tx[c].on => Private(c)
      BY <1>0, <1>s, <1>h, <1>u, <1>v, <1>2, <2>1, <1>m,
         WalAssumption DEF Becomes, Private, Unmoved, Others, NoCopies, Known,
         Call, CallOf, Mine, Marking, Checkpointing, WriterOf, LogOf, Reached,
         CommitWritten, Unpublished, Local, ShapeOf, ControlOf, NoJob, NoTx,
         ZeroHdr, HdrPcs, Recovery, MarkPcs, RestartPcs, FramePcs, CopyPcs,
         ScanPcs, CkptPcs, Marks
    <2>3. ~tx[c].on => Quiet(c)
      BY <1>0, <1>s, <1>h, <1>u, <1>2, <2>1, <1>m, WalAssumption DEF Becomes,
         Quiet, Unmoved, Others, NoCopies, Knows, Known, Call, CallOf, Mine,
         Marking, Checkpointing, Local, ShapeOf, ControlOf, NoJob, NoTx,
         ZeroHdr, HdrPcs, Recovery, MarkPcs, RestartPcs, FramePcs, CopyPcs,
         ScanPcs, CkptPcs, Marks
    <2> QED BY <2>2, <2>3, PrivateStep, QuietStep
  <1> QED BY <1>1, <1>2

LEMMA LockMarkReads ==
  ASSUME TInv, TInv', RInv, NEW c \in Conns, LockMark(c)
  PROVE  RInv'
  <1>0. pc[c] = "lockmark"
    BY DEF LockMark, Step, At
  <1>s. Shaped /\ Local(c) /\ Conn(c) /\ Mine(c)
    BY DEF TInv, LInv, Shaped, Local, Types, RInv
  <1>h. HdrOK(LiveHdr) /\ HdrOK(wc[c].hdr) /\ HdrOK(job[c].h1) /\ (Spared => CkptOf(c))
    BY <1>s DEF TInv, Types, SharedOK, Conn, ConnOf, RInv, Readers
  <1>u. /\ shm' = shm /\ wal' = wal /\ salts' = salts /\ setting' = setting
        /\ walDisk' = walDisk \/ walDisk' = wal
    BY DEF LockMark, Retry, files, rest
  <1>v. LiveHdr' = LiveHdr
    BY <1>u DEF LiveHdr
  <1>1. CASE Sharable(WAL_READ_LOCK(job[c].mxI))
    <2>1. Becomes(c, "minframe", job[c],
               wc[c], tx[c])
      BY <1>s, LockMarkDoes, <1>1
    <2>2. tx[c].on => Private(c)
      BY <1>0, <1>s, <1>h, <1>u, <1>v, <1>1, <2>1, WalAssumption DEF Becomes,
         Private, Unmoved, Others, NoCopies, Known, Call, CallOf, Mine,
         Marking, Checkpointing, WriterOf, LogOf, Reached, CommitWritten,
         Unpublished, Local, ShapeOf, ControlOf, NoJob, NoTx, ZeroHdr, HdrPcs,
         Recovery, MarkPcs, RestartPcs, FramePcs, CopyPcs, ScanPcs, CkptPcs,
         Marks
    <2>3. ~tx[c].on => Quiet(c)
      BY <1>0, <1>s, <1>h, <1>u, <1>1, <2>1, WalAssumption DEF Becomes, Quiet,
         Unmoved, Others, NoCopies, Knows, Known, Call, CallOf, Mine, Marking,
         Checkpointing, Local, ShapeOf, ControlOf, NoJob, NoTx, ZeroHdr,
         HdrPcs, Recovery, MarkPcs, RestartPcs, FramePcs, CopyPcs, ScanPcs,
         CkptPcs, Marks
    <2> QED BY <2>2, <2>3, PrivateStep, QuietStep
  <1>2. CASE ~Sharable(WAL_READ_LOCK(job[c].mxI))
    <2>1. Becomes(c, IF job[c].useWal THEN "scan" ELSE "tryhdr", [job[c] EXCEPT !.mxI = 0, !.mark = 0],
               wc[c], tx[c])
      BY <1>s, LockMarkDoes, <1>2
    <2>2. tx[c].on => Private(c)
      BY <1>0, <1>s, <1>h, <1>u, <1>v, <1>2, <2>1, WalAssumption DEF Becomes,
         Private, Unmoved, Others, NoCopies, Known, Call, CallOf, Mine,
         Marking, Checkpointing, WriterOf, LogOf, Reached, CommitWritten,
         Unpublished, Local, ShapeOf, ControlOf, NoJob, NoTx, ZeroHdr, HdrPcs,
         Recovery, MarkPcs, RestartPcs, FramePcs, CopyPcs, ScanPcs, CkptPcs,
         Marks
    <2>3. ~tx[c].on => Quiet(c)
      BY <1>0, <1>s, <1>h, <1>u, <1>2, <2>1, WalAssumption DEF Becomes, Quiet,
         Unmoved, Others, NoCopies, Knows, Known, Call, CallOf, Mine, Marking,
         Checkpointing, Local, ShapeOf, ControlOf, NoJob, NoTx, ZeroHdr,
         HdrPcs, Recovery, MarkPcs, RestartPcs, FramePcs, CopyPcs, ScanPcs,
         CkptPcs, Marks
    <2> QED BY <2>2, <2>3, PrivateStep, QuietStep
  <1> QED BY <1>1, <1>2

LEMMA MinFrameReads ==
  ASSUME TInv, TInv', RInv, NEW c \in Conns, MinFrame(c)
  PROVE  RInv'
  <1>0. pc[c] = "minframe"
    BY DEF MinFrame, Step, At
  <1>s. Shaped /\ Local(c) /\ Conn(c) /\ Mine(c)
    BY DEF TInv, LInv, Shaped, Local, Types, RInv
  <1>h. HdrOK(LiveHdr) /\ HdrOK(wc[c].hdr) /\ HdrOK(job[c].h1) /\ (Spared => CkptOf(c))
    BY <1>s DEF TInv, Types, SharedOK, Conn, ConnOf, RInv, Readers
  <1>u. /\ shm' = shm /\ wal' = wal /\ salts' = salts /\ setting' = setting
        /\ walDisk' = walDisk \/ walDisk' = wal
    BY DEF MinFrame, files, rest
  <1>v. LiveHdr' = LiveHdr
    BY <1>u DEF LiveHdr
  <1>1. Becomes(c, "checkmark", job[c],
             [wc[c] EXCEPT !.minFrame = shm.nBackfill + 1], tx[c])
    BY <1>s, MinFrameDoes
  <1>2. tx[c].on => Private(c)
    BY <1>0, <1>s, <1>h, <1>u, <1>v, <1>1, WalAssumption DEF Becomes, Private,
       Unmoved, Others, NoCopies, Known, Call, CallOf, Mine, Marking,
       Checkpointing, WriterOf, LogOf, Reached, CommitWritten, Unpublished,
       Local, ShapeOf, ControlOf, NoJob, NoTx, ZeroHdr, HdrPcs, Recovery,
       MarkPcs, RestartPcs, FramePcs, CopyPcs, ScanPcs, CkptPcs, Marks
  <1>3. ~tx[c].on => Quiet(c)
    BY <1>0, <1>s, <1>h, <1>u, <1>1, WalAssumption DEF Becomes, Quiet,
       Unmoved, Others, NoCopies, Knows, Known, Call, CallOf, Mine, Marking,
       Checkpointing, Local, ShapeOf, ControlOf, NoJob, NoTx, ZeroHdr, HdrPcs,
       Recovery, MarkPcs, RestartPcs, FramePcs, CopyPcs, ScanPcs, CkptPcs,
       Marks
  <1> QED BY <1>2, <1>3, PrivateStep, QuietStep

LEMMA CannotRestartReads ==
  ASSUME TInv, TInv', RInv, NEW c \in Conns, CannotRestart(c)
  PROVE  RInv'
  <1>0. pc[c] = "restart"
    BY DEF CannotRestart, Step, At
  <1>s. Shaped /\ Local(c) /\ Conn(c) /\ Mine(c)
    BY DEF TInv, LInv, Shaped, Local, Types, RInv
  <1>h. HdrOK(LiveHdr) /\ HdrOK(wc[c].hdr) /\ HdrOK(job[c].h1) /\ (Spared => CkptOf(c))
    BY <1>s DEF TInv, Types, SharedOK, Conn, ConnOf, RInv, Readers
  <1>u. /\ shm' = shm /\ wal' = wal /\ salts' = salts /\ setting' = setting
        /\ walDisk' = walDisk \/ walDisk' = wal
    BY DEF CannotRestart, LeaveRead0, files, rest
  <1>v. LiveHdr' = LiveHdr
    BY <1>u DEF LiveHdr
  <1>1. CASE job[c].kind = "write"
    <2>1. Becomes(c, "scan", [job[c] EXCEPT !.useWal = TRUE],
               [wc[c] EXCEPT !.readLock = -1], tx[c])
      BY <1>s, CannotRestartDoes, <1>1
    <2>2. tx[c].on => Private(c)
      BY <1>0, <1>s, <1>h, <1>u, <1>v, <1>1, <2>1, WalAssumption DEF Becomes,
         Private, Unmoved, Others, NoCopies, Known, Call, CallOf, Mine,
         Marking, Checkpointing, WriterOf, LogOf, Reached, CommitWritten,
         Unpublished, Local, ShapeOf, ControlOf, NoJob, NoTx, ZeroHdr, HdrPcs,
         Recovery, MarkPcs, RestartPcs, FramePcs, CopyPcs, ScanPcs, CkptPcs,
         Marks
    <2>3. ~tx[c].on => Quiet(c)
      BY <1>0, <1>s, <1>h, <1>u, <1>1, <2>1, WalAssumption DEF Becomes, Quiet,
         Unmoved, Others, NoCopies, Knows, Known, Call, CallOf, Mine, Marking,
         Checkpointing, Local, ShapeOf, ControlOf, NoJob, NoTx, ZeroHdr,
         HdrPcs, Recovery, MarkPcs, RestartPcs, FramePcs, CopyPcs, ScanPcs,
         CkptPcs, Marks
    <2> QED BY <2>2, <2>3, PrivateStep, QuietStep
  <1>2. CASE job[c].kind # "write"
    <2>1. Becomes(c, "ckptend", [job[c] EXCEPT !.ok = FALSE],
               wc[c], tx[c])
      BY <1>s, CannotRestartDoes, <1>2
    <2>2. tx[c].on => Private(c)
      BY <1>0, <1>s, <1>h, <1>u, <1>v, <1>2, <2>1, WalAssumption DEF Becomes,
         Private, Unmoved, Others, NoCopies, Known, Call, CallOf, Mine,
         Marking, Checkpointing, WriterOf, LogOf, Reached, CommitWritten,
         Unpublished, Local, ShapeOf, ControlOf, NoJob, NoTx, ZeroHdr, HdrPcs,
         Recovery, MarkPcs, RestartPcs, FramePcs, CopyPcs, ScanPcs, CkptPcs,
         Marks
    <2>3. ~tx[c].on => Quiet(c)
      BY <1>0, <1>s, <1>h, <1>u, <1>2, <2>1, WalAssumption DEF Becomes, Quiet,
         Unmoved, Others, NoCopies, Knows, Known, Call, CallOf, Mine, Marking,
         Checkpointing, Local, ShapeOf, ControlOf, NoJob, NoTx, ZeroHdr,
         HdrPcs, Recovery, MarkPcs, RestartPcs, FramePcs, CopyPcs, ScanPcs,
         CkptPcs, Marks
    <2> QED BY <2>2, <2>3, PrivateStep, QuietStep
  <1> QED BY <1>1, <1>2

LEMMA CkptStartReads ==
  ASSUME TInv, TInv', RInv, NEW c \in Conns, CkptStart(c)
  PROVE  RInv'
  <1>0. pc[c] = "ckpt"
    BY DEF CkptStart, Step, At
  <1>s. Shaped /\ Local(c) /\ Conn(c) /\ Call(c)
    BY DEF TInv, LInv, Shaped, Local, Types, RInv, Mine
  <1>c. /\ ~tx[c].on /\ wc[c].readLock = -1 /\ job[c].kind = "ckpt" /\ job[c].mxI = 0
        /\ HdrOK(wc[c].hdr) /\ job[c].safe \in Nat /\ job[c].mark \in Nat
        /\ SharedOK
    BY <1>0, <1>s DEF Local, ControlOf, Conn, ConnOf, Call, CallOf, Marking,
       TInv, Types, HdrPcs, Recovery, MarkPcs, RestartPcs, FramePcs, CopyPcs,
       ScanPcs, CkptPcs, Marks
  <1>r. Spared => /\ CkptOf(c) /\ BackfillOK
                  /\ \A d \in Others(c) : SafeFor(c, d) /\ SnapOf(d) /\ Snap(d) \in Nat
    BY HdrNumbers DEF RInv, Readers, Others, TInv, Snap
  <1>u. /\ shm' = shm /\ wal' = wal /\ salts' = salts /\ setting' = setting
        /\ walDisk' = walDisk \/ walDisk' = wal
    BY DEF CkptStart, files, rest
  <1>w. \A d \in Conns : wc[d].readLock \in -1 .. WAL_NREADER - 1
    BY DEF TInv, LInv, Local, ControlOf
  <1>1. CASE shm.nBackfill < wc[c].hdr.mxFrame
    <2>1. Becomes(c, "mark", [job[c] EXCEPT !.i = 1, !.safe = wc[c].hdr.mxFrame],
               wc[c], tx[c])
      BY <1>s, CkptStartDoes, <1>1
    <2>2. Carries(c)
      BY <1>0, <1>s, <1>c, <1>r, <1>u, <1>1, <2>1, <1>w DEF Becomes, Carries,
         Unmoved, Others, Call, CallOf, Marking, Checkpointing, CkptOf, Here,
         HdrOK, SharedOK, Local, ShapeOf, ControlOf, HdrPcs, Recovery,
         MarkPcs, RestartPcs, FramePcs, CopyPcs, ScanPcs, CkptPcs, Marks,
         AfterCopy
    <2>3. ASSUME Spared, NEW d \in Others(c) PROVE SafeNow(c, d)
      BY <1>0, <1>s, <1>c, <1>r, <1>1, <2>1, <2>3, <1>w DEF Becomes, SafeNow,
         SafeFor, Scanned, Others, Call, CallOf, Checkpointing, Local,
         ShapeOf, ControlOf, ScanPcs, CopyPcs, Marks, AfterCopy
    <2> QED BY <1>u, <2>2, <2>3, CarryQuietly
  <1>2. CASE ~(shm.nBackfill < wc[c].hdr.mxFrame)
    <2>1. Becomes(c, AfterCopy(c), job[c],
               wc[c], tx[c])
      BY <1>s, CkptStartDoes, <1>2
    <2>2. Carries(c)
      BY <1>0, <1>s, <1>c, <1>r, <1>u, <1>2, <2>1, <1>w DEF Becomes, Carries,
         Unmoved, Others, Call, CallOf, Marking, Checkpointing, CkptOf, Here,
         HdrOK, SharedOK, Local, ShapeOf, ControlOf, HdrPcs, Recovery,
         MarkPcs, RestartPcs, FramePcs, CopyPcs, ScanPcs, CkptPcs, Marks,
         AfterCopy
    <2>3. ASSUME Spared, NEW d \in Others(c) PROVE SafeNow(c, d)
      BY <1>0, <1>s, <1>c, <1>r, <1>2, <2>1, <2>3, <1>w DEF Becomes, SafeNow,
         SafeFor, Scanned, Others, Call, CallOf, Checkpointing, Local,
         ShapeOf, ControlOf, ScanPcs, CopyPcs, Marks, AfterCopy
    <2> QED BY <1>u, <2>2, <2>3, CarryQuietly
  <1> QED BY <1>1, <1>2

LEMMA CkptReadMarkReads ==
  ASSUME TInv, TInv', RInv, NEW c \in Conns, CkptReadMark(c)
  PROVE  RInv'
  <1>0. pc[c] = "mark"
    BY DEF CkptReadMark, Step, At
  <1>s. Shaped /\ Local(c) /\ Conn(c) /\ Call(c)
    BY DEF TInv, LInv, Shaped, Local, Types, RInv, Mine
  <1>c. /\ ~tx[c].on /\ wc[c].readLock = -1 /\ job[c].kind = "ckpt" /\ job[c].mxI = 0
        /\ HdrOK(wc[c].hdr) /\ job[c].safe \in Nat /\ job[c].mark \in Nat
        /\ SharedOK
    BY <1>0, <1>s DEF Local, ControlOf, Conn, ConnOf, Call, CallOf, Marking,
       TInv, Types, HdrPcs, Recovery, MarkPcs, RestartPcs, FramePcs, CopyPcs,
       ScanPcs, CkptPcs, Marks
  <1>r. Spared => /\ CkptOf(c) /\ BackfillOK
                  /\ \A d \in Others(c) : SafeFor(c, d) /\ SnapOf(d) /\ Snap(d) \in Nat
    BY HdrNumbers DEF RInv, Readers, Others, TInv, Snap
  <1>u. /\ shm' = shm /\ wal' = wal /\ salts' = salts /\ setting' = setting
        /\ walDisk' = walDisk \/ walDisk' = wal
    BY DEF CkptReadMark, NextMark, files, rest
  <1>w. \A d \in Conns : wc[d].readLock \in -1 .. WAL_NREADER - 1
    BY DEF TInv, LInv, Local, ControlOf
  <1>m. shm.aReadMark[job[c].i] \in Nat
    BY <1>0, <1>s, <1>c, WalAssumption DEF SharedOK, Local, ControlOf, Marks
  <1>1. CASE job[c].safe > shm.aReadMark[job[c].i]
    <2>1. Becomes(c, "lockmk", [job[c] EXCEPT !.mark = shm.aReadMark[job[c].i]],
               wc[c], tx[c])
      BY <1>s, CkptReadMarkDoes, <1>1
    <2>2. Carries(c)
      BY <1>0, <1>s, <1>c, <1>r, <1>u, <1>1, <2>1, <1>w, <1>m DEF Becomes,
         Carries, Unmoved, Others, Call, CallOf, Marking, Checkpointing,
         CkptOf, Here, HdrOK, SharedOK, Local, ShapeOf, ControlOf, HdrPcs,
         Recovery, MarkPcs, RestartPcs, FramePcs, CopyPcs, ScanPcs, CkptPcs,
         Marks
    <2>3. ASSUME Spared, NEW d \in Others(c) PROVE SafeNow(c, d)
      BY <1>0, <1>s, <1>c, <1>r, <1>1, <2>1, <2>3, <1>w, <1>m DEF Becomes,
         SafeNow, SafeFor, Scanned, Others, Call, CallOf, SnapOf,
         Checkpointing, Local, ShapeOf, ControlOf, ScanPcs, CopyPcs, Marks
    <2> QED BY <1>u, <2>2, <2>3, CarryQuietly
  <1>2. CASE ~(job[c].safe > shm.aReadMark[job[c].i])
    <2>1. Becomes(c, IF job[c].i = WAL_NREADER - 1 THEN "lock0" ELSE "mark", [job[c] EXCEPT !.i = @ + 1, !.safe = job[c].safe, !.mark = 0],
               wc[c], tx[c])
      BY <1>s, CkptReadMarkDoes, <1>2
    <2>2. Carries(c)
      BY <1>0, <1>s, <1>c, <1>r, <1>u, <1>2, <2>1, <1>w, <1>m DEF Becomes,
         Carries, Unmoved, Others, Call, CallOf, Marking, Checkpointing,
         CkptOf, Here, HdrOK, SharedOK, Local, ShapeOf, ControlOf, HdrPcs,
         Recovery, MarkPcs, RestartPcs, FramePcs, CopyPcs, ScanPcs, CkptPcs,
         Marks
    <2>3. ASSUME Spared, NEW d \in Others(c) PROVE SafeNow(c, d)
      BY <1>0, <1>s, <1>c, <1>r, <1>2, <2>1, <2>3, <1>w, <1>m DEF Becomes,
         SafeNow, SafeFor, Scanned, Others, Call, CallOf, SnapOf,
         Checkpointing, Local, ShapeOf, ControlOf, ScanPcs, CopyPcs, Marks
    <2> QED BY <1>u, <2>2, <2>3, CarryQuietly
  <1> QED BY <1>1, <1>2

LEMMA CkptLock0Reads ==
  ASSUME TInv, TInv', RInv, NEW c \in Conns, CkptLock0(c)
  PROVE  RInv'
  <1>0. pc[c] = "lock0"
    BY DEF CkptLock0, Step, At
  <1>s. Shaped /\ Local(c) /\ Conn(c) /\ Call(c)
    BY DEF TInv, LInv, Shaped, Local, Types, RInv, Mine
  <1>c. /\ ~tx[c].on /\ wc[c].readLock = -1 /\ job[c].kind = "ckpt" /\ job[c].mxI = 0
        /\ HdrOK(wc[c].hdr) /\ job[c].safe \in Nat /\ job[c].mark \in Nat
        /\ SharedOK
    BY <1>0, <1>s DEF Local, ControlOf, Conn, ConnOf, Call, CallOf, Marking,
       TInv, Types, HdrPcs, Recovery, MarkPcs, RestartPcs, FramePcs, CopyPcs,
       ScanPcs, CkptPcs, Marks
  <1>r. Spared => /\ CkptOf(c) /\ BackfillOK
                  /\ \A d \in Others(c) : SafeFor(c, d) /\ SnapOf(d) /\ Snap(d) \in Nat
    BY HdrNumbers DEF RInv, Readers, Others, TInv, Snap
  <1>u. /\ shm' = shm /\ wal' = wal /\ salts' = salts /\ setting' = setting
        /\ walDisk' = walDisk \/ walDisk' = wal
    BY DEF CkptLock0, files, rest
  <1>1. CASE shm.nBackfill < job[c].safe /\ Lockable({WAL_READ_LOCK(0)}) /\ LiveHdr.salt = wc[c].hdr.salt
    <2>1. PICK list \in ToCopy(c) : Becomes(c, "synclog", [job[c] EXCEPT !.list = list],
               wc[c], tx[c])
      BY <1>s, CkptLock0Does, <1>1
    <2>2. Carries(c)
      BY <1>0, <1>s, <1>c, <1>r, <1>u, <1>1, <2>1 DEF Becomes, Carries,
         Unmoved, Others, Call, CallOf, Marking, Checkpointing, CkptOf, Here,
         HdrOK, SharedOK, Local, ShapeOf, ControlOf, HdrPcs, Recovery,
         MarkPcs, RestartPcs, FramePcs, CopyPcs, ScanPcs, CkptPcs, Marks,
         AfterCopy
    <2>3. ASSUME Spared, NEW d \in Others(c) PROVE SafeNow(c, d)
      BY <1>0, <1>s, <1>c, <1>r, <1>1, <2>1, <2>3 DEF Becomes, SafeNow,
         SafeFor, Scanned, Others, Call, CallOf, Checkpointing, Local,
         ShapeOf, ControlOf, ScanPcs, CopyPcs, Marks, AfterCopy
    <2> QED BY <1>u, <2>2, <2>3, CarryQuietly
  <1>2. CASE ~(shm.nBackfill < job[c].safe /\ Lockable({WAL_READ_LOCK(0)}) /\ LiveHdr.salt = wc[c].hdr.salt)
    <2>1. Becomes(c, AfterCopy(c), job[c],
               wc[c], tx[c])
      BY <1>s, CkptLock0Does, <1>2
    <2>2. Carries(c)
      BY <1>0, <1>s, <1>c, <1>r, <1>u, <1>2, <2>1 DEF Becomes, Carries,
         Unmoved, Others, Call, CallOf, Marking, Checkpointing, CkptOf, Here,
         HdrOK, SharedOK, Local, ShapeOf, ControlOf, HdrPcs, Recovery,
         MarkPcs, RestartPcs, FramePcs, CopyPcs, ScanPcs, CkptPcs, Marks,
         AfterCopy
    <2>3. ASSUME Spared, NEW d \in Others(c) PROVE SafeNow(c, d)
      BY <1>0, <1>s, <1>c, <1>r, <1>2, <2>1, <2>3 DEF Becomes, SafeNow,
         SafeFor, Scanned, Others, Call, CallOf, Checkpointing, Local,
         ShapeOf, ControlOf, ScanPcs, CopyPcs, Marks, AfterCopy
    <2> QED BY <1>u, <2>2, <2>3, CarryQuietly
  <1> QED BY <1>1, <1>2

LEMMA CkptSyncReads ==
  ASSUME TInv, TInv', RInv, NEW c \in Conns, CkptSync(c)
  PROVE  RInv'
  <1>0. pc[c] = "synclog"
    BY DEF CkptSync, Step, At
  <1>s. Shaped /\ Local(c) /\ Conn(c) /\ Call(c)
    BY DEF TInv, LInv, Shaped, Local, Types, RInv, Mine
  <1>c. /\ ~tx[c].on /\ wc[c].readLock = -1 /\ job[c].kind = "ckpt" /\ job[c].mxI = 0
        /\ HdrOK(wc[c].hdr) /\ job[c].safe \in Nat /\ job[c].mark \in Nat
        /\ SharedOK
    BY <1>0, <1>s DEF Local, ControlOf, Conn, ConnOf, Call, CallOf, Marking,
       TInv, Types, HdrPcs, Recovery, MarkPcs, RestartPcs, FramePcs, CopyPcs,
       ScanPcs, CkptPcs, Marks
  <1>r. Spared => /\ CkptOf(c) /\ BackfillOK
                  /\ \A d \in Others(c) : SafeFor(c, d) /\ SnapOf(d) /\ Snap(d) \in Nat
    BY HdrNumbers DEF RInv, Readers, Others, TInv, Snap
  <1>u. /\ shm' = shm /\ wal' = wal /\ salts' = salts /\ setting' = setting
        /\ walDisk' = walDisk \/ walDisk' = wal
    BY DEF CkptSync, SyncedLog, files, rest
  <1>1. Becomes(c, "copy", job[c],
             wc[c], tx[c])
    BY <1>s, CkptSyncDoes
  <1>2. Carries(c)
    BY <1>0, <1>s, <1>c, <1>r, <1>u, <1>1 DEF Becomes, Carries, Unmoved,
       Others, Call, CallOf, Marking, Checkpointing, CkptOf, Here, HdrOK,
       SharedOK, Local, ShapeOf, ControlOf, HdrPcs, Recovery, MarkPcs,
       RestartPcs, FramePcs, CopyPcs, ScanPcs, CkptPcs, Marks
  <1>3. ASSUME Spared, NEW d \in Others(c) PROVE SafeNow(c, d)
    BY <1>0, <1>s, <1>c, <1>r, <1>1, <1>3 DEF Becomes, SafeNow, SafeFor,
       Scanned, Others, Call, CallOf, Checkpointing, Local, ShapeOf,
       ControlOf, ScanPcs, CopyPcs, Marks
  <1> QED BY <1>u, <1>2, <1>3, CarryQuietly

LEMMA CkptCopyReads ==
  ASSUME TInv, TInv', RInv, NEW c \in Conns, CkptCopy(c)
  PROVE  RInv'
  <1>0. pc[c] = "copy"
    BY DEF CkptCopy, Step, At
  <1>s. Shaped /\ Local(c) /\ Conn(c) /\ Call(c)
    BY DEF TInv, LInv, Shaped, Local, Types, RInv, Mine
  <1>c. /\ ~tx[c].on /\ wc[c].readLock = -1 /\ job[c].kind = "ckpt" /\ job[c].mxI = 0
        /\ HdrOK(wc[c].hdr) /\ job[c].safe \in Nat /\ job[c].mark \in Nat
        /\ SharedOK
    BY <1>0, <1>s DEF Local, ControlOf, Conn, ConnOf, Call, CallOf, Marking,
       TInv, Types, HdrPcs, Recovery, MarkPcs, RestartPcs, FramePcs, CopyPcs,
       ScanPcs, CkptPcs, Marks
  <1>r. Spared => /\ CkptOf(c) /\ BackfillOK
                  /\ \A d \in Others(c) : SafeFor(c, d) /\ SnapOf(d) /\ Snap(d) \in Nat
    BY HdrNumbers DEF RInv, Readers, Others, TInv, Snap
  <1>u. /\ shm' = shm /\ wal' = wal /\ salts' = salts /\ setting' = setting
        /\ walDisk' = walDisk \/ walDisk' = wal
    BY DEF CkptCopy, files, rest
  <1>1. Becomes(c, pc[c], [job[c] EXCEPT !.list = Tail(@)],
             wc[c], tx[c])
    BY <1>s, CkptCopyDoes
  <1>2. Carries(c)
    BY <1>0, <1>s, <1>c, <1>r, <1>u, <1>1 DEF Becomes, Carries, Unmoved,
       Others, Call, CallOf, Marking, Checkpointing, CkptOf, Here, HdrOK,
       SharedOK, Local, ShapeOf, ControlOf, HdrPcs, Recovery, MarkPcs,
       RestartPcs, FramePcs, CopyPcs, ScanPcs, CkptPcs, Marks
  <1>3. ASSUME Spared, NEW d \in Others(c) PROVE SafeNow(c, d)
    BY <1>0, <1>s, <1>c, <1>r, <1>1, <1>3 DEF Becomes, SafeNow, SafeFor,
       Scanned, Others, Call, CallOf, Checkpointing, Local, ShapeOf,
       ControlOf, ScanPcs, CopyPcs, Marks
  <1> QED BY <1>u, <1>2, <1>3, CarryQuietly

LEMMA CkptTruncateReads ==
  ASSUME TInv, TInv', RInv, NEW c \in Conns, CkptTruncate(c)
  PROVE  RInv'
  <1>0. pc[c] = "copy"
    BY DEF CkptTruncate, Step, At
  <1>s. Shaped /\ Local(c) /\ Conn(c) /\ Call(c)
    BY DEF TInv, LInv, Shaped, Local, Types, RInv, Mine
  <1>c. /\ ~tx[c].on /\ wc[c].readLock = -1 /\ job[c].kind = "ckpt" /\ job[c].mxI = 0
        /\ HdrOK(wc[c].hdr) /\ job[c].safe \in Nat /\ job[c].mark \in Nat
        /\ SharedOK
    BY <1>0, <1>s DEF Local, ControlOf, Conn, ConnOf, Call, CallOf, Marking,
       TInv, Types, HdrPcs, Recovery, MarkPcs, RestartPcs, FramePcs, CopyPcs,
       ScanPcs, CkptPcs, Marks
  <1>r. Spared => /\ CkptOf(c) /\ BackfillOK
                  /\ \A d \in Others(c) : SafeFor(c, d) /\ SnapOf(d) /\ Snap(d) \in Nat
    BY HdrNumbers DEF RInv, Readers, Others, TInv, Snap
  <1>u. /\ shm' = shm /\ wal' = wal /\ salts' = salts /\ setting' = setting
        /\ walDisk' = walDisk \/ walDisk' = wal
    BY DEF CkptTruncate, files, rest
  <1>1. Becomes(c, IF job[c].safe = LiveHdr.mxFrame THEN "syncdb" ELSE "backfill", job[c],
             wc[c], tx[c])
    BY <1>s, CkptTruncateDoes
  <1>2. Carries(c)
    BY <1>0, <1>s, <1>c, <1>r, <1>u, <1>1 DEF Becomes, Carries, Unmoved,
       Others, Call, CallOf, Marking, Checkpointing, CkptOf, Here, HdrOK,
       SharedOK, Local, ShapeOf, ControlOf, HdrPcs, Recovery, MarkPcs,
       RestartPcs, FramePcs, CopyPcs, ScanPcs, CkptPcs, Marks
  <1>3. ASSUME Spared, NEW d \in Others(c) PROVE SafeNow(c, d)
    BY <1>0, <1>s, <1>c, <1>r, <1>1, <1>3 DEF Becomes, SafeNow, SafeFor,
       Scanned, Others, Call, CallOf, Checkpointing, Local, ShapeOf,
       ControlOf, ScanPcs, CopyPcs, Marks
  <1> QED BY <1>u, <1>2, <1>3, CarryQuietly

LEMMA CkptSyncDbReads ==
  ASSUME TInv, TInv', RInv, NEW c \in Conns, CkptSyncDb(c)
  PROVE  RInv'
  <1>0. pc[c] = "syncdb"
    BY DEF CkptSyncDb, Step, At
  <1>s. Shaped /\ Local(c) /\ Conn(c) /\ Call(c)
    BY DEF TInv, LInv, Shaped, Local, Types, RInv, Mine
  <1>c. /\ ~tx[c].on /\ wc[c].readLock = -1 /\ job[c].kind = "ckpt" /\ job[c].mxI = 0
        /\ HdrOK(wc[c].hdr) /\ job[c].safe \in Nat /\ job[c].mark \in Nat
        /\ SharedOK
    BY <1>0, <1>s DEF Local, ControlOf, Conn, ConnOf, Call, CallOf, Marking,
       TInv, Types, HdrPcs, Recovery, MarkPcs, RestartPcs, FramePcs, CopyPcs,
       ScanPcs, CkptPcs, Marks
  <1>r. Spared => /\ CkptOf(c) /\ BackfillOK
                  /\ \A d \in Others(c) : SafeFor(c, d) /\ SnapOf(d) /\ Snap(d) \in Nat
    BY HdrNumbers DEF RInv, Readers, Others, TInv, Snap
  <1>u. /\ shm' = shm /\ wal' = wal /\ salts' = salts /\ setting' = setting
        /\ walDisk' = walDisk \/ walDisk' = wal
    BY DEF CkptSyncDb, files, rest
  <1>1. Becomes(c, "backfill", job[c],
             wc[c], tx[c])
    BY <1>s, CkptSyncDbDoes
  <1>2. Carries(c)
    BY <1>0, <1>s, <1>c, <1>r, <1>u, <1>1 DEF Becomes, Carries, Unmoved,
       Others, Call, CallOf, Marking, Checkpointing, CkptOf, Here, HdrOK,
       SharedOK, Local, ShapeOf, ControlOf, HdrPcs, Recovery, MarkPcs,
       RestartPcs, FramePcs, CopyPcs, ScanPcs, CkptPcs, Marks
  <1>3. ASSUME Spared, NEW d \in Others(c) PROVE SafeNow(c, d)
    BY <1>0, <1>s, <1>c, <1>r, <1>1, <1>3 DEF Becomes, SafeNow, SafeFor,
       Scanned, Others, Call, CallOf, Checkpointing, Local, ShapeOf,
       ControlOf, ScanPcs, CopyPcs, Marks
  <1> QED BY <1>u, <1>2, <1>3, CarryQuietly

LEMMA CkptLockMarkReads ==
  ASSUME TInv, TInv', RInv, NEW c \in Conns, CkptLockMark(c)
  PROVE  RInv'
  <1>0. pc[c] = "lockmk"
    BY DEF CkptLockMark, Step, At
  <1>s. Shaped /\ Local(c) /\ Conn(c) /\ Call(c)
    BY DEF TInv, LInv, Shaped, Local, Types, RInv, Mine
  <1>c. /\ ~tx[c].on /\ wc[c].readLock = -1 /\ job[c].kind = "ckpt" /\ job[c].mxI = 0
        /\ HdrOK(wc[c].hdr) /\ job[c].safe \in Nat /\ job[c].mark \in Nat
        /\ SharedOK
    BY <1>0, <1>s DEF Local, ControlOf, Conn, ConnOf, Call, CallOf, Marking,
       TInv, Types, HdrPcs, Recovery, MarkPcs, RestartPcs, FramePcs, CopyPcs,
       ScanPcs, CkptPcs, Marks
  <1>r. Spared => /\ CkptOf(c) /\ BackfillOK
                  /\ \A d \in Others(c) : SafeFor(c, d) /\ SnapOf(d) /\ Snap(d) \in Nat
    BY HdrNumbers DEF RInv, Readers, Others, TInv, Snap
  <1>u. /\ shm'.hdr = shm.hdr /\ wal' = wal /\ salts' = salts /\ setting' = setting
        /\ walDisk' = walDisk \/ walDisk' = wal
    BY <1>c DEF CkptLockMark, NextMark, SafeBelow, files, rest, SharedOK
  <1>w. \A d \in Conns : wc[d].readLock \in -1 .. WAL_NREADER - 1
    BY DEF TInv, LInv, Local, ControlOf
  <1>m. shm.aReadMark[job[c].i] \in Nat
    BY <1>0, <1>s, <1>c, WalAssumption DEF SharedOK, Local, ControlOf, Marks
  <1>f. Lockable({WAL_READ_LOCK(job[c].i)}) => \A d \in Conns : wc[d].readLock # job[c].i
    BY <1>0, <1>s, FreeMark DEF TInv, Local, ControlOf
  <1>k. /\ shm'.nBackfill = shm.nBackfill
        /\ \A d \in Conns : wc[d].readLock > 0 =>
              shm'.aReadMark[wc[d].readLock] = shm.aReadMark[wc[d].readLock]
    <2>1. CASE Lockable({WAL_READ_LOCK(job[c].i)})
      BY <2>1, <1>c, <1>f, <1>w, WalAssumption DEF CkptLockMark, SharedOK
    <2>2. CASE ~Lockable({WAL_READ_LOCK(job[c].i)})
      BY <2>2 DEF CkptLockMark
    <2> QED BY <2>1, <2>2
  <1>l. LiveHdr' = LiveHdr
    BY <1>u DEF LiveHdr
  <1>1. CASE Lockable({WAL_READ_LOCK(job[c].i)})
    <2>1. Becomes(c, IF job[c].i = WAL_NREADER - 1 THEN "lock0" ELSE "mark", [job[c] EXCEPT !.i = @ + 1, !.safe = job[c].safe, !.mark = 0],
               wc[c], tx[c])
      BY <1>s, CkptLockMarkDoes, <1>1
    <2>2. Carries(c)
      BY <1>0, <1>s, <1>c, <1>r, <1>u, <1>1, <2>1, <1>w, <1>m, <1>f, <1>k,
         <1>l DEF Becomes, Carries, Unmoved, Others, Call, CallOf, Marking,
         Checkpointing, CkptOf, Here, HdrOK, SharedOK, Local, ShapeOf,
         ControlOf, HdrPcs, Recovery, MarkPcs, RestartPcs, FramePcs, CopyPcs,
         ScanPcs, CkptPcs, Marks
    <2>3. ASSUME Spared, NEW d \in Others(c) PROVE SafeNow(c, d)
      BY <1>0, <1>s, <1>c, <1>r, <1>1, <2>1, <2>3, <1>w, <1>m, <1>f, <1>k,
         <1>l DEF Becomes, SafeNow, SafeFor, Scanned, Others, Call, CallOf,
         Checkpointing, Local, ShapeOf, ControlOf, ScanPcs, CopyPcs, Marks
    <2>4. ASSUME Spared, NEW d \in Others(c) PROVE SnapOf(d)'
      BY <1>r, <1>l, <1>c, <1>1, <2>2, <2>3, <2>4, <1>w, <1>m, <1>f, <1>k,
         <1>l DEF SnapOf, Snap, Carries, Unmoved, Marks, Others
    <2>5. ASSUME Spared PROVE BackfillOK'
      BY <1>r, <1>l, <1>c, <1>0, <2>2, <2>5, <1>w, <1>m, <1>f, <1>k,
         <1>l DEF BackfillOK, Restarting, Carries, Unmoved, Others, CkptOf,
         Below, Here, Call, CallOf, Checkpointing, ScanPcs, CopyPcs, HdrOK
    <2> QED BY <2>2, <2>3, <2>4, <2>5, CarryStep
  <1>2. CASE ~Lockable({WAL_READ_LOCK(job[c].i)})
    <2>1. Becomes(c, IF job[c].i = WAL_NREADER - 1 THEN "lock0" ELSE "mark", [job[c] EXCEPT !.i = @ + 1, !.safe = job[c].mark, !.mark = 0],
               wc[c], tx[c])
      BY <1>s, CkptLockMarkDoes, <1>2
    <2>2. Carries(c)
      BY <1>0, <1>s, <1>c, <1>r, <1>u, <1>2, <2>1, <1>w, <1>m, <1>f, <1>k,
         <1>l DEF Becomes, Carries, Unmoved, Others, Call, CallOf, Marking,
         Checkpointing, CkptOf, Here, HdrOK, SharedOK, Local, ShapeOf,
         ControlOf, HdrPcs, Recovery, MarkPcs, RestartPcs, FramePcs, CopyPcs,
         ScanPcs, CkptPcs, Marks
    <2>3. ASSUME Spared, NEW d \in Others(c) PROVE SafeNow(c, d)
      BY <1>0, <1>s, <1>c, <1>r, <1>2, <2>1, <2>3, <1>w, <1>m, <1>f, <1>k,
         <1>l DEF Becomes, SafeNow, SafeFor, Scanned, Others, Call, CallOf,
         Checkpointing, Local, ShapeOf, ControlOf, ScanPcs, CopyPcs, Marks
    <2>4. ASSUME Spared, NEW d \in Others(c) PROVE SnapOf(d)'
      BY <1>r, <1>l, <1>c, <1>2, <2>2, <2>3, <2>4, <1>w, <1>m, <1>f, <1>k,
         <1>l DEF SnapOf, Snap, Carries, Unmoved, Marks, Others
    <2>5. ASSUME Spared PROVE BackfillOK'
      BY <1>r, <1>l, <1>c, <1>0, <2>2, <2>5, <1>w, <1>m, <1>f, <1>k,
         <1>l DEF BackfillOK, Restarting, Carries, Unmoved, Others, CkptOf,
         Below, Here, Call, CallOf, Checkpointing, ScanPcs, CopyPcs, HdrOK
    <2> QED BY <2>2, <2>3, <2>4, <2>5, CarryStep
  <1> QED BY <1>1, <1>2

LEMMA CkptBackfillReads ==
  ASSUME TInv, TInv', RInv, NEW c \in Conns, CkptBackfill(c)
  PROVE  RInv'
  <1>0. pc[c] = "backfill"
    BY DEF CkptBackfill, Step, At
  <1>s. Shaped /\ Local(c) /\ Conn(c) /\ Call(c)
    BY DEF TInv, LInv, Shaped, Local, Types, RInv, Mine
  <1>c. /\ ~tx[c].on /\ wc[c].readLock = -1 /\ job[c].kind = "ckpt" /\ job[c].mxI = 0
        /\ HdrOK(wc[c].hdr) /\ job[c].safe \in Nat /\ job[c].mark \in Nat
        /\ SharedOK
    BY <1>0, <1>s DEF Local, ControlOf, Conn, ConnOf, Call, CallOf, Marking,
       TInv, Types, HdrPcs, Recovery, MarkPcs, RestartPcs, FramePcs, CopyPcs,
       ScanPcs, CkptPcs, Marks
  <1>r. Spared => /\ CkptOf(c) /\ BackfillOK
                  /\ \A d \in Others(c) : SafeFor(c, d) /\ SnapOf(d) /\ Snap(d) \in Nat
    BY HdrNumbers DEF RInv, Readers, Others, TInv, Snap
  <1>u. /\ shm'.hdr = shm.hdr /\ wal' = wal /\ salts' = salts /\ setting' = setting
        /\ walDisk' = walDisk \/ walDisk' = wal
    BY <1>c DEF CkptBackfill, files, rest, SharedOK
  <1>w. \A d \in Conns : wc[d].readLock \in -1 .. WAL_NREADER - 1
    BY DEF TInv, LInv, Local, ControlOf
  <1>k. shm'.nBackfill = job[c].safe /\ shm'.aReadMark = shm.aReadMark
    BY <1>c DEF CkptBackfill, SharedOK
  <1>l. LiveHdr' = LiveHdr
    BY <1>u DEF LiveHdr
  <1>m. /\ Spared => job[c].safe <= LiveHdr.mxFrame
        /\ Spared => \A d \in Others(c) : wc[d].readLock > 0 => job[c].safe <= Snap(d)
    BY <1>0, <1>s, <1>c, <1>r DEF CkptOf, Below, Here, Call, CallOf, Checkpointing, SafeFor,
       Scanned, CopyPcs, SharedOK, HdrOK
  <1>1. Becomes(c, AfterCopy(c), job[c],
             wc[c], tx[c])
    BY <1>s, CkptBackfillDoes
  <1>2. Carries(c)
    BY <1>0, <1>s, <1>c, <1>r, <1>u, <1>1, <1>w, <1>k, <1>l, <1>m DEF Becomes,
       Carries, Unmoved, Others, Call, CallOf, Marking, Checkpointing, CkptOf,
       Here, HdrOK, SharedOK, Local, ShapeOf, ControlOf, HdrPcs, Recovery,
       MarkPcs, RestartPcs, FramePcs, CopyPcs, ScanPcs, CkptPcs, Marks,
       AfterCopy
  <1>3. ASSUME Spared, NEW d \in Others(c) PROVE SafeNow(c, d)
    BY <1>0, <1>s, <1>c, <1>r, <1>1, <1>3, <1>w, <1>k, <1>l, <1>m DEF Becomes,
       SafeNow, SafeFor, Scanned, Others, Call, CallOf, Checkpointing, Local,
       ShapeOf, ControlOf, ScanPcs, CopyPcs, Marks, AfterCopy
  <1>4. ASSUME Spared, NEW d \in Others(c) PROVE SnapOf(d)'
    BY <1>r, <1>l, <1>c, <1>2, <1>3, <1>4, <1>w, <1>k, <1>l, <1>m DEF SnapOf,
       Snap, Carries, Unmoved, Marks, Others
  <1>5. ASSUME Spared PROVE BackfillOK'
    BY <1>r, <1>l, <1>c, <1>0, <1>2, <1>5, <1>w, <1>k, <1>l,
       <1>m DEF BackfillOK, Restarting, Carries, Unmoved, Others, CkptOf,
       Below, Here, Call, CallOf, Checkpointing, ScanPcs, CopyPcs, HdrOK
  <1> QED BY <1>2, <1>3, <1>4, <1>5, CarryStep

LEMMA SetMarkReads ==
  ASSUME TInv, TInv', RInv, NEW c \in Conns, SetMark(c)
  PROVE  RInv'
  <1>0. pc[c] = "setmark"
    BY DEF SetMark, Step, At
  <1>s. Shaped /\ Local(c) /\ Conn(c) /\ Mine(c) /\ SharedOK
    BY DEF TInv, LInv, Shaped, Local, Types, RInv
  <1>h. HdrOK(LiveHdr) /\ HdrOK(wc[c].hdr) /\ HdrOK(job[c].h1) /\ salts \in Nat
    BY <1>s, HdrNumbers DEF SharedOK, Conn, ConnOf, TInv
  <1>u. /\ LiveHdr' = LiveHdr /\ wal' = wal /\ salts' = salts /\ setting' = setting /\ walDisk' = walDisk
    BY <1>s DEF SetMark, Retry, SharedOK, LiveHdr, files, rest
  <1>w. /\ FirstFree \in Marks \/ FreeMarks = {}
        /\ FreeMarks # {} => \A d \in Conns : wc[d].readLock # FirstFree
    <2>1. FreeMarks \subseteq Nat /\ FreeMarks \subseteq Marks
      BY DEF FreeMarks, Marks
    <2>2. FreeMarks # {} => FirstFree \in FreeMarks
      BY <2>1, LeastOf DEF FirstFree
    <2>3. FreeMarks # {} => Lockable({WAL_READ_LOCK(FirstFree)})
      BY <2>2 DEF FreeMarks
    <2> QED BY <2>1, <2>2, <2>3, FreeMark DEF TInv
  <1>k. /\ shm'.nBackfill = shm.nBackfill
        /\ \A d \in Conns : wc[d].readLock > 0 =>
              shm'.aReadMark[wc[d].readLock] = shm.aReadMark[wc[d].readLock]
    <2>0. \A d \in Conns : wc[d].readLock \in -1 .. WAL_NREADER - 1
      BY DEF TInv, LInv, Local, ControlOf
    <2>1. CASE FreeMarks # {}
      <3>1. shm' = [shm EXCEPT !.aReadMark[FirstFree] = wc[c].hdr.mxFrame]
        BY <2>1 DEF SetMark, FreeMarks, FirstFree
      <3> QED BY <2>0, <2>1, <3>1, <1>s, <1>w, WalAssumption DEF SharedOK, Marks
    <2>2. CASE FreeMarks = {}
      BY <2>2 DEF SetMark, FreeMarks, Retry
    <2> QED BY <2>1, <2>2
  <1>b. /\ Unmoved(c) /\ tx'[c] = tx[c] /\ wc'[c] = wc[c]
        /\ pc'[c] \in {"lockmark", "scan", "tryhdr"}
        /\ job'[c].kind = job[c].kind /\ job'[c].h1 = job[c].h1 /\ job'[c].iFirst = job[c].iFirst
        /\ pc'[c] \in {"scan", "tryhdr"} => job'[c].mxI = 0
        /\ pc'[c] = "lockmark" /\ job'[c].mxI > 0 => job'[c].mark <= wc[c].hdr.mxFrame
    <2>1. CASE FreeMarks # {}
      <3>1. Becomes(c, "lockmark", [job[c] EXCEPT !.mxI = FirstFree, !.mark = wc[c].hdr.mxFrame],
                 wc[c], tx[c])
        BY <1>s, SetMarkDoes, <2>1
      <3> QED
        BY <1>0, <1>s, <1>h, <2>1, <3>1 DEF Becomes, Unmoved, Others, Mine,
           Call, CallOf, Marking, HdrOK, Local, ShapeOf, ControlOf, HdrPcs,
           Recovery, MarkPcs, RestartPcs, FramePcs, CopyPcs, ScanPcs, CkptPcs,
           Marks
    <2>2. CASE FreeMarks = {} /\ job[c].mxI = 0
      <3>1. Becomes(c, IF job[c].useWal THEN "scan" ELSE "tryhdr", [job[c] EXCEPT !.mxI = 0, !.mark = 0],
                 wc[c], tx[c])
        BY <1>s, SetMarkDoes, <2>2
      <3> QED
        BY <1>0, <1>s, <1>h, <2>2, <3>1 DEF Becomes, Unmoved, Others, Mine,
           Call, CallOf, Marking, HdrOK, Local, ShapeOf, ControlOf, HdrPcs,
           Recovery, MarkPcs, RestartPcs, FramePcs, CopyPcs, ScanPcs, CkptPcs,
           Marks
    <2>3. CASE FreeMarks = {} /\ job[c].mxI # 0
      <3>1. Becomes(c, "lockmark", job[c],
                 wc[c], tx[c])
        BY <1>s, SetMarkDoes, <2>3
      <3> QED
        BY <1>0, <1>s, <1>h, <2>3, <3>1 DEF Becomes, Unmoved, Others, Mine,
           Call, CallOf, Marking, HdrOK, Local, ShapeOf, ControlOf, HdrPcs,
           Recovery, MarkPcs, RestartPcs, FramePcs, CopyPcs, ScanPcs, CkptPcs,
           Marks
    <2> QED BY <2>1, <2>2, <2>3
  <1>1. Steady(c) /\ Knows(c) /\ (Unpublished(c)' => Unpublished(c))
    BY <1>b, <1>u DEF Steady, Knows, Known, Unpublished
  <1>2. Call(c)'
    BY <1>0, <1>s, <1>b DEF Mine, Call, CallOf, Marking, Checkpointing,
       ScanPcs, CopyPcs, FramePcs, Local, ControlOf, HdrPcs, Recovery,
       MarkPcs, RestartPcs, CkptPcs
  <1>3. WriterOf(c)' /\ LogOf(c)' /\ HeaderOf(c)'
    BY <1>0, <1>s, <1>b, <1>u DEF Mine, WriterOf, LogOf, HeaderOf, Reached,
       CommitWritten, Unpublished, RestartPcs
  <1>4. ASSUME Spared
        PROVE  /\ \A d \in Conns : SnapOf(d)'
               /\ CkptOf(c)' /\ BackfillOK'
               /\ \A d \in Others(c) : SafeFor(c, d)' /\ SafeFor(d, c)'
    <2>0. Readers
      BY <1>4 DEF RInv
    <2>1. ASSUME NEW d \in Conns PROVE SnapOf(d)'
      BY <2>0, <1>k, <1>b, <1>u DEF Readers, SnapOf, Snap, Unmoved, Others
    <2>2. CkptOf(c)'
      BY <1>0, <1>s, <1>b DEF CkptOf, Checkpointing, ScanPcs, CopyPcs
    <2>3. BackfillOK'
      BY <2>0, <1>0, <1>k, <1>b, <1>u DEF Readers, BackfillOK, Restarting, Unmoved, Others
    <2>4. ASSUME NEW d \in Others(c) PROVE SafeFor(c, d)' /\ SafeFor(d, c)'
      <3>1. SafeFor(d, c)
        BY <2>0 DEF Readers, Others
      <3>2. SafeFor(d, c)'
        BY <3>1, <1>u, <1>b DEF SafeFor, Unmoved, Here, Scanned, Snap
      <3> QED BY <3>2, <1>b DEF SafeFor, Checkpointing, ScanPcs, CopyPcs
    <2> QED BY <2>1, <2>2, <2>3, <2>4
  <1> QED BY <1>1, <1>2, <1>3, <1>4, SteadyStep

LEMMA CheckMarkReads ==
  ASSUME TInv, TInv', RInv, NEW c \in Conns, CheckMark(c)
  PROVE  RInv'
  <1>0. pc[c] = "checkmark"
    BY DEF CheckMark, Step, At
  <1>s. Shaped /\ Local(c) /\ Conn(c) /\ Mine(c) /\ SharedOK
    BY DEF TInv, LInv, Shaped, Local, Types, RInv
  <1>h. HdrOK(LiveHdr) /\ HdrOK(wc[c].hdr) /\ HdrOK(job[c].h1) /\ salts \in Nat
    BY <1>s, HdrNumbers DEF SharedOK, Conn, ConnOf, TInv
  <1>u. /\ LiveHdr' = LiveHdr /\ wal' = wal /\ salts' = salts /\ setting' = setting /\ walDisk' = walDisk
    BY <1>s DEF CheckMark, ReadBegun, Retry, SharedOK, LiveHdr, files, rest
  <1>v. shm' = shm
    BY DEF CheckMark
  <1>1. CASE shm.aReadMark[job[c].mxI] = job[c].mark /\ Current(c)
    <2>b. /\ Unmoved(c) /\ tx'[c] = tx[c] /\ wc'[c].hdr = wc[c].hdr
          /\ wc'[c].readLock = job[c].mxI /\ wc'[c].iReCksum = wc[c].iReCksum
          /\ pc'[c] \in {"log", "idle"} /\ (pc'[c] = "log" <=> job[c].kind = "write")
          /\ job'[c].h1.salt \in {0, job[c].h1.salt} /\ (pc'[c] = "idle" => job'[c].mxI = 0)
          /\ job'[c].iFirst = job[c].iFirst /\ (job[c].kind = "write" => job'[c].kind = "write")
      <3>1. CASE job[c].useWal
        <4>1. Becomes(c, "log", [job[c] EXCEPT !.useWal = FALSE],
                   [wc[c] EXCEPT !.readLock = job[c].mxI], tx[c])
          BY <1>s, CheckMarkDoes, <1>1, <3>1
        <4> QED
          BY <1>0, <1>s, <3>1, <4>1 DEF Becomes, Unmoved, Others, Mine, Call,
             CallOf, NoJob, ZeroHdr, Local, ShapeOf, ControlOf, HdrPcs,
             Recovery, MarkPcs, RestartPcs, FramePcs, CopyPcs, ScanPcs,
             CkptPcs, Marks
      <3>2. CASE ~job[c].useWal
        <4>1. Becomes(c, "idle", NoJob,
                   [wc[c] EXCEPT !.readLock = job[c].mxI], tx[c])
          BY <1>s, CheckMarkDoes, <1>1, <3>2
        <4> QED
          BY <1>0, <1>s, <3>2, <4>1 DEF Becomes, Unmoved, Others, Mine, Call,
             CallOf, NoJob, ZeroHdr, Local, ShapeOf, ControlOf, HdrPcs,
             Recovery, MarkPcs, RestartPcs, FramePcs, CopyPcs, ScanPcs,
             CkptPcs, Marks
      <3> QED BY <3>1, <3>2
    <2>1. Steady(c) /\ Knows(c) /\ (Unpublished(c)' => Unpublished(c))
      BY <2>b, <1>u DEF Steady, Knows, Known, Unpublished
    <2>2. Call(c)'
      BY <1>0, <1>s, <2>b DEF Mine, Call, CallOf, Marking, Checkpointing,
         Local, ControlOf, HdrPcs, Recovery, MarkPcs, RestartPcs, FramePcs,
         CopyPcs, ScanPcs, CkptPcs, Marks
    <2>3. WriterOf(c)' /\ LogOf(c)' /\ HeaderOf(c)'
      BY <1>0, <1>s, <2>b, <1>1, <1>u DEF Mine, WriterOf, LogOf, HeaderOf,
         Reached, CommitWritten, Unpublished, RestartPcs, Current, Local,
         ControlOf, HdrPcs, Recovery, MarkPcs, FramePcs, CkptPcs
    <2>4. job[c].mxI \in Marks /\ Snap(c)' = LiveHdr.mxFrame /\ wc[c].hdr = LiveHdr
      BY <1>0, <1>s, <1>1, <1>u, <2>b, WalAssumption DEF Local, ControlOf, Marks, Current, Snap
    <2>5. ~Restarting
      <3>1. Shares(c, WAL_READ_LOCK(job[c].mxI)) /\ WAL_READ_LOCK(job[c].mxI) \in ReadersSlots
        BY <1>0, <2>4, WalAssumption DEF Shares, SharedOf, Marks, ReadersSlots, WAL_READ_LOCK
      <3>2. WAL_READ_LOCK(job[c].mxI) \in Slots
        BY <2>4, WalAssumption DEF Marks, Slots, WAL_READ_LOCK
      <3> QED BY <3>1, <3>2 DEF Restarting, TInv, LInv, Exclusion, Excl, ExclOf
    <2>6. ASSUME Spared
          PROVE  /\ \A d \in Conns : SnapOf(d)'
                 /\ CkptOf(c)' /\ BackfillOK'
                 /\ \A d \in Others(c) : SafeFor(c, d)' /\ SafeFor(d, c)'
      <3>0. Readers /\ shm.nBackfill <= LiveHdr.mxFrame
        BY <2>5, <2>6 DEF RInv, Readers, BackfillOK
      <3>1. ASSUME NEW d \in Conns PROVE SnapOf(d)'
        <4>1. CASE d = c
          BY <4>1, <3>0, <1>0, <1>1, <1>v, <1>s, <2>b, <2>4 DEF SnapOf, Mine, Call, CallOf, Marking, Marks
        <4>2. CASE d # c
          BY <4>2, <3>0, <1>u, <1>v, <2>b DEF Readers, SnapOf, Snap, Unmoved, Others
        <4> QED BY <4>1, <4>2
      <3>2. CkptOf(c)'
        BY <2>b DEF CkptOf, Checkpointing, ScanPcs, CopyPcs
      <3>3. BackfillOK'
        BY <3>0, <1>v, <1>u DEF BackfillOK
      <3>4. ASSUME NEW d \in Others(c) PROVE SafeFor(c, d)' /\ SafeFor(d, c)'
        <4>1. SafeFor(c, d)'
          BY <2>b DEF SafeFor, Checkpointing, ScanPcs, CopyPcs
        <4>2. /\ pc'[d] = pc[d] /\ job'[d] = job[d] /\ wc'[d] = wc[d]
              /\ CkptOf(d) /\ Call(d) /\ Conn(d)
          BY <3>0, <2>b DEF Unmoved, Others, Readers, RInv, Mine, TInv, Types
        <4>3. ASSUME Checkpointing(pc[d]), Here(d)
              PROVE  /\ LiveHdr.mxFrame >= job[d].safe
                     /\ pc[d] = "lockmk" => LiveHdr.mxFrame >= job[d].mark
          <5>1. wc[d].hdr.mxFrame <= LiveHdr.mxFrame
            BY <4>2, <4>3 DEF CkptOf, Below, Here
          <5>2. /\ job[d].safe <= wc[d].hdr.mxFrame
                /\ pc[d] = "lockmk" => job[d].mark < job[d].safe
            BY <4>2, <4>3 DEF Call, CallOf
          <5>3. /\ job[d].safe \in Nat /\ job[d].mark \in Nat
                /\ wc[d].hdr.mxFrame \in Nat /\ LiveHdr.mxFrame \in Nat
            BY <4>2, <1>h DEF Conn, ConnOf, HdrOK
          <5> QED BY <5>1, <5>2, <5>3
        <4> QED BY <4>1, <4>2, <4>3, <2>4, <1>u DEF SafeFor, Here
      <3> QED BY <3>1, <3>2, <3>3, <3>4
    <2> QED BY <2>1, <2>2, <2>3, <2>6, SteadyStep
  <1>2. CASE ~(shm.aReadMark[job[c].mxI] = job[c].mark /\ Current(c))
    <2>0. walDisk' = walDisk \/ walDisk' = wal
      BY <1>u
    <2>1. Becomes(c, IF job[c].useWal THEN "scan" ELSE "tryhdr", [job[c] EXCEPT !.mxI = 0, !.mark = 0],
               wc[c], tx[c])
      BY <1>s, CheckMarkDoes, <1>2
    <2>2. tx[c].on => Private(c)
      BY <1>0, <1>s, <1>h, <1>u, <1>v, <2>1, WalAssumption DEF Becomes,
         Private, Unmoved, Others, NoCopies, Known, Call, CallOf, Mine,
         Marking, Checkpointing, WriterOf, LogOf, Reached, CommitWritten,
         Unpublished, Local, ShapeOf, ControlOf, HdrPcs, Recovery, MarkPcs,
         RestartPcs, FramePcs, CopyPcs, ScanPcs, CkptPcs, Marks
    <2>3. ~tx[c].on => Quiet(c)
      BY <1>0, <1>s, <1>h, <1>u, <1>v, <2>1, WalAssumption DEF Becomes, Quiet,
         Unmoved, Others, NoCopies, Knows, Known, Call, CallOf, Mine, Marking,
         Checkpointing, Local, ShapeOf, ControlOf, HdrPcs, Recovery, MarkPcs,
         RestartPcs, FramePcs, CopyPcs, ScanPcs, CkptPcs, Marks
    <2> QED BY <2>2, <2>3, PrivateStep, QuietStep
  <1> QED BY <1>1, <1>2

LEMMA RecoverLogReads ==
  ASSUME TInv, TInv', RInv, NEW c \in Conns, RecoverLog(c)
  PROVE  RInv'
  <1>0. pc[c] = "recover1"
    BY DEF RecoverLog, Step, At
  <1>s. Shaped /\ Local(c) /\ Conn(c) /\ Mine(c) /\ SharedOK
    BY DEF TInv, LInv, Shaped, Local, Types, RInv
  <1>h. HdrOK(LiveHdr) /\ HdrOK(wc[c].hdr) /\ HdrOK(job[c].h1) /\ salts \in Nat
    BY <1>s, HdrNumbers DEF SharedOK, Conn, ConnOf, TInv
  <1>u. /\ LiveHdr' = LiveHdr /\ wal' = wal /\ salts' = salts /\ setting' = setting /\ walDisk' = walDisk
    BY <1>s DEF RecoverLog, SharedOK, LiveHdr, files, rest
  <1>k. /\ shm'.nBackfill = shm.nBackfill
        /\ \A d \in Conns : shm'.aReadMark[wc[d].readLock] = shm.aReadMark[wc[d].readLock]
    BY <1>s DEF RecoverLog, SharedOK
  <1>b. Becomes(c, "recover2", job[c],
             [wc[c] EXCEPT !.hdr = RecoveredHdr(wal), !.nCkpt = IF HasFrames(wal) THEN wal.nCkpt ELSE @], tx[c])
    BY <1>s, RecoverLogDoes
  <1>c. /\ Unmoved(c) /\ pc'[c] = "recover2" /\ job'[c] = job[c] /\ tx'[c] = tx[c] /\ ~tx[c].on
        /\ wc'[c].hdr = RecoveredHdr(wal) /\ wc'[c].readLock = -1 /\ wc[c].readLock = -1
        /\ wc'[c].iReCksum = wc[c].iReCksum
    BY <1>0, <1>s, <1>b DEF Becomes, Unmoved, Others, Local, ShapeOf,
       ControlOf, HdrPcs, Recovery, MarkPcs, RestartPcs, FramePcs, CopyPcs,
       ScanPcs, CkptPcs, Marks
  <1>w. /\ RecoveredHdr(wal).salt <= salts /\ Excl(c, WAL_WRITE_LOCK)
    BY <1>0, <1>h, RecoveredOK DEF TInv, Types, FilesOK, RInv, SaltsDrawn, Drawn, Excl, ExclOf, Recovery,
       NoSalt
  <1>1. Steady(c) /\ Knows(c) /\ (Unpublished(c)' => Unpublished(c))
    BY <1>c, <1>w, <1>u DEF Steady, Knows, Known, Unpublished, Drawn
  <1>2. Call(c)'
    BY <1>0, <1>s, <1>c DEF Mine, Call, CallOf, Marking, Checkpointing, Local,
       ShapeOf, ControlOf, HdrPcs, Recovery, MarkPcs, RestartPcs, FramePcs,
       CopyPcs, ScanPcs, CkptPcs, Marks
  <1>3. WriterOf(c)' /\ LogOf(c)' /\ HeaderOf(c)'
    BY <1>0, <1>s, <1>c, <1>u DEF Mine, WriterOf, LogOf, HeaderOf, Reached,
       CommitWritten, Unpublished, Local, ShapeOf, ControlOf, HdrPcs,
       Recovery, MarkPcs, RestartPcs, FramePcs, CopyPcs, ScanPcs, CkptPcs,
       Marks
  <1>4. CkptOf(c)' /\ ~Checkpointing(pc'[c])
    BY <1>0, <1>s, <1>h, <1>c, <1>u DEF CkptOf, Checkpointing, Local,
       ControlOf, HdrPcs, Recovery, MarkPcs, RestartPcs, FramePcs, CopyPcs,
       ScanPcs, CkptPcs, Marks
  <1>5. ASSUME Spared
        PROVE  /\ \A d \in Conns : SnapOf(d)'
               /\ CkptOf(c)' /\ BackfillOK'
               /\ \A d \in Others(c) : SafeFor(c, d)' /\ SafeFor(d, c)'
    <2>1. \A d \in Conns : Snap(d) \in Nat
      BY HdrNumbers DEF TInv, Snap
    <2>2. /\ \A d \in Others(c) : wc'[d].readLock = wc[d].readLock
          /\ wc'[c].readLock > 0 => Snap(c)' = Snap(c)
      BY <1>u, <1>c DEF Snap, Unmoved, Others
    <2> QED
      BY <1>h, <1>0, <1>k, <1>c, <1>1, <1>4, <1>5, <2>1, <2>2,
         MarksKept DEF HdrOK, Others
  <1> QED BY <1>1, <1>2, <1>3, <1>5, SteadyStep

LEMMA RecoverInfoReads ==
  ASSUME TInv, TInv', RInv, NEW c \in Conns, RecoverInfo(c)
  PROVE  RInv'
  <1>0. pc[c] = "recover3"
    BY DEF RecoverInfo, Step, At
  <1>s. Shaped /\ Local(c) /\ Conn(c) /\ Mine(c) /\ SharedOK
    BY DEF TInv, LInv, Shaped, Local, Types, RInv
  <1>h. HdrOK(LiveHdr) /\ HdrOK(wc[c].hdr) /\ HdrOK(job[c].h1) /\ salts \in Nat
    BY <1>s, HdrNumbers DEF SharedOK, Conn, ConnOf, TInv
  <1>u. /\ LiveHdr' = LiveHdr /\ wal' = wal /\ salts' = salts /\ setting' = setting /\ walDisk' = walDisk
    BY <1>s DEF RecoverInfo, SharedOK, LiveHdr, files, rest
  <1>w. \A d \in Conns : wc[d].readLock \in -1 .. WAL_NREADER - 1
    BY DEF TInv, LInv, Local, ControlOf
  <1>k. /\ shm'.nBackfill = 0
        /\ \A d \in Conns : wc[d].readLock > 0 =>
              shm'.aReadMark[wc[d].readLock] = shm.aReadMark[wc[d].readLock]
    <2>1. ASSUME NEW d \in Conns, wc[d].readLock > 0
          PROVE  ~Lockable({WAL_READ_LOCK(wc[d].readLock)}) /\ wc[d].readLock \in 1 .. WAL_NREADER - 1
      BY <2>1, <1>w, FreeMark, WalAssumption DEF Marks, TInv
    <2> DEFINE M == [i \in 0 .. WAL_NREADER - 1 |->
                     IF i = 0 THEN 0
                     ELSE IF ~Lockable({WAL_READ_LOCK(i)}) THEN shm.aReadMark[i]
                     ELSE IF i = 1 /\ wc[c].hdr.mxFrame > 0 THEN wc[c].hdr.mxFrame
                     ELSE READMARK_NOT_USED]
    <2>2. shm' = [shm EXCEPT !.nBackfill = 0, !.aReadMark = M]
      BY DEF RecoverInfo
    <2>3. ASSUME NEW i \in 1 .. WAL_NREADER - 1, ~Lockable({WAL_READ_LOCK(i)})
          PROVE  M[i] = shm.aReadMark[i]
      <3>1. i \in 0 .. WAL_NREADER - 1 /\ i # 0
        BY WalAssumption
      <3> QED BY <2>3, <3>1, Zenon
    <2> HIDE DEF M
    <2>4. shm'.nBackfill = 0 /\ shm'.aReadMark = M
      BY <2>2, <1>s DEF SharedOK
    <2> QED BY <2>1, <2>3, <2>4
  <1>b. Becomes(c, AfterHdr(c), [job[c] EXCEPT !.changed = TRUE],
             wc[c], tx[c])
    BY <1>s, RecoverInfoDoes
  <1>c. /\ Unmoved(c) /\ pc'[c] \in {"choose", "ckpt"} /\ tx'[c] = tx[c] /\ ~tx[c].on
        /\ wc'[c] = wc[c] /\ wc[c].readLock = -1 /\ wc[c].hdr = LiveHdr
        /\ job'[c].kind = job[c].kind /\ job'[c].h1 = job[c].h1 /\ job'[c].mxI = job[c].mxI
        /\ job'[c].iFirst = job[c].iFirst
    BY <1>0, <1>s, <1>b DEF Becomes, Unmoved, Others, AfterHdr, Mine,
       HeaderOf, Local, ShapeOf, ControlOf, HdrPcs, Recovery, MarkPcs,
       RestartPcs, FramePcs, CopyPcs, ScanPcs, CkptPcs, Marks
  <1>1. Steady(c) /\ Knows(c) /\ (Unpublished(c)' => Unpublished(c))
    BY <1>c, <1>u DEF Steady, Knows, Known, Unpublished
  <1>2. Call(c)'
    BY <1>0, <1>s, <1>c DEF Mine, Call, CallOf, Marking, Checkpointing, Local,
       ShapeOf, ControlOf, HdrPcs, Recovery, MarkPcs, RestartPcs, FramePcs,
       CopyPcs, ScanPcs, CkptPcs, Marks
  <1>3. WriterOf(c)' /\ LogOf(c)' /\ HeaderOf(c)'
    BY <1>0, <1>s, <1>c, <1>u DEF Mine, WriterOf, LogOf, HeaderOf, Reached,
       CommitWritten, Unpublished, Local, ShapeOf, ControlOf, HdrPcs,
       Recovery, MarkPcs, RestartPcs, FramePcs, CopyPcs, ScanPcs, CkptPcs,
       Marks
  <1>4. CkptOf(c)' /\ ~Checkpointing(pc'[c])
    BY <1>0, <1>s, <1>h, <1>c, <1>u DEF CkptOf, Checkpointing, Local,
       ControlOf, Below, HdrOK, HdrPcs, Recovery, MarkPcs, RestartPcs,
       FramePcs, CopyPcs, ScanPcs, CkptPcs, Marks
  <1>5. ASSUME Spared
        PROVE  /\ \A d \in Conns : SnapOf(d)'
               /\ CkptOf(c)' /\ BackfillOK'
               /\ \A d \in Others(c) : SafeFor(c, d)' /\ SafeFor(d, c)'
    <2>1. \A d \in Conns : Snap(d) \in Nat
      BY HdrNumbers DEF TInv, Snap
    <2>2. /\ \A d \in Others(c) : wc'[d].readLock = wc[d].readLock
          /\ wc'[c].readLock > 0 => Snap(c)' = Snap(c)
      BY <1>u, <1>c DEF Snap, Unmoved, Others
    <2> QED
      BY <1>h, <1>0, <1>k, <1>c, <1>1, <1>4, <1>5, <2>1, <2>2,
         MarksKept DEF HdrOK, Others
  <1> QED BY <1>1, <1>2, <1>3, <1>5, SteadyStep

LEMMA BeginWriteReads ==
  ASSUME TInv, TInv', RInv, NEW c \in Conns, BeginWrite(c)
  PROVE  RInv'
  <1>0. pc[c] = "idle" /\ wc[c].readLock >= 0 /\ ~tx[c].on
    BY DEF BeginWrite, Idle, Reading, Step, At
  <1>s. Shaped /\ Local(c) /\ Conn(c) /\ Mine(c) /\ SharedOK
    BY DEF TInv, LInv, Shaped, Local, Types, RInv
  <1>h. HdrOK(LiveHdr) /\ HdrOK(wc[c].hdr) /\ HdrOK(job[c].h1) /\ salts \in Nat
    BY <1>s, HdrNumbers DEF SharedOK, Conn, ConnOf, TInv
  <1>u. /\ LiveHdr' = LiveHdr /\ wal' = wal /\ salts' = salts /\ setting' = setting /\ walDisk' = walDisk
    BY <1>s DEF BeginWrite, SharedOK, LiveHdr, files, rest
  <1>k. /\ shm'.nBackfill = shm.nBackfill
        /\ \A d \in Conns : shm'.aReadMark[wc[d].readLock] = shm.aReadMark[wc[d].readLock]
    BY <1>s DEF BeginWrite, SharedOK
  <1>l. wc[c].hdr = LiveHdr /\ Published /\ job[c].kind = "none"
    BY <1>0, <1>s DEF BeginWrite, RInv, Local, ControlOf
  <1>b. Becomes(c, pc[c], job[c],
             wc[c], [NoTx EXCEPT !.on = TRUE, !.size = Len(View(c))])
    BY <1>s, BeginWriteDoes
  <1>c. /\ Unmoved(c) /\ pc'[c] = pc[c] /\ job'[c] = job[c] /\ wc'[c] = wc[c]
        /\ tx'[c].on /\ ~tx'[c].failed
    BY <1>0, <1>s, <1>b DEF Becomes, Unmoved, Others, NoTx, Local, ShapeOf,
       ControlOf, HdrPcs, Recovery, MarkPcs, RestartPcs, FramePcs, CopyPcs,
       ScanPcs, CkptPcs, Marks
  <1>d. LiveHdr.mxFrame > 0 =>
           Chain(wal, LiveHdr.mxFrame, LiveHdr.salt, 0, LiveHdr.sum)
    BY <1>l DEF Published, Chain, ValidTo, ValidFrame
  <1>1. Steady(c) /\ Knows(c) /\ (Unpublished(c)' => Unpublished(c))
    BY <1>c, <1>l, <1>u DEF Steady, Knows, Known, Unpublished
  <1>2. Call(c)'
    BY <1>0, <1>s, <1>c, <1>l DEF Mine, Call, CallOf, Marking, Checkpointing,
       Local, ShapeOf, ControlOf, HdrPcs, Recovery, MarkPcs, RestartPcs,
       FramePcs, CopyPcs, ScanPcs, CkptPcs, Marks
  <1>3. WriterOf(c)' /\ LogOf(c)' /\ HeaderOf(c)'
    BY <1>0, <1>s, <1>c, <1>l, <1>d, <1>h, <1>u DEF Mine, WriterOf, LogOf,
       HeaderOf, Reached, CommitWritten, HdrOK, Call, CallOf, Unpublished, Local, ShapeOf,
       ControlOf, HdrPcs, Recovery, MarkPcs, RestartPcs, FramePcs, CopyPcs,
       ScanPcs, CkptPcs, Marks
  <1>4. CkptOf(c)' /\ ~Checkpointing(pc'[c])
    BY <1>0, <1>s, <1>h, <1>c, <1>l, <1>u DEF CkptOf, Checkpointing, Local,
       ControlOf, HdrPcs, Recovery, MarkPcs, RestartPcs, FramePcs, CopyPcs,
       ScanPcs, CkptPcs, Marks
  <1>5. ASSUME Spared
        PROVE  /\ \A d \in Conns : SnapOf(d)'
               /\ CkptOf(c)' /\ BackfillOK'
               /\ \A d \in Others(c) : SafeFor(c, d)' /\ SafeFor(d, c)'
    <2>1. \A d \in Conns : Snap(d) \in Nat
      BY HdrNumbers DEF TInv, Snap
    <2>2. /\ \A d \in Others(c) : wc'[d].readLock = wc[d].readLock
          /\ wc'[c].readLock > 0 => Snap(c)' = Snap(c)
      BY <1>u, <1>c, <1>l DEF Snap, Unmoved, Others
    <2> QED
      BY <1>h, <1>0, <1>k, <1>c, <1>l, <1>1, <1>4, <1>5, <2>1, <2>2,
         MarksKept DEF HdrOK, Others
  <1> QED BY <1>1, <1>2, <1>3, <1>5, SteadyStep

LEMMA RollbackReads ==
  ASSUME TInv, TInv', RInv, NEW c \in Conns, Rollback(c)
  PROVE  RInv'
  <1>0. pc[c] = "idle" /\ tx[c].on
    BY DEF Rollback, Idle, Step, At
  <1>s. Shaped /\ Local(c) /\ Conn(c) /\ Mine(c) /\ SharedOK
    BY DEF TInv, LInv, Shaped, Local, Types, RInv
  <1>h. HdrOK(LiveHdr) /\ HdrOK(wc[c].hdr) /\ HdrOK(job[c].h1) /\ salts \in Nat
    BY <1>s, HdrNumbers DEF SharedOK, Conn, ConnOf, TInv
  <1>u. /\ LiveHdr' = LiveHdr /\ wal' = wal /\ salts' = salts /\ setting' = setting /\ walDisk' = walDisk
    BY <1>s DEF Rollback, SharedOK, LiveHdr, files, rest
  <1>k. /\ shm'.nBackfill = shm.nBackfill
        /\ \A d \in Conns : shm'.aReadMark[wc[d].readLock] = shm.aReadMark[wc[d].readLock]
    BY <1>s DEF Rollback, SharedOK
  <1>b. Becomes(c, pc[c], job[c],
             [wc[c] EXCEPT !.hdr = LiveHdr, !.iReCksum = 0], NoTx)
    BY <1>s, RollbackDoes
  <1>c. /\ Unmoved(c) /\ pc'[c] = pc[c] /\ job'[c] = job[c] /\ tx'[c] = NoTx /\ ~tx'[c].on /\ tx[c].on
        /\ wc'[c].hdr = LiveHdr /\ wc'[c].iReCksum = 0 /\ wc'[c].readLock = wc[c].readLock
        /\ ~tx'[c].failed
    BY <1>0, <1>s, <1>b DEF Becomes, Unmoved, Others, NoTx, Local, ShapeOf,
       ControlOf, HdrPcs, Recovery, MarkPcs, RestartPcs, FramePcs, CopyPcs,
       ScanPcs, CkptPcs, Marks
  <1>1. Steady(c) /\ Knows(c) /\ (Unpublished(c)' => Unpublished(c))
    BY <1>c, <1>u DEF Steady, Knows, Known, Unpublished
  <1>2. Call(c)'
    BY <1>0, <1>s, <1>c DEF Mine, Call, CallOf, Marking, Checkpointing, Local,
       ShapeOf, ControlOf, HdrPcs, Recovery, MarkPcs, RestartPcs, FramePcs,
       CopyPcs, ScanPcs, CkptPcs, Marks
  <1>3. WriterOf(c)' /\ LogOf(c)' /\ HeaderOf(c)'
    BY <1>0, <1>s, <1>c, <1>u DEF Mine, WriterOf, LogOf, HeaderOf, Reached,
       CommitWritten, Unpublished, Local, ShapeOf, ControlOf, HdrPcs,
       Recovery, MarkPcs, RestartPcs, FramePcs, CopyPcs, ScanPcs, CkptPcs,
       Marks
  <1>4. CkptOf(c)' /\ ~Checkpointing(pc'[c])
    BY <1>0, <1>s, <1>h, <1>c, <1>u DEF CkptOf, Checkpointing, Local,
       ControlOf, HdrPcs, Recovery, MarkPcs, RestartPcs, FramePcs, CopyPcs,
       ScanPcs, CkptPcs, Marks
  <1>5. ASSUME Spared
        PROVE  /\ \A d \in Conns : SnapOf(d)'
               /\ CkptOf(c)' /\ BackfillOK'
               /\ \A d \in Others(c) : SafeFor(c, d)' /\ SafeFor(d, c)'
    <2>1. \A d \in Conns : Snap(d) \in Nat
      BY HdrNumbers DEF TInv, Snap
    <2>2. /\ \A d \in Others(c) : wc'[d].readLock = wc[d].readLock
          /\ wc'[c].readLock > 0 => Snap(c)' = Snap(c)
      BY <1>u, <1>c DEF Snap, Unmoved, Others
    <2> QED
      BY <1>h, <1>0, <1>k, <1>c, <1>1, <1>4, <1>5, <2>1, <2>2,
         MarksKept DEF HdrOK, Others
  <1> QED BY <1>1, <1>2, <1>3, <1>5, SteadyStep

LEMMA RestartInfoReads ==
  ASSUME TInv, TInv', RInv, NEW c \in Conns, RestartInfo(c)
  PROVE  RInv'
  <1>0. pc[c] = "restart2"
    BY DEF RestartInfo, Step, At
  <1>s. Shaped /\ Local(c) /\ Conn(c) /\ Mine(c) /\ SharedOK
    BY DEF TInv, LInv, Shaped, Local, Types, RInv
  <1>h. HdrOK(LiveHdr) /\ HdrOK(wc[c].hdr) /\ HdrOK(job[c].h1) /\ salts \in Nat
    BY <1>s, HdrNumbers DEF SharedOK, Conn, ConnOf, TInv
  <1>u. /\ LiveHdr' = LiveHdr /\ wal' = wal /\ salts' = salts /\ setting' = setting /\ walDisk' = walDisk
    BY <1>s DEF RestartInfo, LeaveRead0, SharedOK, LiveHdr, files, rest
  <1>w. \A d \in Conns : wc[d].readLock \in -1 .. WAL_NREADER - 1
    BY DEF TInv, LInv, Local, ControlOf
  <1>k. shm'.nBackfill = 0 /\ \A d \in Conns : ~(wc[d].readLock > 0)
    <2>1. ASSUME NEW d \in Conns, wc[d].readLock > 0 PROVE FALSE
      <3>1. ~Excl(c, WAL_READ_LOCK(wc[d].readLock))
        BY <2>1, <1>w, MarkLocked DEF TInv
      <3>2. WAL_READ_LOCK(wc[d].readLock) \in ReadersSlots
        BY <2>1, <1>w, WalAssumption DEF ReadersSlots, WAL_READ_LOCK
      <3> QED BY <3>1, <3>2, <1>0 DEF Excl, ExclOf
    <2> QED BY <2>1, <1>s DEF RestartInfo, SharedOK
  <1>c. /\ Unmoved(c) /\ pc'[c] \in {"scan", "trunclog"} /\ tx'[c] = tx[c]
        /\ wc'[c].hdr = LiveHdr /\ wc[c].hdr = LiveHdr /\ wc'[c].iReCksum = wc[c].iReCksum
        /\ wc'[c].readLock \in {-1, wc[c].readLock} /\ (tx[c].on => pc'[c] = "scan")
        /\ job'[c].kind = job[c].kind /\ job'[c].h1 = job[c].h1 /\ job'[c].mxI = job[c].mxI
        /\ job'[c].iFirst = job[c].iFirst
    <2>1. CASE job[c].kind = "write"
      <3>b. Becomes(c, "scan", [job[c] EXCEPT !.useWal = TRUE],
                 [wc[c] EXCEPT !.readLock = -1], tx[c])
        BY <1>s, RestartInfoDoes, <2>1
      <3> QED
        BY <1>0, <1>s, <2>1, <3>b DEF Becomes, Unmoved, Others, Mine,
           HeaderOf, Local, ShapeOf, ControlOf, HdrPcs, Recovery, MarkPcs,
           RestartPcs, FramePcs, CopyPcs, ScanPcs, CkptPcs, Marks
    <2>2. CASE job[c].kind # "write"
      <3>b. Becomes(c, "trunclog", job[c],
                 wc[c], tx[c])
        BY <1>s, RestartInfoDoes, <2>2
      <3> QED
        BY <1>0, <1>s, <2>2, <3>b DEF Becomes, Unmoved, Others, Mine,
           HeaderOf, Local, ShapeOf, ControlOf, HdrPcs, Recovery, MarkPcs,
           RestartPcs, FramePcs, CopyPcs, ScanPcs, CkptPcs, Marks
    <2> QED BY <2>1, <2>2
  <1>d. wc'[c].readLock <= 0
    BY <1>c, <1>k, <1>w
  <1>1. Steady(c) /\ Knows(c) /\ (Unpublished(c)' => Unpublished(c))
    BY <1>c, <1>d, <1>u DEF Steady, Knows, Known, Unpublished
  <1>2. Call(c)'
    BY <1>0, <1>s, <1>c, <1>d DEF Mine, Call, CallOf, Marking, Checkpointing,
       Local, ShapeOf, ControlOf, HdrPcs, Recovery, MarkPcs, RestartPcs,
       FramePcs, CopyPcs, ScanPcs, CkptPcs, Marks
  <1>3. WriterOf(c)' /\ LogOf(c)' /\ HeaderOf(c)'
    BY <1>0, <1>s, <1>c, <1>d, <1>u DEF Mine, WriterOf, LogOf, HeaderOf,
       Reached, CommitWritten, Unpublished, Local, ShapeOf, ControlOf, HdrPcs,
       Recovery, MarkPcs, RestartPcs, FramePcs, CopyPcs, ScanPcs, CkptPcs,
       Marks
  <1>4. CkptOf(c)' /\ ~Checkpointing(pc'[c])
    BY <1>0, <1>s, <1>h, <1>c, <1>d, <1>u DEF CkptOf, Checkpointing, Local,
       ControlOf, HdrPcs, Recovery, MarkPcs, RestartPcs, FramePcs, CopyPcs,
       ScanPcs, CkptPcs, Marks
  <1>5. ASSUME Spared
        PROVE  /\ \A d \in Conns : SnapOf(d)'
               /\ CkptOf(c)' /\ BackfillOK'
               /\ \A d \in Others(c) : SafeFor(c, d)' /\ SafeFor(d, c)'
    <2>1. \A d \in Conns : Snap(d) \in Nat
      BY HdrNumbers DEF TInv, Snap
    <2>2. /\ \A d \in Others(c) : wc'[d].readLock = wc[d].readLock
          /\ wc'[c].readLock > 0 => Snap(c)' = Snap(c)
      BY <1>u, <1>c, <1>d, <1>k, <1>w DEF Snap, Unmoved, Others
    <2> QED
      BY <1>h, <1>0, <1>k, <1>w, <1>c, <1>d, <1>1, <1>4, <1>5, <2>1, <2>2,
         MarksKept DEF HdrOK, Others
  <1> QED BY <1>1, <1>2, <1>3, <1>5, SteadyStep

LEMMA IndexReads ==
  ASSUME TInv, TInv', RInv, NEW c \in Conns, Index(c)
  PROVE  RInv'
  <1>0. pc[c] = "index"
    BY DEF Index, Step, At
  <1>s. Shaped /\ Local(c) /\ Conn(c) /\ Mine(c) /\ SharedOK
    BY DEF TInv, LInv, Shaped, Local, Types, RInv
  <1>h. HdrOK(LiveHdr) /\ HdrOK(wc[c].hdr) /\ HdrOK(job[c].h1) /\ salts \in Nat
    BY <1>s, HdrNumbers DEF SharedOK, Conn, ConnOf, TInv
  <1>u. /\ LiveHdr' = LiveHdr /\ wal' = wal /\ salts' = salts /\ setting' = setting /\ walDisk' = walDisk
    BY <1>s DEF Index, SharedOK, LiveHdr, files, rest
  <1>k. /\ shm'.nBackfill = shm.nBackfill
        /\ \A d \in Conns : shm'.aReadMark[wc[d].readLock] = shm.aReadMark[wc[d].readLock]
    BY <1>s DEF Index, SharedOK
  <1>o. tx[c].on /\ ~tx[c].failed /\ job[c].kind = "write" /\ wc[c].readLock > 0 /\ Len(job[c].new) \in Nat
    BY <1>0, <1>s DEF Mine, Call, CallOf, Conn, ConnOf, Local, ShapeOf,
       ControlOf, HdrPcs, Recovery, MarkPcs, RestartPcs, FramePcs, CopyPcs,
       ScanPcs, CkptPcs, Marks
  <1>i. /\ IndexedHdr(c).mxFrame = wc[c].hdr.mxFrame + Len(job[c].new)
        /\ IndexedHdr(c).salt = wc[c].hdr.salt /\ IndexedHdr(c).sum = wc[c].hdr.sum
    BY <1>h DEF IndexedHdr, HdrOK
  <1>c. /\ Unmoved(c) /\ pc'[c] \in {"publish", "idle"}
        /\ tx'[c].on /\ ~tx'[c].failed /\ wc'[c].iReCksum = wc[c].iReCksum
        /\ wc'[c].hdr.mxFrame = wc[c].hdr.mxFrame + Len(job[c].new)
        /\ wc'[c].hdr.salt = wc[c].hdr.salt /\ wc'[c].hdr.sum = wc[c].hdr.sum
        /\ wc'[c].readLock = wc[c].readLock
        /\ job'[c] = job[c] \/ (job'[c] = NoJob /\ pc'[c] = "idle")
        /\ pc'[c] = "publish" => job'[c] = job[c]
        /\ pc'[c] = "idle" => job'[c] = NoJob
    <2>1. CASE job[c].commit
      <3>b. Becomes(c, "publish", job[c],
                 [wc[c] EXCEPT !.hdr = IndexedHdr(c)], tx[c])
        BY <1>s, IndexDoes, <2>1
      <3> QED
        BY <1>0, <1>s, <1>i, <1>o, <2>1, <3>b DEF Becomes, Unmoved, Others,
           Local, ShapeOf
    <2>2. CASE ~job[c].commit
      <3>b. Becomes(c, "idle", NoJob,
                 [wc[c] EXCEPT !.hdr = IndexedHdr(c)], [tx[c] EXCEPT !.dirty = Without(tx[c].dirty, {job[c].list[1]})])
        BY <1>s, IndexDoes, <2>2
      <3> QED
        BY <1>0, <1>s, <1>i, <1>o, <2>2, <3>b DEF Becomes, Unmoved, Others,
           Local, ShapeOf
    <2> QED BY <2>1, <2>2
  <1>p. pc'[c] = "publish" => job[c].commit
    <2>1. CASE job[c].commit
      BY <2>1
    <2>2. CASE ~job[c].commit
      BY <1>s, IndexDoes, <2>2 DEF Becomes
    <2> QED BY <2>1, <2>2
  <1>d. Reached(c) = wc'[c].hdr.mxFrame /\ Reached(c)' = wc'[c].hdr.mxFrame /\ wc'[c].hdr.mxFrame >= wc[c].hdr.mxFrame
    BY <1>0, <1>c, <1>o, <1>h DEF Reached, HdrOK
  <1>e. job'[c].h1.salt \in {0, job[c].h1.salt} /\ job'[c].kind # "ckpt"
    BY <1>c, <1>o DEF NoJob, ZeroHdr
  <1>1. Steady(c) /\ Knows(c) /\ (Unpublished(c)' => Unpublished(c))
    BY <1>c, <1>o, <1>e, <1>u DEF Steady, Knows, Known, Unpublished
  <1>2. Call(c)'
    BY <1>0, <1>s, <1>c, <1>o, <1>e DEF Mine, Call, CallOf, Marking,
       Checkpointing, NoJob, Local, ShapeOf, ControlOf, HdrPcs, Recovery, MarkPcs,
       RestartPcs, FramePcs, CopyPcs, ScanPcs, CkptPcs, Marks
  <1>3. WriterOf(c)' /\ LogOf(c)' /\ HeaderOf(c)'
    <2>1. WriterOf(c)'
      BY <1>0, <1>s, <1>h, <1>c, <1>o, <1>d, <1>u DEF Mine, HdrOK, WriterOf, Unpublished
    <2>2. LogOf(c) /\ LiveHdr.mxFrame \in Nat /\ Reached(c) \in Nat
      BY <1>s, <1>h, LogLengths DEF Mine, HdrOK, TInv
    <2>3. CommitWritten(c)' => CommitWritten(c)
      BY <1>0, <1>c, <1>p DEF CommitWritten
    <2>4. Reached(c)' = Reached(c)
      BY <1>d
    <2>5. job'[c].iFirst \in {0, job[c].iFirst}
      BY <1>c DEF NoJob
    <2>6. LogOf(c)'
      BY <1>0, <1>c, <1>o, <1>u, <2>2, <2>3, <2>4, <2>5 DEF LogOf, RestartPcs
    <2>7. HeaderOf(c)'
      BY <1>c DEF HeaderOf
    <2> QED BY <2>1, <2>6, <2>7
  <1>4. CkptOf(c)' /\ ~Checkpointing(pc'[c])
    BY <1>0, <1>s, <1>h, <1>c, <1>o, <1>e, <1>u DEF CkptOf, Checkpointing,
       Local, ControlOf, HdrPcs, Recovery, MarkPcs, RestartPcs, FramePcs,
       CopyPcs, ScanPcs, CkptPcs, Marks
  <1>5. ASSUME Spared
        PROVE  /\ \A d \in Conns : SnapOf(d)'
               /\ CkptOf(c)' /\ BackfillOK'
               /\ \A d \in Others(c) : SafeFor(c, d)' /\ SafeFor(d, c)'
    <2>1. \A d \in Conns : Snap(d) \in Nat
      BY HdrNumbers DEF TInv, Snap
    <2>2. /\ \A d \in Others(c) : wc'[d].readLock = wc[d].readLock
          /\ wc'[c].readLock > 0 => Snap(c)' = Snap(c)
      BY <1>u, <1>c, <1>o, <1>e DEF Snap, Unmoved, Others
    <2> QED
      BY <1>h, <1>0, <1>k, <1>c, <1>o, <1>e, <1>1, <1>4, <1>5, <2>1, <2>2,
         MarksKept DEF HdrOK, Others
  <1> QED BY <1>1, <1>2, <1>3, <1>5, SteadyStep

(* A step of the holder of the WRITE lock, which may change the log, the   *)
(* shared header and the salts: nobody else is in a write transaction, or  *)
(* recovers or restarts the log.                                           *)
LEMMA OwnerStep ==
  ASSUME TInv, RInv, NEW c \in Conns, Unmoved(c), Excl(c, WAL_WRITE_LOCK), setting' = setting,
         salts' \in Nat, salts <= salts',
         Mine(c)', SaltsDrawn', Published', \A d \in Others(c) : FreshFor(c, d)',
         Spared => Readers'
  PROVE  RInv'
  <1>h. salts \in Nat /\ \A d \in Conns : wc[d].hdr.salt \in Nat /\ job[d].h1.salt \in Nat
    BY HdrNumbers DEF TInv
  <1>1. ASSUME NEW d \in Others(c) PROVE Mine(d)'
    <2>1. ~tx[d].on /\ pc[d] \notin Recovery \cup {"recover", "restart2", "trunclog"}
      BY OthersOff DEF TInv
    <2>2. Mine(d)
      BY DEF RInv, Others
    <2>3. SaltOf(d)'
      BY <1>h, <2>2 DEF Mine, SaltOf, Drawn, Unmoved, Others
    <2> QED BY <2>1, <2>2, <2>3 DEF Mine, Unmoved, Call, WriterOf, LogOf, HeaderOf, Recovery
  <1>2. ASSUME NEW d \in Conns, NEW e \in Others(d) PROVE FreshFor(d, e)'
    <2>1. CASE d = c
      BY <2>1
    <2>2. CASE d # c
      <3>1. ~tx[d].on
        BY <2>2, OthersOff DEF TInv, Others
      <3> QED BY <3>1, <2>2 DEF FreshFor, Unpublished, Unmoved, Others
    <2> QED BY <2>1, <2>2
  <1>3. \A d \in Conns : Mine(d)'
    BY <1>1 DEF Others
  <1> QED BY <1>2, <1>3 DEF RInv, Spared

(* No reader is left while c has all of the marks.                         *)
LEMMA NoReaders ==
  ASSUME LInv, NEW c \in Conns, pc[c] \in {"restart1", "restart2", "trunclog"}, NEW d \in Conns
  PROVE  wc[d].readLock <= 0
  <1>1. wc[d].readLock \in -1 .. WAL_NREADER - 1
    BY DEF LInv, Local, ControlOf
  <1>2. CASE wc[d].readLock > 0
    <2>1. ~Excl(c, WAL_READ_LOCK(wc[d].readLock))
      BY <1>1, <1>2, MarkLocked
    <2>2. WAL_READ_LOCK(wc[d].readLock) \in ReadersSlots
      BY <1>1, <1>2, WalAssumption DEF ReadersSlots, WAL_READ_LOCK
    <2> QED BY <2>1, <2>2 DEF Excl, ExclOf
  <1> QED BY <1>1, <1>2, WalAssumption

(* Nobody checkpoints beside the holder of the CKPT lock.                  *)
LEMMA OneCheckpointer ==
  ASSUME LInv, NEW c \in Conns, Excl(c, WAL_CKPT_LOCK), NEW d \in Others(c)
  PROVE  (job[d].kind = "ckpt" => pc[d] = "closewal") /\ pc[d] # "ckpt" /\ ~Checkpointing(pc[d])
  <1>1. ~Excl(d, WAL_CKPT_LOCK)
    BY WalAssumption DEF LInv, Exclusion, Others, Slots, WAL_CKPT_LOCK, WAL_READ_LOCK
  <1>2. ControlOf(pc[d], job[d], tx[d].on, wc[d].readLock)
    BY DEF LInv, Local, Others
  <1>3. job[d].kind # "ckpt" \/ pc[d] = "closewal"
    BY <1>1 DEF Excl, ExclOf
  <1> QED BY <1>2, <1>3 DEF ControlOf, Checkpointing, HdrPcs, Recovery, MarkPcs, RestartPcs, FramePcs, CopyPcs, ScanPcs, CkptPcs

(* Nobody copies while c reads the database file alone.                    *)
LEMMA NobodyCopies ==
  ASSUME LInv, NEW c \in Conns, wc[c].readLock = 0, NEW d \in Conns
  PROVE  pc[d] \notin CopyPcs
  <1>1. ~Excl(d, WAL_READ_LOCK(0))
    BY MarkLocked
  <1> QED BY <1>1 DEF Excl, ExclOf

LEMMA RestartReads ==
  ASSUME TInv, TInv', RInv, NEW c \in Conns, Restart(c)
  PROVE  RInv'
  <1>0. pc[c] = "restart" /\ salts' = salts + 1
    BY DEF Restart, Step, At
  <1>s. Shaped /\ Local(c) /\ Conn(c) /\ Mine(c) /\ SharedOK
    BY DEF TInv, LInv, Shaped, Local, Types, RInv
  <1>h. HdrOK(LiveHdr) /\ HdrOK(wc[c].hdr) /\ HdrOK(job[c].h1) /\ salts \in Nat
    BY <1>s, HdrNumbers DEF SharedOK, Conn, ConnOf, TInv
  <1>u. /\ LiveHdr' = LiveHdr /\ wal' = wal /\ walDisk' = walDisk /\ setting' = setting
        /\ shm'.nBackfill = shm.nBackfill /\ shm'.aReadMark = shm.aReadMark
    BY <1>s DEF Restart, RestartHdr, SharedOK, LiveHdr, files
  <1>b. Becomes(c, "restart1", job[c], [wc[c] EXCEPT !.hdr = RestartedHdr(c), !.nCkpt = @ + 1], tx[c])
    BY <1>s, RestartDoes
  <1>i. RestartedHdr(c).mxFrame = 0 /\ RestartedHdr(c).salt = salts + 1
    BY <1>h DEF RestartedHdr, HdrOK
  <1>c. /\ Unmoved(c) /\ pc'[c] = "restart1" /\ job'[c] = job[c] /\ tx'[c] = tx[c]
        /\ wc'[c].hdr.mxFrame = 0 /\ wc'[c].hdr.salt = salts + 1
        /\ wc'[c].readLock = wc[c].readLock /\ wc'[c].iReCksum = wc[c].iReCksum
        /\ ~(wc[c].readLock > 0)
    BY <1>0, <1>s, <1>b, <1>i, WalAssumption DEF Becomes, Unmoved, Others, Local, ShapeOf, ControlOf, HdrPcs,
       Recovery, MarkPcs, RestartPcs, FramePcs, CopyPcs, ScanPcs, CkptPcs
  <1>o. /\ Excl(c, WAL_WRITE_LOCK)
        /\ tx[c].on => job[c].kind = "write" /\ wc[c].readLock = 0 /\ ~tx[c].failed
    BY <1>0, <1>s DEF Excl, ExclOf, Local, ControlOf, Mine, Call, CallOf, RestartPcs, HdrPcs,
       Recovery, MarkPcs, FramePcs, CopyPcs, ScanPcs, CkptPcs
  <1>d. wc[c].iReCksum = 0 /\ (tx[c].on => job[c].iFirst = 0)
    <2>1. CASE tx[c].on
      <3>1. Reached(c) = LiveHdr.mxFrame
        BY <2>1, <1>0, <1>s, <1>o, <1>h DEF Mine, WriterOf, Reached, HdrOK
      <3> QED BY <3>1, <2>1, <1>0, <1>s, <1>o, <1>h DEF Mine, LogOf, HdrOK, RestartPcs
    <2> QED BY <2>1, <1>s DEF Mine, LogOf
  <1>1. Drawn(LiveHdr.salt) /\ SaltsDrawn'
    <2>1. wal.salt \in Int /\ walDisk.salt \in Int /\ LiveHdr.salt \in Int
      BY <1>h DEF TInv, Types, FilesOK, LogOK, NoSalt, HdrOK
    <2> QED BY <2>1, <1>0, <1>u, <1>h DEF RInv, SaltsDrawn, Drawn
  <1>2. SaltOf(c)' /\ WriterOf(c)'
    BY <1>0, <1>1, <1>c, <1>u, <1>h, <1>s DEF Mine, SaltOf, Drawn, WriterOf, Unpublished, HdrOK
  <1>3. Call(c)' /\ LogOf(c)' /\ HeaderOf(c)'
    BY <1>0, <1>c, <1>d, <1>s DEF Mine, Call, CallOf, Marking, Checkpointing, LogOf, HeaderOf, Reached,
       CommitWritten, FramePcs, ScanPcs, CopyPcs
  <1>4. \A d \in Others(c) : FreshFor(c, d)'
    <2>1. ASSUME NEW d \in Others(c) PROVE wc[d].hdr.salt <= salts /\ job[d].h1.salt <= salts
      BY DEF RInv, Mine, SaltOf, Drawn, Others
    <2>2. \A d \in Conns : wc[d].hdr.salt \in Nat /\ job[d].h1.salt \in Nat
      BY HdrNumbers DEF TInv
    <2> QED BY <2>1, <2>2, <1>0, <1>c, <1>h DEF FreshFor, Unmoved, Others
  <1>5. Published'
    BY <1>u DEF RInv, Published
  <1>6. ASSUME Spared PROVE Readers'
    <2>0. Readers
      BY <1>6 DEF RInv
    <2>1. ASSUME NEW d \in Conns PROVE SnapOf(d)'
      BY <2>0, <1>c, <1>u DEF Readers, SnapOf, Snap, Unmoved, Others
    <2>2. ASSUME NEW d \in Conns PROVE CkptOf(d)'
      BY <2>0, <1>c, <1>u DEF Readers, CkptOf, Below, Here, Unmoved, Others, Checkpointing, ScanPcs, CopyPcs
    <2>3. ASSUME NEW d \in Conns, NEW e \in Others(d) PROVE SafeFor(d, e)'
      BY <2>0, <1>c, <1>u DEF Readers, SafeFor, Snap, Scanned, Here, Unmoved, Others, Checkpointing, ScanPcs, CopyPcs
    <2>4. BackfillOK'
      BY <2>0, <1>0, <1>c, <1>u DEF Readers, BackfillOK, Restarting, Unmoved, Others
    <2> QED BY <2>1, <2>2, <2>3, <2>4 DEF Readers
  <1>7. salts' \in Nat /\ salts <= salts'
    BY <1>0, <1>h
  <1> QED BY <1>c, <1>o, <1>u, <1>1, <1>2, <1>3, <1>4, <1>5, <1>6, <1>7, OwnerStep DEF Mine

LEMMA RestartHdr0Reads ==
  ASSUME TInv, TInv', RInv, NEW c \in Conns, RestartHdr0(c)
  PROVE  RInv'
  <1>0. pc[c] = "restart1"
    BY DEF RestartHdr0, Step, At
  <1>s. Shaped /\ Local(c) /\ Conn(c) /\ Mine(c) /\ SharedOK
    BY DEF TInv, LInv, Shaped, Local, Types, RInv
  <1>h. HdrOK(LiveHdr) /\ HdrOK(wc[c].hdr) /\ salts \in Nat
    BY <1>s, HdrNumbers DEF SharedOK, Conn, ConnOf, TInv
  <1>z. wc[c].hdr.mxFrame = 0
    BY <1>0, <1>s DEF Conn, ConnOf
  <1>u. /\ LiveHdr' = wc[c].hdr /\ wal' = wal /\ walDisk' = walDisk /\ setting' = setting /\ salts' = salts
    BY <1>s DEF RestartHdr0, SharedOK, LiveHdr, files, rest
  <1>b. Becomes(c, "restart2", job[c], wc[c], tx[c])
    BY <1>s, RestartHdr0Does
  <1>c. /\ Unmoved(c) /\ pc'[c] = "restart2" /\ job'[c] = job[c] /\ tx'[c] = tx[c] /\ wc'[c] = wc[c]
    BY <1>b DEF Becomes, Unmoved
  <1>o. /\ Excl(c, WAL_WRITE_LOCK)
        /\ tx[c].on => job[c].kind = "write" /\ wc[c].readLock = 0 /\ ~tx[c].failed
        /\ ~tx[c].on => Excl(c, WAL_CKPT_LOCK)
    BY <1>0, <1>s DEF Excl, ExclOf, Local, ControlOf, Mine, Call, CallOf, RestartPcs, HdrPcs,
       Recovery, MarkPcs, FramePcs, CopyPcs, ScanPcs, CkptPcs
  <1>d. wc[c].iReCksum = 0 /\ (tx[c].on => job[c].iFirst = 0)
    BY <1>0, <1>z, <1>s, <1>o, <1>h DEF Mine, LogOf, Reached, HdrOK, RestartPcs
  <1>1. SaltsDrawn'
    BY <1>u, <1>s DEF RInv, SaltsDrawn, Drawn, Mine, SaltOf
  <1>2. SaltOf(c)' /\ WriterOf(c)'
    BY <1>0, <1>c, <1>u, <1>h, <1>s DEF Mine, SaltOf, Drawn, WriterOf, Unpublished, HdrOK
  <1>3. Call(c)' /\ LogOf(c)' /\ HeaderOf(c)'
    BY <1>0, <1>c, <1>d, <1>s, <1>u, <1>z DEF Mine, Call, CallOf, Marking, Checkpointing, LogOf, HeaderOf, Reached,
       CommitWritten, FramePcs, ScanPcs, CopyPcs
  <1>4. \A d \in Others(c) : FreshFor(c, d)'
    BY <1>u, <1>c DEF FreshFor, Unpublished
  <1>5. Published'
    BY <1>u, <1>z DEF Published
  <1>6. ASSUME Spared PROVE Readers'
    <2>0. Readers
      BY <1>6 DEF RInv
    <2>1. ASSUME NEW d \in Conns PROVE ~(wc'[d].readLock > 0)
      <3>1. wc[d].readLock \in Int /\ wc[d].readLock <= 0
        BY <1>0, NoReaders, WalAssumption DEF TInv, LInv, Local, ControlOf
      <3> QED BY <3>1, <1>c DEF Unmoved, Others
    <2>2. ASSUME NEW d \in Conns PROVE CkptOf(d)'
      <3>1. CASE d = c
        BY <3>1, <1>c DEF CkptOf, Checkpointing, ScanPcs, CopyPcs
      <3>2. CASE d # c /\ tx[c].on
        <4>1. pc[d] \notin CopyPcs
          BY <3>2, <1>o, NobodyCopies DEF TInv
        <4>2. FreshFor(c, d) /\ Unpublished(c) /\ wc[c].hdr.salt = salts
          BY <3>2, <1>0, <1>s DEF RInv, Mine, WriterOf, Others
        <4>3. ~(wc[d].hdr.salt = wc[c].hdr.salt) /\ ~(job[d].h1.salt = wc[c].hdr.salt)
          BY <4>2, <1>h, HdrNumbers DEF FreshFor, TInv
        <4> QED BY <3>2, <4>1, <4>3, <1>c, <1>u DEF CkptOf, Below, Unmoved, Others
      <3>3. CASE d # c /\ ~tx[c].on
        BY <3>3, <1>o, <1>c, OneCheckpointer DEF CkptOf, Checkpointing, Unmoved, Others, TInv
      <3> QED BY <3>1, <3>2, <3>3
    <2>3. BackfillOK'
      BY <1>c DEF BackfillOK, Restarting
    <2> QED BY <2>1, <2>2, <2>3 DEF Readers, SnapOf, SafeFor, Others
  <1> QED BY <1>c, <1>o, <1>u, <1>h, <1>1, <1>2, <1>3, <1>4, <1>5, <1>6, OwnerStep DEF Mine

LEMMA WriteLogHeaderReads ==
  ASSUME TInv, TInv', RInv, NEW c \in Conns, WriteLogHeader(c)
  PROVE  RInv'
  <1>0. pc[c] = "log" /\ wc[c].hdr.mxFrame = 0
    BY DEF WriteLogHeader, Step, At
  <1>s. Shaped /\ Local(c) /\ Conn(c) /\ Mine(c) /\ SharedOK
    BY DEF TInv, LInv, Shaped, Local, Types, RInv
  <1>h. /\ HdrOK(LiveHdr) /\ HdrOK(wc[c].hdr) /\ salts \in Nat /\ LogOK(wal)
        /\ wal.salt \in Int /\ walDisk.salt \in Int
    BY <1>s, HdrNumbers DEF SharedOK, Conn, ConnOf, TInv, Types, FilesOK, LogOK, NoSalt
  <1>u. /\ LiveHdr' = LiveHdr /\ shm' = shm /\ walDisk' = walDisk /\ setting' = setting
        /\ wal'.salt = NewSalt(c) /\ wal'.nCkpt = wc[c].nCkpt
        /\ salts' \in Nat /\ salts <= salts'
        /\ (NewSalt(c) = salts + 1 /\ salts' = salts + 1) \/ (NewSalt(c) = wc[c].hdr.salt /\ salts' = salts)
    BY <1>h DEF WriteLogHeader, NewSalt, LogOK, LiveHdr
  <1>b. Becomes(c, "synchdr", job[c], [wc[c] EXCEPT !.hdr.salt = NewSalt(c), !.hdr.sum = <<wc[c].nCkpt>>], tx[c])
    BY <1>s, WriteLogHeaderDoes
  <1>i. wc'[c].hdr = [wc[c].hdr EXCEPT !.salt = NewSalt(c), !.sum = <<wc[c].nCkpt>>]
    BY <1>s, <1>b, <1>h DEF Becomes, Local, ShapeOf, HdrOK
  <1>c. /\ Unmoved(c) /\ pc'[c] = "synchdr" /\ job'[c] = job[c] /\ tx'[c] = tx[c]
        /\ wc'[c].hdr.mxFrame = 0 /\ wc'[c].hdr.salt = NewSalt(c) /\ wc'[c].hdr.sum = <<wc[c].nCkpt>>
        /\ wc'[c].readLock = wc[c].readLock /\ wc'[c].iReCksum = wc[c].iReCksum
    BY <1>0, <1>s, <1>b, <1>i, <1>h DEF Becomes, Unmoved, Others, Local, ShapeOf, HdrOK
  <1>o. Excl(c, WAL_WRITE_LOCK) /\ tx[c].on /\ job[c].kind = "write" /\ ~tx[c].failed
    BY <1>0, <1>s DEF Excl, ExclOf, Local, ControlOf, Mine, Call, CallOf, RestartPcs, HdrPcs,
       Recovery, MarkPcs, FramePcs, CopyPcs, ScanPcs, CkptPcs
  <1>z. LiveHdr.mxFrame = 0
    BY <1>0, <1>o, <1>s, <1>h DEF Mine, WriterOf, HdrOK
  <1>d. wc[c].iReCksum = 0
    BY <1>0, <1>z, <1>s, <1>o, <1>h DEF Mine, LogOf, Reached, HdrOK
  <1>n. /\ LiveHdr.salt <= salts /\ wc[c].hdr.salt <= salts /\ job[c].h1.salt <= salts
        /\ wal.salt <= salts /\ walDisk.salt <= salts
        /\ \A d \in Conns : wc[d].hdr.salt \in Nat /\ job[d].h1.salt \in Nat
    BY HdrNumbers, <1>s DEF RInv, SaltsDrawn, Drawn, Mine, SaltOf, TInv
  <1>1. SaltsDrawn'
    BY <1>u, <1>n, <1>h DEF SaltsDrawn, Drawn, HdrOK
  <1>2. SaltOf(c)' /\ WriterOf(c)'
    <2>1. SaltOf(c)'
      BY <1>u, <1>n, <1>h, <1>c DEF SaltOf, Drawn
    <2>2. Unpublished(c)' => wc'[c].hdr.salt = salts' /\ LiveHdr.salt < salts'
      BY <1>0, <1>o, <1>u, <1>n, <1>h, <1>c, <1>s DEF Mine, WriterOf, Unpublished, HdrOK
    <2> QED BY <2>1, <2>2, <1>c, <1>u, <1>z DEF WriterOf
  <1>3. Call(c)' /\ LogOf(c)' /\ HeaderOf(c)'
    <2>1. Chain(wal', 0, wc'[c].hdr.salt, 0, wc'[c].hdr.sum)
      BY <1>u, <1>c, <1>h DEF Chain, SumUpTo, NoSalt, HdrOK
    <2>2. Reached(c)' = 0 /\ ~CommitWritten(c)'
      BY <1>c DEF Reached, CommitWritten
    <2> QED
      BY <1>0, <2>1, <2>2, <1>c, <1>d, <1>o, <1>s, <1>u DEF Mine, Call, CallOf, Marking, Checkpointing, LogOf, HeaderOf,
         FramePcs, ScanPcs, CopyPcs, RestartPcs
  <1>4. ASSUME NEW d \in Others(c) PROVE FreshFor(c, d)'
    <2>1. FreshFor(c, d) /\ wc[d].hdr.salt <= salts /\ job[d].h1.salt <= salts
      BY DEF RInv, Mine, SaltOf, Drawn, Others
    <2>2. Unpublished(c)' => Unpublished(c) \/ salts' = salts + 1
      BY <1>u, <1>c DEF Unpublished
    <2> QED BY <2>1, <2>2, <1>n, <1>u, <1>h, <1>c DEF FreshFor, Unmoved, Others
  <1>5. Published'
    BY <1>u, <1>z DEF Published
  <1>6. ASSUME Spared PROVE Readers'
    <2>0. Readers
      BY <1>6 DEF RInv
    <2>1. ASSUME NEW d \in Conns PROVE SnapOf(d)'
      BY <2>0, <1>c, <1>u, <1>o DEF Readers, SnapOf, Snap, Unmoved, Others
    <2>2. ASSUME NEW d \in Conns PROVE CkptOf(d)'
      BY <2>0, <1>c, <1>u, <1>o DEF Readers, CkptOf, Below, Here, Unmoved, Others, Checkpointing, ScanPcs, CopyPcs
    <2>3. ASSUME NEW d \in Conns, NEW e \in Others(d) PROVE SafeFor(d, e)'
      BY <2>0, <1>c, <1>u, <1>o DEF Readers, SafeFor, Snap, Scanned, Here, Unmoved, Others, Checkpointing, ScanPcs, CopyPcs
    <2>4. BackfillOK'
      BY <2>0, <1>0, <1>c, <1>u DEF Readers, BackfillOK, Restarting, Unmoved, Others
    <2> QED BY <2>1, <2>2, <2>3, <2>4 DEF Readers
  <1> QED BY <1>c, <1>o, <1>u, <1>1, <1>2, <1>3, <1>4, <1>5, <1>6, OwnerStep DEF Mine

LEMMA PublishReads ==
  ASSUME TInv, TInv', RInv, NEW c \in Conns, Publish(c)
  PROVE  RInv'
  <1>0. pc[c] = "publish"
    BY DEF Publish, Step, At
  <1>s. Shaped /\ Local(c) /\ Conn(c) /\ Mine(c) /\ SharedOK
    BY DEF TInv, LInv, Shaped, Local, Types, RInv
  <1>h. HdrOK(LiveHdr) /\ HdrOK(wc[c].hdr) /\ salts \in Nat
    BY <1>s, HdrNumbers DEF SharedOK, Conn, ConnOf, TInv
  <1>u. /\ LiveHdr' = wc[c].hdr /\ wal' = wal /\ walDisk' = walDisk /\ setting' = setting /\ salts' = salts
        /\ shm'.nBackfill = shm.nBackfill /\ shm'.aReadMark = shm.aReadMark
    BY <1>s DEF Publish, SharedOK, LiveHdr, files, rest
  <1>b. Becomes(c, "idle", NoJob, wc[c], NoTx)
    BY <1>s, PublishDoes
  <1>c. /\ Unmoved(c) /\ pc'[c] = "idle" /\ job'[c] = NoJob /\ ~tx'[c].on /\ ~tx'[c].failed /\ wc'[c] = wc[c]
    BY <1>b DEF Becomes, Unmoved, NoTx
  <1>o. Excl(c, WAL_WRITE_LOCK) /\ tx[c].on /\ job[c].kind = "write" /\ ~tx[c].failed
    BY <1>0, <1>s DEF Excl, ExclOf, Local, ControlOf, Mine, Call, CallOf, RestartPcs, HdrPcs,
       Recovery, MarkPcs, FramePcs, CopyPcs, ScanPcs, CkptPcs
  <1>w. /\ wc[c].hdr.mxFrame >= LiveHdr.mxFrame /\ LiveHdr.mxFrame \in Nat /\ wc[c].hdr.mxFrame \in Nat
        /\ Unpublished(c) => LiveHdr.mxFrame = 0 /\ wc[c].hdr.salt = salts /\ LiveHdr.salt < salts
        /\ ~Unpublished(c) => wc[c].hdr.salt = LiveHdr.salt
    BY <1>0, <1>o, <1>s, <1>h DEF Mine, WriterOf, Unpublished, HdrOK
  <1>l. /\ wc[c].iReCksum = 0 /\ wc[c].hdr.mxFrame > 0 /\ wal.frames[wc[c].hdr.mxFrame].size > 0
        /\ Chain(wal, wc[c].hdr.mxFrame, wc[c].hdr.salt, 0, wc[c].hdr.sum)
    <2>1. Reached(c) = wc[c].hdr.mxFrame /\ CommitWritten(c)
      BY <1>0, <1>w DEF Reached, CommitWritten
    <2> QED BY <2>1, <1>o, <1>s DEF Mine, LogOf
  <1>1. SaltsDrawn'
    BY <1>u, <1>s DEF RInv, SaltsDrawn, Drawn, Mine, SaltOf
  <1>2. Mine(c)'
    BY <1>c, <1>l, <1>u, <1>s, <1>h DEF Mine, SaltOf, Drawn, WriterOf, LogOf, HeaderOf, NoJob, ZeroHdr,
       Call, CallOf, Marking, Checkpointing, FramePcs, ScanPcs, CopyPcs
  <1>4. \A d \in Others(c) : FreshFor(c, d)'
    BY <1>c DEF FreshFor, Unpublished
  <1>5. Published'
    BY <1>u, <1>l, <1>w DEF Published, Chain, ValidTo
  <1>6. ASSUME Spared PROVE Readers'
    <2>0. Readers
      BY <1>6 DEF RInv
    <2>o. ASSUME NEW d \in Others(c)
          PROVE  /\ ~tx[d].on /\ pc[d] # "restart2" /\ FreshFor(c, d)
                 /\ wc[d].hdr.salt \in Nat /\ job[d].h1.salt \in Nat /\ wc[d].hdr.mxFrame \in Nat
                 /\ job[d].h1.mxFrame \in Nat /\ LiveHdr.salt \in Nat
      BY <1>o, OthersOff, HdrNumbers DEF TInv, RInv, Others
    <2>1. ASSUME NEW d \in Conns PROVE SnapOf(d)'
      <3>1. SnapOf(d) /\ shm.nBackfill \in Nat /\ (wc[d].readLock > 0 => shm.aReadMark[wc[d].readLock] \in Nat)
        BY <2>0, <1>s, WalAssumption DEF Readers, SharedOK, TInv, LInv, Local, ControlOf
      <3>2. CASE d = c
        BY <3>1, <3>2, <1>c, <1>u, <1>o, <1>w DEF SnapOf, Snap
      <3>3. CASE d # c
        BY <3>1, <3>3, <1>c, <1>u, <2>o DEF SnapOf, Snap, Unmoved, Others
      <3> QED BY <3>2, <3>3
    <2>2. ASSUME NEW d \in Others(c) PROVE (Here(d)' => Here(d)) /\ (Below(wc[d].hdr) => Below(wc[d].hdr)')
                                           /\ (Below(job[d].h1) => Below(job[d].h1)')
                                           /\ wc'[d] = wc[d] /\ job'[d] = job[d] /\ pc'[d] = pc[d] /\ tx'[d] = tx[d]
      BY <2>o, <1>c, <1>u, <1>w DEF Here, Below, FreshFor, Unmoved
    <2>3. ASSUME NEW d \in Others(c) PROVE CkptOf(d)'
      <3>1. CkptOf(d)
        BY <2>0 DEF Readers, Others
      <3>2. pc[d] \in CopyPcs => wc[d].hdr.mxFrame > 0
        BY DEF TInv, Types, Conn, ConnOf, Others
      <3>3. pc[d] \in CopyPcs => Here(d)'
        BY <3>1, <3>2, <2>o, <2>2, <1>w, <1>u, <1>c DEF CkptOf, Here, Below, Checkpointing, Unmoved
      <3> QED BY <3>1, <3>3, <2>2 DEF CkptOf
    <2>4. ASSUME NEW d \in Others(c), NEW e \in Others(d) PROVE SafeFor(d, e)'
      <3>1. SafeFor(d, e)
        BY <2>0 DEF Readers, Others
      <3>2. Snap(e)' >= Snap(e) /\ Snap(e) \in Nat /\ Snap(e)' \in Nat
        BY <2>o, <1>c, <1>u, <1>w, <1>o DEF Snap, Unmoved, Others
      <3>3. job[d].safe \in Nat /\ job[d].mark \in Nat /\ wc'[e].readLock = wc[e].readLock
        BY <1>c DEF TInv, Types, Conn, ConnOf, Unmoved, Others
      <3> QED BY <3>1, <3>2, <3>3, <2>2 DEF SafeFor, Scanned
    <2>5. CkptOf(c)' /\ \A d \in Others(c) : SafeFor(c, d)'
      BY <1>c DEF CkptOf, NoJob, SafeFor, Checkpointing, ScanPcs, CopyPcs
    <2>6. BackfillOK'
      BY <2>0, <2>o, <1>0, <1>c, <1>u, <1>w, <1>s DEF Readers, BackfillOK, Restarting, SharedOK, Others
    <2> QED BY <2>1, <2>3, <2>4, <2>5, <2>6 DEF Readers, Others
  <1> QED BY <1>c, <1>o, <1>u, <1>h, <1>1, <1>2, <1>4, <1>5, <1>6, OwnerStep

LEMMA TruncateLogReads ==
  ASSUME TInv, TInv', RInv, NEW c \in Conns, TruncateLog(c)
  PROVE  RInv'
  <1>0. pc[c] = "trunclog"
    BY DEF TruncateLog, Step, At
  <1>s. Shaped /\ Local(c) /\ Conn(c) /\ Mine(c) /\ SharedOK
    BY DEF TInv, LInv, Shaped, Local, Types, RInv
  <1>u. /\ LiveHdr' = LiveHdr /\ shm' = shm /\ wal' = EmptyLog /\ walDisk' = walDisk /\ setting' = setting
        /\ salts' = salts /\ salts \in Nat
    BY HdrNumbers DEF TruncateLog, LiveHdr, rest, TInv
  <1>b. Becomes(c, "ckptend", job[c], wc[c], tx[c])
    BY <1>s, TruncateLogDoes
  <1>c. Unmoved(c) /\ pc'[c] = "ckptend" /\ job'[c] = job[c] /\ tx'[c] = tx[c] /\ wc'[c] = wc[c]
    BY <1>b DEF Becomes, Unmoved
  <1>o. Excl(c, WAL_WRITE_LOCK) /\ ~tx[c].on
    BY <1>0, <1>s DEF Excl, ExclOf, Local, ControlOf, RestartPcs, HdrPcs,
       Recovery, MarkPcs, FramePcs, CopyPcs, ScanPcs, CkptPcs
  <1>z. LiveHdr.mxFrame = 0
    BY <1>0 DEF TInv, LengthsOK, LengthOf
  <1>1. SaltsDrawn' /\ Published'
    BY <1>u, <1>z DEF RInv, SaltsDrawn, Drawn, Published, EmptyLog, NoSalt
  <1>2. Mine(c)'
    BY <1>0, <1>c, <1>o, <1>u, <1>s DEF Mine, SaltOf, Drawn, WriterOf, LogOf, HeaderOf, NoJob, ZeroHdr,
       Call, CallOf, Marking, Checkpointing, FramePcs, ScanPcs, CopyPcs
  <1>4. \A d \in Others(c) : FreshFor(c, d)'
    BY <1>c, <1>o DEF FreshFor, Unpublished
  <1>6. ASSUME Spared PROVE Readers'
    <2>0. Readers
      BY <1>6 DEF RInv
    <2>1. ASSUME NEW d \in Conns PROVE SnapOf(d)'
      BY <2>0, <1>c, <1>u DEF Readers, SnapOf, Snap, Unmoved, Others
    <2>2. ASSUME NEW d \in Conns PROVE CkptOf(d)'
      BY <2>0, <1>c, <1>u DEF Readers, CkptOf, Below, Here, Unmoved, Others, Checkpointing, ScanPcs, CopyPcs
    <2>3. ASSUME NEW d \in Conns, NEW e \in Others(d) PROVE SafeFor(d, e)'
      BY <2>0, <1>c, <1>u DEF Readers, SafeFor, Snap, Scanned, Here, Unmoved, Others, Checkpointing, ScanPcs, CopyPcs
    <2>4. BackfillOK'
      BY <2>0, <1>0, <1>c, <1>u DEF Readers, BackfillOK, Restarting, Unmoved, Others
    <2> QED BY <2>1, <2>2, <2>3, <2>4 DEF Readers
  <1> QED BY <1>c, <1>o, <1>u, <1>1, <1>2, <1>4, <1>6, OwnerStep

(* A recovery finds every commit of the log.                               *)
LEMMA RecoversAll ==
  ASSUME NEW w, LogOK(w)
  PROVE  /\ ValidTo(w, LastCommit(w))
         /\ \A n \in 1 .. Len(w.frames) :
               w.salt # NoSalt /\ ValidTo(w, n) /\ w.frames[n].size > 0 => n <= LastCommit(w)
  <1> DEFINE v == ValidFrames(w)
             L == Len(w.frames)
             T == {n \in 0 .. v : n > 0 => w.frames[n].size > 0}
  <1>1. /\ L \in Nat /\ v \in 0 .. L
        /\ \A m \in 1 .. v : ValidFrame(w, m)
        /\ w.salt # NoSalt /\ v < L => ~ValidFrame(w, v + 1)
    BY ValidFramesAre DEF LogOK, IsSeq
  <1>2. 0 \in T /\ T \subseteq 0 .. v /\ v \in Nat
    BY <1>1
  <1>3. LastCommit(w) \in T /\ \A m \in T : m <= LastCommit(w)
    <2>1. LastCommit(w) = Largest(T)
      BY DEF LastCommit
    <2> HIDE DEF T, v
    <2> QED BY <1>2, <2>1, LargestOf
  <1>4. ValidTo(w, LastCommit(w))
    <2> HIDE DEF v
    <2> QED BY <1>1, <1>3 DEF ValidTo
  <1>5. ASSUME NEW n \in 1 .. L, w.salt # NoSalt, ValidTo(w, n), w.frames[n].size > 0
        PROVE  n <= LastCommit(w)
    <2>1. n <= v
      <3> HIDE DEF v, L
      <3> QED BY <1>1, <1>5 DEF ValidTo
    <2>2. n \in T
      <3> HIDE DEF v
      <3> QED BY <1>5, <2>1
    <2> QED BY <1>3, <2>2
  <1> QED BY <1>4, <1>5

LEMMA RecoverHdr0Reads ==
  ASSUME TInv, TInv', RInv, NEW c \in Conns, RecoverHdr0(c)
  PROVE  RInv'
  <1>0. pc[c] = "recover2"
    BY DEF RecoverHdr0, Step, At
  <1>s. Shaped /\ Local(c) /\ Conn(c) /\ Mine(c) /\ SharedOK /\ LogOK(wal)
    BY DEF TInv, LInv, Shaped, Local, Types, FilesOK, RInv
  <1>h. HdrOK(LiveHdr) /\ HdrOK(wc[c].hdr) /\ salts \in Nat
    BY <1>s, HdrNumbers DEF SharedOK, Conn, ConnOf, TInv
  <1>r. /\ wc[c].hdr = RecoveredHdr(wal) /\ wc[c].hdr.mxFrame = LastCommit(wal)
        /\ LastCommit(wal) > 0 => /\ wc[c].hdr.salt = wal.salt /\ wal.salt # NoSalt
                                  /\ wal.frames[LastCommit(wal)].size > 0
                                  /\ wc[c].hdr.sum = SumUpTo(wal, LastCommit(wal))
    BY <1>0, <1>s, RecoveredOK, RecoveredFacts DEF Mine, HeaderOf
  <1>u. /\ LiveHdr' = wc[c].hdr /\ wal' = wal /\ walDisk' = walDisk /\ setting' = setting /\ salts' = salts
        /\ shm'.nBackfill = shm.nBackfill /\ shm'.aReadMark = shm.aReadMark
    BY <1>s DEF RecoverHdr0, SharedOK, LiveHdr, files, rest
  <1>b. Becomes(c, "recover3", job[c], wc[c], tx[c])
    BY <1>s, RecoverHdr0Does
  <1>c. Unmoved(c) /\ pc'[c] = "recover3" /\ job'[c] = job[c] /\ tx'[c] = tx[c] /\ wc'[c] = wc[c]
    BY <1>b DEF Becomes, Unmoved
  <1>o. Excl(c, WAL_WRITE_LOCK) /\ Excl(c, WAL_CKPT_LOCK) /\ ~tx[c].on /\ wc[c].readLock = -1
    BY <1>0, <1>s DEF Excl, ExclOf, Local, ControlOf, RestartPcs, HdrPcs,
       Recovery, MarkPcs, FramePcs, CopyPcs, ScanPcs, CkptPcs
  <1>1. SaltsDrawn'
    BY <1>u, <1>s DEF RInv, SaltsDrawn, Drawn, Mine, SaltOf
  <1>2. Mine(c)'
    BY <1>0, <1>c, <1>o, <1>u, <1>s DEF Mine, SaltOf, Drawn, WriterOf, LogOf, HeaderOf, NoJob, ZeroHdr,
       Call, CallOf, Marking, Checkpointing, FramePcs, ScanPcs, CopyPcs
  <1>4. \A d \in Others(c) : FreshFor(c, d)'
    BY <1>c, <1>o DEF FreshFor, Unpublished
  <1>5. Published'
    BY <1>u, <1>r, <1>s, RecoversAll DEF Published
  <1>6. ASSUME Spared PROVE Readers'
    <2>0. Readers
      BY <1>6 DEF RInv
    <2>o. ASSUME NEW d \in Others(c)
          PROVE  /\ ~tx[d].on /\ pc[d] # "restart2"
                 /\ (job[d].kind = "ckpt" => pc[d] = "closewal") /\ pc[d] # "ckpt" /\ ~Checkpointing(pc[d])
      BY <1>o, OthersOff, OneCheckpointer DEF TInv
    <2>1. ASSUME NEW d \in Conns PROVE SnapOf(d)'
      BY <2>0, <2>o, <1>c, <1>u, <1>o DEF Readers, SnapOf, Snap, Unmoved, Others
    <2>2. ASSUME NEW d \in Conns PROVE CkptOf(d)'
      BY <2>o, <1>c DEF CkptOf, Unmoved, Others, Checkpointing, ScanPcs, CopyPcs
    <2>3. ASSUME NEW d \in Conns, NEW e \in Others(d) PROVE SafeFor(d, e)'
      BY <2>o, <1>c DEF SafeFor, Unmoved, Others, Checkpointing, ScanPcs, CopyPcs
    <2>4. BackfillOK'
      <3>1. shm.nBackfill <= LiveHdr.mxFrame
        BY <2>0, <2>o, <1>0 DEF Readers, BackfillOK, Restarting, Others
      <3>2. LiveHdr.mxFrame <= LastCommit(wal)
        <4>1. LiveHdr.mxFrame \in Nat /\ LastCommit(wal) \in Nat /\ LiveHdr.mxFrame <= Len(wal.frames) /\ Len(wal.frames) \in Nat
          <5>1. LiveHdr.mxFrame \in Nat /\ LiveHdr.mxFrame <= Len(wal.frames)
            BY <1>h DEF HdrOK, TInv, LengthsOK
          <5>2. LastCommit(wal) \in 0 .. Len(wal.frames)
            BY <1>s, RecoveredFacts
          <5>3. Len(wal.frames) \in Nat
            BY <1>s DEF LogOK, IsSeq
          <5> QED BY <5>1, <5>2, <5>3
        <4>2. CASE LiveHdr.mxFrame > 0
          BY <4>1, <4>2, <1>s, RecoversAll DEF RInv, Published
        <4> QED BY <4>1, <4>2
      <3> QED BY <3>1, <3>2, <1>u, <1>r, <1>h, <1>s DEF BackfillOK, HdrOK, SharedOK
    <2> QED BY <2>1, <2>2, <2>3, <2>4 DEF Readers
  <1> QED BY <1>c, <1>o, <1>u, <1>h, <1>1, <1>2, <1>4, <1>5, <1>6, OwnerStep

(* The log with other frames. *)
Framed(fr) == [wal EXCEPT !.frames = fr]

SameLog(w, v) == v.salt = w.salt /\ v.nCkpt = w.nCkpt

LEMMA SameFrames ==
  ASSUME NEW w, NEW v, SameLog(w, v), NEW m \in Nat, \A n \in 1 .. m : v.frames[n] = w.frames[n],
         NEW n \in 1 .. m
  PROVE  ValidFrame(v, n) <=> ValidFrame(w, n)
  <1>1. n - 1 # 0 => n - 1 \in 1 .. m
    OBVIOUS
  <1>2. SumUpTo(v, n - 1) = SumUpTo(w, n - 1)
    BY <1>1 DEF SumUpTo, SameLog
  <1> QED BY <1>2 DEF ValidFrame, SameLog

(* A frame is appended, one is overwritten, and the checksums made good.   *)
LEMMA ChainGrows ==
  ASSUME NEW w, NEW v, NEW m \in Nat, NEW salt, NEW re \in Nat, NEW sum, Chain(w, m, salt, re, sum),
         SameLog(w, v), \A n \in 1 .. m : v.frames[n] = w.frames[n],
         NEW pg, NEW val, NEW size, v.frames[m + 1] = Chained(sum, pg, val, size, salt),
         re = 0 \/ re <= m
  PROVE  Chain(v, m + 1, salt, re, v.frames[m + 1].sum)
  <1>1. ASSUME NEW n \in 1 .. m, re = 0 \/ n < re PROVE ValidFrame(v, n)
    BY <1>1, SameFrames DEF Chain
  <1>2. re = 0 => ValidFrame(v, m + 1)
    <2>1. re = 0 => sum = SumUpTo(v, m)
      BY DEF Chain, SumUpTo, SameLog
    <2>2. Ident(v.frames[m + 1]) = <<pg, val, size>> /\ v.frames[m + 1].salt = salt
          /\ v.frames[m + 1].sum = Append(sum, <<pg, val, size>>)
      BY DEF Ident, Chained
    <2>3. m + 1 - 1 = m
      OBVIOUS
    <2> QED BY <2>1, <2>2, <2>3 DEF ValidFrame, Chain, SameLog
  <1>3. \A n \in 1 .. m + 1 : v.frames[n].salt = salt
    BY DEF Chain, Chained
  <1>4. re = 0 => v.frames[m + 1].sum = SumUpTo(v, m + 1)
    BY DEF SumUpTo
  <1>5. ASSUME NEW n \in 1 .. m + 1, re = 0 \/ n < re PROVE ValidFrame(v, n)
    <2>1. CASE n = m + 1
      BY <1>2, <1>5, <2>1
    <2>2. CASE n # m + 1
      BY <1>1, <1>5, <2>2
    <2> QED BY <2>1, <2>2
  <1> QED BY <1>3, <1>4, <1>5 DEF Chain, SameLog

LEMMA ChainOverwritten ==
  ASSUME NEW w, NEW v, NEW m \in Nat, NEW salt, NEW re \in Nat, NEW sum, Chain(w, m, salt, re, sum),
         SameLog(w, v), NEW f \in 1 .. m, \A n \in 1 .. m : n # f => v.frames[n] = w.frames[n],
         v.frames[f].salt = w.frames[f].salt,
         NEW r \in 1 .. m, r <= f, re = 0 \/ r <= re, NEW other
  PROVE  Chain(v, m, salt, r, other)
  <1>1. ASSUME NEW n \in 1 .. m, n < r PROVE ValidFrame(v, n)
    <2>1. \A k \in 1 .. r - 1 : v.frames[k] = w.frames[k]
      OBVIOUS
    <2>2. ValidFrame(w, n) /\ n \in 1 .. r - 1 /\ r - 1 \in Nat
      BY <1>1 DEF Chain
    <2> QED BY <2>1, <2>2, SameFrames
  <1>2. \A n \in 1 .. m : v.frames[n].salt = salt
    BY DEF Chain
  <1> QED BY <1>1, <1>2 DEF Chain, SameLog

LEMMA ChainMended ==
  ASSUME NEW w, NEW v, NEW m \in Nat, NEW salt, NEW re \in 1 .. m, NEW sum, Chain(w, m, salt, re, sum),
         SameLog(w, v), \A n \in 1 .. m : n < re => v.frames[n] = w.frames[n],
         NEW sums,
         \A n \in 0 .. m : sums[n] = IF n < re THEN SumUpTo(w, n) ELSE Append(sums[n - 1], Ident(w.frames[n])),
         \A n \in re .. m : /\ v.frames[n].salt = w.frames[n].salt /\ v.frames[n].sum = sums[n]
                            /\ Ident(v.frames[n]) = Ident(w.frames[n])
  PROVE  Chain(v, m, salt, 0, sums[m])
  <1>1. ASSUME NEW n \in 0 .. m PROVE SumUpTo(v, n) = sums[n]
    <2>1. CASE n < re
      BY <2>1 DEF SumUpTo, SameLog
    <2>2. CASE ~(n < re)
      BY <2>2 DEF SumUpTo
    <2> QED BY <2>1, <2>2
  <1>2. \A n \in 1 .. m : v.frames[n].salt = salt
    BY DEF Chain
  <1>3. ASSUME NEW n \in 1 .. m PROVE ValidFrame(v, n)
    <2>1. CASE n < re
      <3>1. ValidFrame(w, n) /\ n \in 1 .. re - 1 /\ re - 1 \in Nat
        BY <2>1 DEF Chain
      <3>2. \A k \in 1 .. re - 1 : v.frames[k] = w.frames[k]
        OBVIOUS
      <3> QED BY <3>1, <3>2, SameFrames
    <2>2. CASE ~(n < re)
      <3>1. SumUpTo(v, n - 1) = sums[n - 1]
        BY <1>1
      <3>2. v.frames[n].sum = Append(sums[n - 1], Ident(v.frames[n]))
        <4>1. n \in re .. m /\ n \in 0 .. m
          BY <2>2
        <4>2. sums[n] = Append(sums[n - 1], Ident(w.frames[n]))
          BY <2>2, <4>1
        <4>3. v.frames[n].sum = sums[n] /\ Ident(v.frames[n]) = Ident(w.frames[n])
          BY <4>1
        <4> QED BY <4>2, <4>3
      <3>3. v.salt = salt
        BY DEF Chain, SameLog
      <3> QED BY <3>1, <3>2, <3>3, <1>2 DEF ValidFrame
    <2> QED BY <2>1, <2>2
  <1>4. v.salt # NoSalt /\ v.salt = salt
    BY DEF Chain, SameLog
  <1>5. sums[m] = SumUpTo(v, m)
    BY <1>1
  <1> QED BY <1>2, <1>3, <1>4, <1>5 DEF Chain

LEMMA FoundUpTo ==
  ASSUME NEW c, NEW p, wc[c].minFrame \in Nat, wc[c].hdr.mxFrame \in Nat
  PROVE  walFindFrame(c, p) \in 0 .. wc[c].hdr.mxFrame
  <1> DEFINE T == {0} \cup {n \in wc[c].minFrame .. wc[c].hdr.mxFrame : shm.aPgno[n] = p}
  <1>1. T \subseteq 0 .. wc[c].hdr.mxFrame /\ T # {}
    OBVIOUS
  <1>2. Largest(T) \in T
    <2> HIDE DEF T
    <2> QED BY <1>1, LargestOf
  <1>3. Largest(T) \in 0 .. wc[c].hdr.mxFrame
    BY <1>1, <1>2
  <1> QED BY <1>3 DEF walFindFrame, LastOf

-----------------------------------------------------------------------------
(* The frames that a writer has written so far: those of the shared header *)
(* are as they were.                                                       *)
Extends(c, s) ==
    /\ \A n \in 1 .. LiveHdr.mxFrame : s.frames[n] = wal.frames[n]
    /\ Chain(Framed(s.frames), wc[c].hdr.mxFrame + Len(s.new), wc[c].hdr.salt, s.re, s.sum)
    /\ s.re = 0 \/ s.re \in LiveHdr.mxFrame + 1 .. wc[c].hdr.mxFrame + Len(s.new)

Appending(c) ==
    /\ FilesOK /\ Conn(c) /\ tx[c].on /\ LiveHdr.mxFrame \in Nat
    /\ LiveHdr.mxFrame <= wc[c].hdr.mxFrame /\ wc[c].hdr.mxFrame <= Len(wal.frames)
    /\ job[c].iFirst \in {0, LiveHdr.mxFrame + 1}

Committed(c, s) ==
    wc[c].hdr.mxFrame + Len(s.new) > 0 /\ s.frames[wc[c].hdr.mxFrame + Len(s.new)].size > 0

LEMMA FramedIs ==
  ASSUME LogOK(wal), NEW f
  PROVE  Framed(f).frames = f /\ Framed(f).salt = wal.salt /\ Framed(f).nCkpt = wal.nCkpt
  BY DEF Framed, LogOK

LEMMA PageWrittenExtends ==
  ASSUME NEW c \in Conns, Appending(c), NEW k \in 1 .. Len(job[c].list),
         NEW s, Grown(c, s), Extends(c, s)
  PROVE  /\ Extends(c, PageWritten(c, k, s))
         /\ job[c].commit /\ k = Len(job[c].list) => Committed(c, PageWritten(c, k, s))
  <1> DEFINE p == job[c].list[k]
             v == IF p \in DOMAIN tx[c].dirty THEN tx[c].dirty[p] ELSE View(c)[p]
             f == walFindFrame(c, p)
             size == IF job[c].commit /\ k = Len(job[c].list) THEN tx[c].size ELSE 0
             x == Chained(s.sum, p, v, size, wc[c].hdr.salt)
             M == wc[c].hdr.mxFrame + Len(s.new)
             L == LiveHdr.mxFrame
             t == PageWritten(c, k, s)
  <1>1. /\ L \in Nat /\ wc[c].hdr.mxFrame \in Nat /\ L <= wc[c].hdr.mxFrame
        /\ job[c].iFirst \in {0, L + 1} /\ LogOK(wal)
        /\ tx[c].size \in Pages /\ f \in 0 .. wc[c].hdr.mxFrame
    <2>1. wc[c].hdr.mxFrame \in Nat /\ wc[c].minFrame \in Nat /\ tx[c].size \in Pages
      BY DEF Appending, Conn, ConnOf, HdrOK
    <2> QED BY <2>1, FoundUpTo DEF Appending, FilesOK
  <1>2. /\ DOMAIN s = {"frames", "sum", "re", "new"} /\ IsSeq(s.frames) /\ Len(s.frames) \in Nat
        /\ \A n \in 1 .. Len(s.frames) : FrameOK(s.frames[n])
        /\ s.new \in Seq(Pages) /\ s.re \in Nat /\ Len(s.new) \in Nat
        /\ M <= Len(s.frames) /\ M \in Nat /\ wc[c].hdr.mxFrame <= M
    BY <1>1 DEF Grown, IsSeq
  <1>3. CASE Overwrites(c, k)
    <2> DEFINE fr == [s.frames EXCEPT ![f].val = v]
               r == IF s.re = 0 \/ f < s.re THEN f ELSE s.re
    <2>1. t = [s EXCEPT !.frames[f].val = v, !.re = IF @ = 0 \/ f < @ THEN f ELSE @]
      BY <1>3 DEF PageWritten
    <2>2. t.new = s.new /\ t.re = r /\ t.frames = fr /\ t.sum = s.sum
      <3> HIDE DEF t, f, v
      <3> QED BY <1>2, <2>1
    <2>3. f \in L + 1 .. M /\ f \in 1 .. M
      <3> HIDE DEF f, M, L
      <3> QED BY <1>1, <1>2, <1>3 DEF Overwrites, L, f
    <2>4. ~(job[c].commit /\ k = Len(job[c].list))
      BY <1>3 DEF Overwrites
    <2>5. ASSUME NEW n \in 1 .. M
          PROVE  /\ n # f => fr[n] = s.frames[n]
                 /\ fr[f].salt = s.frames[f].salt
      <3>1. n \in DOMAIN s.frames /\ f \in DOMAIN s.frames /\ FrameOK(s.frames[f])
        BY <1>2, <2>3 DEF IsSeq
      <3> HIDE DEF f, v, M
      <3> QED BY <3>1 DEF FrameOK
    <2>6. r \in L + 1 .. M /\ r \in 1 .. M /\ r <= f /\ (s.re = 0 \/ r <= s.re)
      <3> HIDE DEF f
      <3> QED BY <1>1, <1>2, <2>3 DEF Extends
    <2> HIDE DEF fr, r, f, v, t, M
    <2>7. Chain(Framed(fr), M, wc[c].hdr.salt, r, s.sum)
      <3>1. Chain(Framed(s.frames), M, wc[c].hdr.salt, s.re, s.sum)
        BY DEF Extends, M
      <3>2. SameLog(Framed(s.frames), Framed(fr)) /\ Framed(fr).frames = fr /\ Framed(s.frames).frames = s.frames
        BY <1>1, FramedIs DEF SameLog
      <3> QED BY <1>2, <2>3, <2>5, <2>6, <3>1, <3>2, ChainOverwritten
    <2>8. \A n \in 1 .. L : fr[n] = wal.frames[n]
      BY <1>1, <1>2, <2>3, <2>5 DEF Extends
    <2>9. Extends(c, t)
      BY <2>2, <2>6, <2>7, <2>8 DEF Extends, M
    <2> QED BY <2>4, <2>9 DEF t
  <1>4. CASE ~Overwrites(c, k)
    <2> DEFINE fr == Put(s.frames, M + 1, x)
    <2>1. t = [s EXCEPT !.frames = fr, !.sum = x.sum, !.new = Append(@, p)]
      BY <1>4 DEF PageWritten
    <2>2. t.new = Append(s.new, p) /\ t.re = s.re /\ t.frames = fr /\ t.sum = x.sum
      <3> HIDE DEF t, fr, x, p
      <3> QED BY <1>2, <2>1
    <2>3. Len(t.new) = Len(s.new) + 1 /\ wc[c].hdr.mxFrame + Len(t.new) = M + 1
      <3> HIDE DEF t, fr, x
      <3>1. s.new \in Seq(Pages) /\ p \in Pages
        BY <1>2 DEF Appending, Conn, ConnOf
      <3> HIDE DEF p
      <3>2. Len(Append(s.new, p)) = Len(s.new) + 1
        BY <3>1, AppendProperties
      <3>3. t.new = Append(s.new, p)
        BY <2>2
      <3>4. Len(t.new) = Len(s.new) + 1
        BY <3>2, <3>3
      <3> HIDE DEF M
      <3>5. M = wc[c].hdr.mxFrame + Len(s.new) /\ Len(s.new) \in Nat /\ wc[c].hdr.mxFrame \in Nat
        BY <1>1, <1>2 DEF M
      <3> QED BY <3>4, <3>5
    <2>4. fr[M + 1] = x /\ \A n \in 1 .. M : fr[n] = s.frames[n]
      <3>1. M + 1 \in 1 .. Len(s.frames) + 1
        BY <1>2
      <3> HIDE DEF x, M
      <3>2. /\ M + 1 <= Len(fr)
            /\ \A m \in 1 .. Len(fr) : fr[m] = IF m = M + 1 THEN x ELSE s.frames[m]
            /\ IsSeq(fr)
        BY <1>2, <3>1, PutLast
      <3> HIDE DEF fr
      <3> QED BY <1>2, <3>2 DEF IsSeq
    <2> HIDE DEF fr, t, M
    <2>5. Chain(Framed(fr), M + 1, wc[c].hdr.salt, s.re, x.sum)
      <3>1. Chain(Framed(s.frames), M, wc[c].hdr.salt, s.re, s.sum)
        BY DEF Extends, M
      <3>2. SameLog(Framed(s.frames), Framed(fr)) /\ Framed(fr).frames = fr /\ Framed(s.frames).frames = s.frames
        BY <1>1, FramedIs DEF SameLog
      <3>3. s.re = 0 \/ s.re <= M
        BY <1>1, <1>2 DEF Extends, M
      <3> HIDE DEF v, p, size
      <3> QED BY <1>2, <2>4, <3>1, <3>2, <3>3, ChainGrows
    <2>6. x.size = size
      BY DEF Chained
    <2>7. job[c].commit /\ k = Len(job[c].list) => size > 0
      BY <1>1, WalAssumption DEF Pages
    <2> HIDE DEF x, size
    <2>8. job[c].commit /\ k = Len(job[c].list) => Committed(c, t)
      BY <1>2, <2>2, <2>3, <2>4, <2>6, <2>7 DEF Committed
    <2>9. Extends(c, t)
      <3>1. \A n \in 1 .. L : fr[n] = wal.frames[n]
        BY <1>1, <1>2, <2>4 DEF Extends
      <3>2. s.re = 0 \/ s.re \in L + 1 .. M + 1
        BY <1>1, <1>2 DEF Extends, M
      <3> QED BY <2>2, <2>3, <2>5, <3>1, <3>2 DEF Extends
    <2> QED BY <2>8, <2>9 DEF t
  <1> QED BY <1>3, <1>4

LEMMA ChainSame ==
  ASSUME NEW w, NEW v, NEW m \in Nat, NEW salt, NEW re, NEW sum, Chain(w, m, salt, re, sum),
         SameLog(w, v), \A n \in 1 .. m : v.frames[n] = w.frames[n]
  PROVE  Chain(v, m, salt, re, sum)
  <1>1. ASSUME NEW n \in 1 .. m, re = 0 \/ n < re PROVE ValidFrame(v, n)
    BY <1>1, SameFrames DEF Chain
  <1>2. SumUpTo(v, m) = SumUpTo(w, m)
    BY DEF SumUpTo, SameLog
  <1> QED BY <1>1, <1>2 DEF Chain, SameLog

LEMMA UnwrittenExtends ==
  ASSUME NEW c \in Conns, Appending(c), LogOf(c), ~tx[c].failed, InFrames(c)
  PROVE  Extends(c, Unwritten(c))
  <1>1. /\ Unwritten(c).frames = wal.frames /\ Unwritten(c).re = wc[c].iReCksum
        /\ Unwritten(c).sum = wc[c].hdr.sum /\ Unwritten(c).new = <<>>
    BY DEF Unwritten
  <1>2. wc[c].hdr.mxFrame \in Nat /\ LogOK(wal)
    BY DEF Appending, FilesOK, Conn, ConnOf, HdrOK
  <1>3. Len(Unwritten(c).new) = 0 /\ wc[c].hdr.mxFrame + Len(Unwritten(c).new) = wc[c].hdr.mxFrame
    BY <1>1, <1>2
  <1>4. SameLog(wal, Framed(wal.frames)) /\ Framed(wal.frames).frames = wal.frames
    BY <1>2, FramedIs DEF SameLog
  <1>5. Reached(c) = wc[c].hdr.mxFrame /\ (pc[c] \in {"synchdr", "frames"} \/ Reached(c) > 0)
    BY <1>2 DEF Reached, InFrames, At
  <1>6. /\ Chain(wal, wc[c].hdr.mxFrame, wc[c].hdr.salt, wc[c].iReCksum, wc[c].hdr.sum)
        /\ wc[c].iReCksum = 0 \/ wc[c].iReCksum \in LiveHdr.mxFrame + 1 .. wc[c].hdr.mxFrame
    BY <1>5 DEF LogOf, Appending
  <1>7. Chain(Framed(wal.frames), wc[c].hdr.mxFrame, wc[c].hdr.salt, wc[c].iReCksum, wc[c].hdr.sum)
    BY <1>2, <1>4, <1>6, ChainSame
  <1> QED BY <1>1, <1>3, <1>6, <1>7 DEF Extends

LEMMA WrittenExtends ==
  ASSUME NEW c \in Conns, Appending(c), LogOf(c), ~tx[c].failed, InFrames(c)
  PROVE  \A k \in 0 .. Len(job[c].list) :
            /\ Extends(c, Written(c)[k])
            /\ job[c].commit /\ k > 0 /\ k = Len(job[c].list) => Committed(c, Written(c)[k])
  <1> DEFINE N == Len(job[c].list)
             T == {k \in 0 .. N : ~Extends(c, Written(c)[k])}
  <1>0. N \in Nat /\ T \subseteq Nat /\ T \subseteq 0 .. N /\ job[c].list \in Seq(Pages)
    BY DEF Appending, Conn, ConnOf
  <1>g. \A k \in 0 .. N : Grown(c, Written(c)[k])
    BY WrittenGrows DEF Appending
  <1>s. ASSUME NEW k \in 1 .. N, Extends(c, Written(c)[k - 1])
        PROVE  /\ Extends(c, Written(c)[k])
               /\ job[c].commit /\ k = N => Committed(c, Written(c)[k])
    <2>1. k - 1 \in 0 .. N /\ Written(c)[k] = PageWritten(c, k, Written(c)[k - 1])
      BY <1>0, WrittenIs
    <2>2. Grown(c, Written(c)[k - 1])
      BY <1>g, <2>1
    <2> QED BY <1>s, <2>1, <2>2, PageWrittenExtends
  <1>1. T = {}
    <2>1. SUFFICES ASSUME T # {} PROVE FALSE
      OBVIOUS
    <2>2. PICK k \in T : \A y \in T : k <= y
      <3> HIDE DEF T
      <3> QED BY <1>0, <2>1, LeastOf
    <2>3. ~Extends(c, Written(c)[k]) /\ k \in 0 .. N
      BY <2>2
    <2>4. k # 0
      BY <1>0, <2>3, WrittenIs, UnwrittenExtends
    <2>5. k \in 1 .. N /\ k - 1 \in 0 .. N /\ k - 1 \notin T
      <3> HIDE DEF T, N
      <3> QED BY <1>0, <2>2, <2>3, <2>4
    <2>6. Extends(c, Written(c)[k - 1])
      BY <2>5
    <2> QED BY <1>s, <2>3, <2>5, <2>6
  <1>2. \A k \in 0 .. N : Extends(c, Written(c)[k])
    BY <1>1
  <1>3. ASSUME NEW k \in 0 .. N, job[c].commit, k > 0, k = N PROVE Committed(c, Written(c)[k])
    <2>1. k \in 1 .. N /\ k - 1 \in 0 .. N
      BY <1>0, <1>3
    <2> QED BY <1>2, <1>3, <1>s, <2>1
  <1> QED BY <1>2, <1>3

(* walRewriteChecksums: the recursion has a value, and goes as it says.    *)
LEMMA NewSumsExists ==
  ASSUME NEW s, s.re \in Nat \ {0}, NEW N \in Nat
  PROVE  \E sum : sum = [n \in 0 .. N |-> IF n < s.re THEN SumUpTo([wal EXCEPT !.frames = s.frames], n)
                                         ELSE Append(sum[n - 1], Ident(s.frames[n]))]
  <1> DEFINE first(n) == SumUpTo([wal EXCEPT !.frames = s.frames], n)
             id(n) == Ident(s.frames[n])
             Goes(at, m) == at = [n \in 0 .. m |-> IF n < s.re THEN first(n) ELSE Append(at[n - 1], id(n))]
             T == {m \in 0 .. N : ~\E at : Goes(at, m)}
  <1>n. N \in 0 .. N
    OBVIOUS
  <1> SUFFICES N \notin T
    BY <1>n, Zenon DEF first, id
  <1> HIDE DEF first, id, Goes
  <1>1. SUFFICES ASSUME T # {} PROVE FALSE
    OBVIOUS
  <1>0. T \subseteq 0 .. N /\ T \subseteq Nat
    OBVIOUS
  <1>2. PICK m \in T : \A y \in T : m <= y
    <2> HIDE DEF T
    <2> QED BY <1>0, <1>1, LeastOf
  <1>3. CASE m = 0
    <2> DEFINE at == [n \in 0 .. 0 |-> first(n)]
    <2>1. Goes(at, 0)
      BY DEF Goes
    <2> HIDE DEF at
    <2> QED BY <1>3, <2>1
  <1>4. CASE m # 0
    <2>1. m - 1 \in 0 .. N /\ m - 1 \notin T
      <3> HIDE DEF T
      <3> QED BY <1>0, <1>2, <1>4
    <2>2. PICK g : Goes(g, m - 1)
      BY <2>1
    <2> DEFINE h == [n \in 0 .. m |-> IF n = m THEN IF m < s.re THEN first(m) ELSE Append(g[m - 1], id(m))
                                      ELSE g[n]]
    <2>3. ASSUME NEW n \in 0 .. m
          PROVE  h[n] = IF n < s.re THEN first(n) ELSE Append(h[n - 1], id(n))
      <3>1. CASE n = m
        BY <1>2, <1>4, <3>1
      <3>2. CASE n # m
        <4>1. n \in 0 .. m - 1 /\ h[n] = g[n] /\ (n # 0 => h[n - 1] = g[n - 1]) /\ (n = 0 => n < s.re)
          BY <1>2, <3>2
        <4>2. g[n] = IF n < s.re THEN first(n) ELSE Append(g[n - 1], id(n))
          BY <2>2, <4>1 DEF Goes
        <4> QED BY <4>1, <4>2
      <3> QED BY <3>1, <3>2
    <2>4. h = [n \in 0 .. m |-> h[n]]
      OBVIOUS
    <2>5. Goes(h, m)
      <3> HIDE DEF h
      <3> QED BY <2>3, <2>4 DEF Goes
    <2> HIDE DEF h
    <2> QED BY <1>2, <2>5
  <1> QED BY <1>3, <1>4

LEMMA NewSumsAre ==
  ASSUME NEW c, NEW s, s.re \in Nat \ {0}, LastWritten(c, s) \in Nat, NEW n \in 0 .. LastWritten(c, s)
  PROVE  NewSums(c, s)[n] = IF n < s.re THEN SumUpTo(Framed(s.frames), n)
                            ELSE Append(NewSums(c, s)[n - 1], Ident(s.frames[n]))
  <1> DEFINE N == LastWritten(c, s)
             at == CHOOSE at : at = [m \in 0 .. N |->
                       IF m < s.re THEN SumUpTo([wal EXCEPT !.frames = s.frames], m)
                       ELSE Append(at[m - 1], Ident(s.frames[m]))]
  <1>1. at = NewSums(c, s)
    BY DEF NewSums
  <1>2. at = [m \in 0 .. N |-> IF m < s.re THEN SumUpTo([wal EXCEPT !.frames = s.frames], m)
                               ELSE Append(at[m - 1], Ident(s.frames[m]))]
    <2>1. \E f : f = [m \in 0 .. N |-> IF m < s.re THEN SumUpTo([wal EXCEPT !.frames = s.frames], m)
                                      ELSE Append(f[m - 1], Ident(s.frames[m]))]
      BY NewSumsExists, ZenonT(60)
    <2> QED BY <2>1, ZenonT(60)
  <1> HIDE DEF at
  <1>3. at[n] = IF n < s.re THEN SumUpTo([wal EXCEPT !.frames = s.frames], n)
                ELSE Append(at[n - 1], Ident(s.frames[n]))
    <2> HIDE DEF N
    <2>1. n \in 0 .. N
      BY DEF N
    <2> QED BY <1>2, <2>1
  <1> QED BY <1>1, <1>3 DEF Framed

(* What walFrames() leaves in the log: the frames of the shared header as  *)
(* they were, and with a commit all of the checksums right.                *)
LEMMA AllWrittenExtends ==
  ASSUME NEW c \in Conns, Appending(c), LogOf(c), ~tx[c].failed, InFrames(c), job[c].list # <<>>
  PROVE  /\ Extends(c, AllWritten(c))
         /\ job[c].commit => AllWritten(c).re = 0 /\ Committed(c, AllWritten(c))
  <1> DEFINE s == Written(c)[Len(job[c].list)]
             M == LastWritten(c, s)
             sum == NewSums(c, s)
  <1>1. /\ Extends(c, s) /\ Grown(c, s)
        /\ job[c].commit => Committed(c, s)
    <2>1. job[c].list \in Seq(Pages)
      BY DEF Appending, Conn, ConnOf
    <2>2. Len(job[c].list) \in 0 .. Len(job[c].list) /\ Len(job[c].list) > 0
      BY <2>1, EmptySeq, LenProperties
    <2> QED BY <2>2, WrittenExtends, WrittenGrows DEF Appending
  <1> HIDE DEF s
  <1>2. CASE ~job[c].commit \/ s.re = 0
    BY <1>1, <1>2 DEF AllWritten, Rechecked, s
  <1>3. CASE ~(~job[c].commit \/ s.re = 0)
    <2> DEFINE fr == [n \in DOMAIN s.frames |->
                         IF n \in s.re .. M THEN [s.frames[n] EXCEPT !.sum = sum[n]] ELSE s.frames[n]]
               t == [s EXCEPT !.re = 0, !.sum = sum[M], !.frames = fr]
    <2>1. AllWritten(c) = t
      BY <1>3 DEF AllWritten, Rechecked, s
    <2> HIDE DEF sum
    <2>2. t.new = s.new /\ t.re = 0 /\ t.frames = fr /\ t.sum = sum[M]
      <3> HIDE DEF fr, M
      <3> QED BY <1>1 DEF Grown
    <2>3. /\ LiveHdr.mxFrame \in Nat /\ wc[c].hdr.mxFrame \in Nat /\ M \in Nat /\ LogOK(wal)
          /\ M = wc[c].hdr.mxFrame + Len(s.new) /\ LiveHdr.mxFrame <= M /\ M <= Len(s.frames)
          /\ s.re \in LiveHdr.mxFrame + 1 .. M /\ s.re \in 1 .. M /\ s.re \in Nat \ {0}
      <3>1. /\ LiveHdr.mxFrame \in Nat /\ wc[c].hdr.mxFrame \in Nat /\ LogOK(wal)
            /\ LiveHdr.mxFrame <= wc[c].hdr.mxFrame
        BY DEF Appending, FilesOK, Conn, ConnOf, HdrOK
      <3>2. Len(s.new) \in Nat /\ wc[c].hdr.mxFrame + Len(s.new) <= Len(s.frames)
        BY <1>1 DEF Grown
      <3>3. s.re \in LiveHdr.mxFrame + 1 .. wc[c].hdr.mxFrame + Len(s.new)
        BY <1>1, <1>3 DEF Extends
      <3> QED BY <3>1, <3>2, <3>3 DEF LastWritten
    <2>4. ASSUME NEW n \in 1 .. M
          PROVE  /\ n < s.re => fr[n] = s.frames[n]
                 /\ n >= s.re => /\ fr[n].salt = s.frames[n].salt /\ fr[n].sum = sum[n]
                                 /\ Ident(fr[n]) = Ident(s.frames[n]) /\ fr[n].size = s.frames[n].size
      <3>1. n \in DOMAIN s.frames /\ FrameOK(s.frames[n])
        BY <1>1, <2>3 DEF Grown, IsSeq
      <3>2. fr[n] = IF n \in s.re .. M THEN [s.frames[n] EXCEPT !.sum = sum[n]] ELSE s.frames[n]
        BY <3>1
      <3> HIDE DEF fr, M
      <3> QED BY <2>3, <3>1, <3>2 DEF FrameOK, Ident
    <2> HIDE DEF fr, t, M
    <2>5. \A n \in 0 .. M : sum[n] = IF n < s.re THEN SumUpTo(Framed(s.frames), n)
                                     ELSE Append(sum[n - 1], Ident(Framed(s.frames).frames[n]))
      BY <2>3, NewSumsAre, FramedIs DEF sum, M
    <2>6. Chain(Framed(fr), M, wc[c].hdr.salt, 0, sum[M])
      <3>1. Chain(Framed(s.frames), M, wc[c].hdr.salt, s.re, s.sum)
        BY <1>1, <2>3 DEF Extends
      <3>2. SameLog(Framed(s.frames), Framed(fr)) /\ Framed(fr).frames = fr /\ Framed(s.frames).frames = s.frames
        BY <2>3, FramedIs DEF SameLog
      <3>3. \A n \in 1 .. M : n < s.re => Framed(fr).frames[n] = Framed(s.frames).frames[n]
        BY <2>4, <3>2
      <3>4. \A n \in s.re .. M :
               /\ Framed(fr).frames[n].salt = Framed(s.frames).frames[n].salt /\ Framed(fr).frames[n].sum = sum[n]
               /\ Ident(Framed(fr).frames[n]) = Ident(Framed(s.frames).frames[n])
        BY <2>3, <2>4, <3>2
      <3>5. \A n \in 0 .. M : sum[n] = IF n < s.re THEN SumUpTo(Framed(s.frames), n)
                                       ELSE Append(sum[n - 1], Ident(Framed(s.frames).frames[n]))
        BY <2>5
      <3>6. s.re \in 1 .. M /\ M \in Nat
        BY <2>3
      <3> QED BY ONLY <3>6, <3>5, <3>1, <3>2, <3>3, <3>4, ChainMended, ZenonT(60)
    <2>7. \A n \in 1 .. LiveHdr.mxFrame : fr[n] = wal.frames[n]
      BY <1>1, <2>3, <2>4 DEF Extends
    <2>8. Committed(c, t)
      <3>1. s.frames[M].size > 0 /\ M > 0
        BY <1>1, <1>3, <2>3 DEF Committed
      <3>2. fr[M].size = s.frames[M].size
        BY <2>3, <2>4
      <3> QED BY <2>2, <2>3, <3>1, <3>2 DEF Committed
    <2> QED BY <2>1, <2>2, <2>3, <2>6, <2>7, <2>8 DEF Extends
  <1> QED BY <1>2, <1>3

(* The log keeps the frames that the shared header counts.                 *)
LEMMA PublishedKept ==
  ASSUME LogOK(wal), LiveHdr.mxFrame \in Nat, Published, LiveHdr' = LiveHdr,
         wal'.salt = wal.salt, wal'.nCkpt = wal.nCkpt,
         \A n \in 1 .. LiveHdr.mxFrame : wal'.frames[n] = wal.frames[n]
  PROVE  Published'
  <1>1. SUFFICES ASSUME LiveHdr.mxFrame > 0 PROVE Published'
    BY DEF Published
  <1>2. SameLog(wal, wal')
    BY DEF SameLog
  <1>3. ValidTo(wal, LiveHdr.mxFrame) /\ LiveHdr.mxFrame \in 1 .. LiveHdr.mxFrame
    BY <1>1 DEF Published
  <1>4. ASSUME NEW n \in 1 .. LiveHdr.mxFrame PROVE ValidFrame(wal', n)
    <2>1. ValidFrame(wal, n)
      BY <1>3 DEF ValidTo
    <2> QED BY <1>2, <2>1, SameFrames
  <1>5. SumUpTo(wal', LiveHdr.mxFrame) = SumUpTo(wal, LiveHdr.mxFrame)
    BY <1>1, <1>3 DEF SumUpTo
  <1>6. ValidTo(wal', LiveHdr.mxFrame)
    BY <1>4 DEF ValidTo
  <1> QED BY <1>1, <1>3, <1>5, <1>6 DEF Published

LEMMA WriterAppends ==
  ASSUME TInv, RInv, NEW c \in Conns, InFrames(c)
  PROVE  /\ Appending(c) /\ LogOf(c) /\ ~tx[c].failed /\ job[c].list # <<>>
         /\ tx[c].on /\ job[c].kind = "write" /\ wc[c].readLock > 0 /\ Excl(c, WAL_WRITE_LOCK)
  <1>0. pc[c] \in {"log", "frames"}
    BY DEF InFrames, At
  <1>s. Local(c) /\ Conn(c) /\ Mine(c) /\ FilesOK
    BY DEF TInv, LInv, Types, RInv
  <1>1. /\ tx[c].on /\ job[c].kind = "write" /\ wc[c].readLock > 0 /\ ~tx[c].failed
        /\ Excl(c, WAL_WRITE_LOCK)
    BY <1>0, <1>s DEF Excl, ExclOf, Local, ControlOf, Mine, Call, CallOf, RestartPcs, HdrPcs,
       Recovery, MarkPcs, FramePcs, CopyPcs, ScanPcs, CkptPcs
  <1>2. LiveHdr.mxFrame \in Nat /\ wc[c].hdr.mxFrame \in Nat
    BY HdrNumbers DEF TInv
  <1>3. LiveHdr.mxFrame <= wc[c].hdr.mxFrame
    BY <1>0, <1>1, <1>2, <1>s DEF Mine, WriterOf
  <1>4. wc[c].hdr.mxFrame <= Len(wal.frames)
    <2>1. Reached(c) <= Len(wal.frames)
      BY <1>1 DEF TInv, LengthsOK, LengthOf
    <2>2. Reached(c) = wc[c].hdr.mxFrame
      BY <1>0, <1>2 DEF Reached
    <2> QED BY <2>1, <2>2
  <1>5. job[c].iFirst \in {0, LiveHdr.mxFrame + 1} /\ LogOf(c)
    BY <1>1, <1>s DEF Mine, LogOf
  <1>6. job[c].list # <<>>
    BY <1>1, <1>s DEF Conn, ConnOf
  <1> QED BY <1>1, <1>2, <1>3, <1>4, <1>5, <1>6, <1>s DEF Appending

LEMMA WriteFramesReads ==
  ASSUME TInv, TInv', RInv, NEW c \in Conns, WriteFrames(c)
  PROVE  RInv'
  <1> DEFINE s == AllWritten(c)
  <1>0. InFrames(c) /\ pc[c] \in {"log", "frames"}
    BY DEF WriteFrames, InFrames, At
  <1>s. Shaped /\ Local(c) /\ Conn(c) /\ Mine(c) /\ LogOK(wal)
    BY DEF TInv, LInv, Shaped, Local, Types, FilesOK, RInv
  <1>h. HdrOK(LiveHdr) /\ HdrOK(wc[c].hdr) /\ salts \in Nat /\ LiveHdr.mxFrame \in Nat
    BY <1>s, HdrNumbers DEF Conn, ConnOf, TInv, Types, SharedOK
  <1>a. /\ Appending(c) /\ LogOf(c) /\ ~tx[c].failed /\ job[c].list # <<>>
        /\ tx[c].on /\ job[c].kind = "write" /\ wc[c].readLock > 0 /\ Excl(c, WAL_WRITE_LOCK)
    BY <1>0, WriterAppends
  <1>e. /\ Extends(c, s)
        /\ job[c].commit => s.re = 0 /\ Committed(c, s)
    BY <1>0, <1>a, AllWrittenExtends
  <1>b. Becomes(c, IF job[c].commit /\ fullSync THEN "sync" ELSE "index", [job[c] EXCEPT !.new = s.new],
             [wc[c] EXCEPT !.hdr.sum = s.sum, !.iReCksum = s.re], tx[c])
    BY <1>s, WriteFramesDoes
  <1> HIDE DEF s
  <1>u. /\ LiveHdr' = LiveHdr /\ shm' = shm /\ walDisk' = walDisk /\ setting' = setting /\ salts' = salts
        /\ wal' = Framed(s.frames)
    BY DEF WriteFrames, LiveHdr, rest, AllWritten, Framed, s
  <1>w. wal'.salt = wal.salt /\ wal'.nCkpt = wal.nCkpt /\ wal'.frames = s.frames
    BY <1>u, <1>s, FramedIs
  <1>i. wc'[c].hdr = [wc[c].hdr EXCEPT !.sum = s.sum]
    BY <1>s, <1>b, <1>h DEF Becomes, Local, ShapeOf, HdrOK
  <1>c. /\ Unmoved(c) /\ pc'[c] \in {"sync", "index"} /\ tx'[c] = tx[c]
        /\ job'[c].new = s.new /\ job'[c].kind = job[c].kind /\ job'[c].h1 = job[c].h1
        /\ job'[c].iFirst = job[c].iFirst /\ job'[c].commit = job[c].commit /\ job'[c].mxI = job[c].mxI
        /\ wc'[c].hdr.mxFrame = wc[c].hdr.mxFrame /\ wc'[c].hdr.salt = wc[c].hdr.salt /\ wc'[c].hdr.sum = s.sum
        /\ wc'[c].readLock = wc[c].readLock /\ wc'[c].iReCksum = s.re
    BY <1>s, <1>b, <1>i, <1>h DEF Becomes, Unmoved, Others, Local, ShapeOf, HdrOK
  <1>r. Reached(c)' = wc[c].hdr.mxFrame + Len(s.new)
    BY <1>c DEF Reached
  <1>1. SaltsDrawn'
    BY <1>u, <1>w DEF RInv, SaltsDrawn, Drawn
  <1>2. SaltOf(c)' /\ WriterOf(c)' /\ HeaderOf(c)' /\ (Unpublished(c)' <=> Unpublished(c))
    BY <1>0, <1>a, <1>c, <1>u, <1>s DEF Mine, SaltOf, Drawn, WriterOf, HeaderOf, Unpublished
  <1>3. Call(c)'
    BY <1>0, <1>c, <1>s DEF Mine, Call, CallOf, Marking, Checkpointing, FramePcs, ScanPcs, CopyPcs
  <1>l. LogOf(c)'
    <2>1. Chain(wal', Reached(c)', wc'[c].hdr.salt, wc'[c].iReCksum, wc'[c].hdr.sum)
      BY <1>e, <1>u, <1>r, <1>c DEF Extends
    <2>2. wc'[c].iReCksum = 0 \/ wc'[c].iReCksum \in LiveHdr'.mxFrame + 1 .. Reached(c)'
      BY <1>e, <1>u, <1>r, <1>c DEF Extends
    <2>3. CommitWritten(c)' => wc'[c].iReCksum = 0 /\ Reached(c)' > 0 /\ wal'.frames[Reached(c)'].size > 0
      BY <1>e, <1>w, <1>r, <1>c DEF CommitWritten, Committed
    <2>4. job'[c].iFirst = 0 \/ (job'[c].iFirst = LiveHdr'.mxFrame + 1 /\ pc'[c] \notin RestartPcs)
      BY <1>a, <1>c, <1>u DEF Appending, RestartPcs
    <2> QED BY <2>1, <2>2, <2>3, <2>4, <1>a, <1>c DEF LogOf
  <1>4. \A d \in Others(c) : FreshFor(c, d)'
    BY <1>2, <1>u, <1>c DEF RInv, FreshFor, Unmoved, Others
  <1>5. Published'
    BY <1>e, <1>h, <1>s, <1>u, <1>w, PublishedKept DEF RInv, Extends
  <1>6. ASSUME Spared PROVE Readers'
    <2>0. Readers
      BY <1>6 DEF RInv
    <2>1. ASSUME NEW d \in Conns PROVE SnapOf(d)'
      BY <2>0, <1>c, <1>u DEF Readers, SnapOf, Snap, Unmoved, Others
    <2>2. ASSUME NEW d \in Conns PROVE CkptOf(d)'
      BY <2>0, <1>c, <1>u, <1>a DEF Readers, CkptOf, Below, Here, Unmoved, Others, Checkpointing, ScanPcs, CopyPcs
    <2>3. ASSUME NEW d \in Conns, NEW e \in Others(d) PROVE SafeFor(d, e)'
      BY <2>0, <1>c, <1>u DEF Readers, SafeFor, Snap, Scanned, Here, Unmoved, Others, Checkpointing, ScanPcs, CopyPcs
    <2>4. BackfillOK'
      BY <2>0, <1>0, <1>c, <1>u DEF Readers, BackfillOK, Restarting, Unmoved, Others
    <2> QED BY <2>1, <2>2, <2>3, <2>4 DEF Readers
  <1> QED BY <1>a, <1>c, <1>u, <1>h, <1>1, <1>2, <1>3, <1>l, <1>4, <1>5, <1>6, OwnerStep DEF Mine

LEMMA FailsReads ==
  ASSUME TInv, TInv', RInv, NEW c \in Conns, Fails(c)
  PROVE  RInv'
  <1>0. /\ pc[c] = "sync" \/ InFrames(c)
        /\ pc[c] \in {"log", "frames", "sync"}
    BY DEF Fails, InFrames, At
  <1>s. Shaped /\ Local(c) /\ Conn(c) /\ Mine(c) /\ LogOK(wal)
    BY DEF TInv, LInv, Shaped, Local, Types, FilesOK, RInv
  <1>h. salts \in Nat /\ LiveHdr.mxFrame \in Nat
    BY <1>s, HdrNumbers DEF TInv
  <1>a. tx[c].on /\ job[c].kind = "write" /\ wc[c].readLock > 0 /\ Excl(c, WAL_WRITE_LOCK)
    BY <1>0, <1>s DEF Excl, ExclOf, Local, ControlOf, RestartPcs, HdrPcs,
       Recovery, MarkPcs, FramePcs, CopyPcs, ScanPcs, CkptPcs
  <1>b. Becomes(c, "idle", NoJob, wc[c], [tx[c] EXCEPT !.failed = TRUE])
    BY <1>s, FailsDoes
  <1>u. /\ LiveHdr' = LiveHdr /\ shm' = shm /\ walDisk' = walDisk /\ setting' = setting /\ salts' = salts
    BY DEF Fails, LiveHdr, rest
  <1>w. /\ wal'.salt = wal.salt /\ wal'.nCkpt = wal.nCkpt
        /\ \A n \in 1 .. LiveHdr.mxFrame : wal'.frames[n] = wal.frames[n]
    <2>1. CASE wal' = wal
      BY <2>1
    <2>2. CASE wal' # wal
      <3>1. InFrames(c) /\ \E k \in 0 .. Len(job[c].list) - 1 : wal' = Framed(Written(c)[k].frames)
        BY <2>2 DEF Fails, Framed
      <3>2. PICK k \in 0 .. Len(job[c].list) - 1 : wal' = Framed(Written(c)[k].frames)
        BY <3>1
      <3>3. k \in 0 .. Len(job[c].list)
        BY <3>2, <1>s DEF Conn, ConnOf
      <3>4. Extends(c, Written(c)[k])
        BY <3>1, <3>3, WriterAppends, WrittenExtends
      <3> QED BY <3>2, <3>4, <1>s, FramedIs DEF Extends
    <2> QED BY <2>1, <2>2
  <1>c. /\ Unmoved(c) /\ pc'[c] = "idle" /\ job'[c] = NoJob /\ wc'[c] = wc[c]
        /\ tx'[c].on = tx[c].on /\ tx'[c].failed
    BY <1>s, <1>b DEF Becomes, Unmoved, Local, ShapeOf
  <1>1. SaltsDrawn'
    BY <1>u, <1>w DEF RInv, SaltsDrawn, Drawn
  <1>2. SaltOf(c)' /\ WriterOf(c)' /\ HeaderOf(c)' /\ (Unpublished(c)' <=> Unpublished(c))
    BY <1>0, <1>a, <1>c, <1>u, <1>h, <1>s DEF Mine, SaltOf, Drawn, WriterOf, HeaderOf, Unpublished, NoJob, ZeroHdr
  <1>3. Call(c)' /\ LogOf(c)'
    BY <1>a, <1>c DEF Call, CallOf, Marking, Checkpointing, FramePcs, ScanPcs, CopyPcs, LogOf, NoJob
  <1>4. \A d \in Others(c) : FreshFor(c, d)'
    BY <1>2, <1>u, <1>c DEF RInv, FreshFor, Unmoved, Others
  <1>5. Published'
    BY <1>h, <1>s, <1>u, <1>w, PublishedKept DEF RInv
  <1>6. ASSUME Spared PROVE Readers'
    <2>0. Readers
      BY <1>6 DEF RInv
    <2>1. ASSUME NEW d \in Conns PROVE SnapOf(d)'
      BY <2>0, <1>c, <1>u DEF Readers, SnapOf, Snap, Unmoved, Others
    <2>2. ASSUME NEW d \in Conns PROVE CkptOf(d)'
      BY <2>0, <1>c, <1>u, <1>a DEF Readers, CkptOf, Below, Here, Unmoved, Others, Checkpointing, ScanPcs, CopyPcs, NoJob
    <2>3. ASSUME NEW d \in Conns, NEW e \in Others(d) PROVE SafeFor(d, e)'
      BY <2>0, <1>c, <1>u DEF Readers, SafeFor, Snap, Scanned, Here, Unmoved, Others, Checkpointing, ScanPcs, CopyPcs
    <2>4. BackfillOK'
      BY <2>0, <1>0, <1>c, <1>u DEF Readers, BackfillOK, Restarting, Unmoved, Others
    <2> QED BY <2>1, <2>2, <2>3, <2>4 DEF Readers
  <1> QED BY <1>a, <1>c, <1>u, <1>h, <1>1, <1>2, <1>3, <1>4, <1>5, <1>6, OwnerStep DEF Mine

-----------------------------------------------------------------------------
(* Connections that close or die, one or all.                              *)

(* One that is gone, and one that was closed already.                      *)
LEMMA AtRestReads ==
  ASSUME NEW d \in Conns, pc'[d] = "closed", job'[d] = NoJob, ~tx'[d].on, ~tx'[d].failed,
         wc'[d].iReCksum = 0, SaltOf(d)'
  PROVE  Mine(d)'
  <1>1. NoJob.iFirst = 0 /\ NoJob.mxI = 0 /\ NoJob.kind = "none"
    BY DEF NoJob
  <1>2. Call(d)'
    BY <1>1 DEF Call, CallOf, Marking, Checkpointing, ScanPcs, CopyPcs
  <1>3. WriterOf(d)' /\ LogOf(d)' /\ HeaderOf(d)'
    BY DEF WriterOf, LogOf, HeaderOf
  <1> QED BY <1>2, <1>3 DEF Mine

LEMMA GoneAre ==
  ASSUME TInv, NEW S \in SUBSET Conns, Gone(S), NEW d \in S
  PROVE  /\ pc'[d] = "closed" /\ job'[d] = NoJob /\ ~tx'[d].on /\ wc'[d].readLock = -1
         /\ wc'[d].hdr.salt = 0 /\ job'[d].h1.salt = 0 /\ Mine(d)'
  <1>1. pc'[d] = "closed" /\ job'[d] = NoJob /\ wc'[d] = NewWal /\ tx'[d] = NoTx /\ salts' = salts
    BY DEF Gone
  <1>2. /\ NoJob.h1.salt = 0 /\ NewWal.readLock = -1 /\ NewWal.iReCksum = 0 /\ NewWal.hdr.salt = 0
        /\ ~NoTx.on /\ ~NoTx.failed
    BY DEF NoJob, NewWal, NoTx, ZeroHdr
  <1>3. SaltOf(d)'
    BY <1>1, <1>2, HdrNumbers DEF SaltOf, Drawn, TInv
  <1>4. Mine(d)'
    BY <1>1, <1>2, <1>3, AtRestReads
  <1> QED BY <1>1, <1>2, <1>4

(* All are closed: the wal-index is gone with them. *)
LEMMA AllGoneReads ==
  ASSUME TInv, RInv, NEW S \in SUBSET Conns, Gone(S), \A d \in Conns \ S : At(d, "closed"),
         Drawn(wal.salt)', Drawn(walDisk.salt)'
  PROVE  RInv'
  <1>1. shm' = ZeroShm /\ salts' = salts /\ salts \in Nat
    BY HdrNumbers DEF Gone, TInv
  <1>2. LiveHdr'.mxFrame = 0 /\ LiveHdr'.salt = 0 /\ shm'.nBackfill = 0
    BY <1>1 DEF LiveHdr, ZeroShm, ZeroHdr
  <1>3. ASSUME NEW d \in Conns
        PROVE  /\ Mine(d)' /\ pc'[d] = "closed" /\ ~tx'[d].on /\ wc'[d].readLock = -1
               /\ job'[d].kind = "none"
    <2>1. CASE d \in S
      BY <2>1, GoneAre DEF NoJob
    <2>2. CASE d \notin S
      <3>1. /\ pc'[d] = pc[d] /\ job'[d] = job[d] /\ wc'[d] = wc[d] /\ tx'[d] = tx[d] /\ pc[d] = "closed"
        BY <2>2 DEF Gone, At
      <3>2. Local(d) /\ Mine(d)
        BY DEF TInv, LInv, RInv
      <3>3. job[d].kind = "none" /\ ~tx[d].on /\ wc[d].readLock = -1
        BY <3>1, <3>2 DEF Local, ControlOf, HdrPcs, Recovery, MarkPcs, RestartPcs, FramePcs, CopyPcs, ScanPcs, CkptPcs
      <3>4. SaltOf(d)' /\ wc[d].iReCksum = 0
        BY <1>1, <3>1, <3>2, <3>3 DEF Mine, SaltOf, Drawn, LogOf
      <3>5. Call(d)'
        BY <3>1, <3>2 DEF Mine, Call
      <3>6. WriterOf(d)' /\ LogOf(d)' /\ HeaderOf(d)'
        BY <3>1, <3>3, <3>4 DEF WriterOf, LogOf, HeaderOf
      <3> QED BY <3>1, <3>3, <3>4, <3>5, <3>6 DEF Mine
    <2> QED BY <2>1, <2>2
  <1>4. SaltsDrawn' /\ Published'
    BY <1>1, <1>2 DEF SaltsDrawn, Drawn, Published
  <1>5. \A d \in Conns : \A e \in Others(d) : FreshFor(d, e)'
    BY <1>3 DEF FreshFor, Unpublished
  <1>6. Readers'
    BY <1>2, <1>3 DEF Readers, SnapOf, CkptOf, SafeFor, BackfillOK, Checkpointing, ScanPcs, CopyPcs, Others
  <1> QED BY <1>3, <1>4, <1>5, <1>6 DEF RInv

(* Some are left, and the wal-index with them. *)
LEMMA SomeGoneReads ==
  ASSUME TInv, RInv, NEW S \in SUBSET Conns, Gone(S), shm' = shm,
         SaltsDrawn', Published',
         wal' = wal \/ \A d \in Conns \ S : ~tx[d].on /\ pc[d] # "recover2",
         Spared => \A d \in S : pc[d] # "restart2"
  PROVE  RInv'
  <1>1. /\ LiveHdr' = LiveHdr /\ salts' = salts /\ setting' = setting
        /\ salts \in Nat /\ LiveHdr.salt \in Nat
    BY HdrNumbers DEF Gone, LiveHdr, TInv
  <1>2. ASSUME NEW d \in Conns \ S
        PROVE  pc'[d] = pc[d] /\ job'[d] = job[d] /\ wc'[d] = wc[d] /\ tx'[d] = tx[d] /\ d \in Conns
    BY DEF Gone
  <1>3. ASSUME NEW d \in S
        PROVE  /\ Mine(d)' /\ pc'[d] = "closed" /\ ~tx'[d].on /\ wc'[d].readLock = -1
               /\ job'[d].kind = "none" /\ wc'[d].hdr.salt = 0 /\ job'[d].h1.salt = 0
    BY GoneAre DEF NoJob
  <1>4. ASSUME NEW d \in Conns \ S PROVE Mine(d)'
    <2>1. Mine(d)
      BY DEF RInv
    <2>2. Call(d)' /\ SaltOf(d)' /\ WriterOf(d)'
      BY <1>1, <1>2, <2>1 DEF Mine, Call, SaltOf, Drawn, WriterOf, Unpublished
    <2>3. LogOf(d)' /\ HeaderOf(d)'
      BY <1>1, <1>2, <2>1 DEF Mine, LogOf, HeaderOf, Reached, CommitWritten
    <2> QED BY <2>2, <2>3 DEF Mine
  <1>5. ASSUME NEW d \in Conns, NEW e \in Others(d) PROVE FreshFor(d, e)'
    <2>1. CASE d \in S
      BY <1>3, <2>1 DEF FreshFor, Unpublished
    <2>2. CASE d \notin S
      <3>1. FreshFor(d, e) /\ WriterOf(d) /\ (Unpublished(d)' <=> Unpublished(d))
        BY <1>1, <1>2, <2>2 DEF RInv, Mine, Unpublished
      <3>2. Unpublished(d) => 0 < salts
        BY <1>1, <3>1 DEF WriterOf, Unpublished
      <3>3. e \in S => wc'[e].hdr.salt = 0 /\ job'[e].h1.salt = 0
        BY <1>3
      <3>4. e \notin S => wc'[e] = wc[e] /\ job'[e] = job[e]
        BY <1>2 DEF Others
      <3> QED BY <1>1, <3>1, <3>2, <3>3, <3>4 DEF FreshFor
    <2> QED BY <2>1, <2>2
  <1>6. ASSUME Spared PROVE Readers'
    <2>0. Readers
      BY <1>6 DEF RInv
    <2>1. ASSUME NEW d \in Conns PROVE SnapOf(d)'
      <3>1. CASE d \in S
        BY <1>3, <3>1 DEF SnapOf
      <3>2. CASE d \notin S
        BY <1>1, <1>2, <2>0, <3>2 DEF Readers, SnapOf, Snap
      <3> QED BY <3>1, <3>2
    <2>2. ASSUME NEW d \in Conns PROVE CkptOf(d)'
      <3>1. CASE d \in S
        BY <1>3, <3>1 DEF CkptOf, Checkpointing, ScanPcs, CopyPcs
      <3>2. CASE d \notin S
        BY <1>1, <1>2, <2>0, <3>2 DEF Readers, CkptOf, Below, Here
      <3> QED BY <3>1, <3>2
    <2>3. ASSUME NEW d \in Conns, NEW e \in Others(d) PROVE SafeFor(d, e)'
      <3>1. CASE d \in S
        BY <1>3, <3>1 DEF SafeFor, Checkpointing, ScanPcs, CopyPcs
      <3>2. CASE e \in S
        BY <1>3, <3>2 DEF SafeFor
      <3>3. CASE d \notin S /\ e \notin S
        BY <1>1, <1>2, <2>0, <3>3 DEF Readers, SafeFor, Snap, Scanned, Here, Others
      <3> QED BY <3>1, <3>2, <3>3
    <2>4. BackfillOK'
      <3>1. Restarting => Restarting'
        BY <1>2, <1>6 DEF Restarting
      <3> QED BY <1>1, <2>0, <3>1 DEF Readers, BackfillOK
    <2> QED BY <2>1, <2>2, <2>3, <2>4 DEF Readers
  <1> QED BY <1>3, <1>4, <1>5, <1>6, <1>1 DEF RInv, Spared

LEMMA CloseReads ==
  ASSUME TInv, TInv', RInv, NEW c \in Conns, Close(c)
  PROVE  RInv'
  <1>1. CASE \A d \in Others(c) : At(d, "closed")
    BY <1>1, StartCkptReads DEF Close, Modes
  <1>2. CASE ~\A d \in Others(c) : At(d, "closed")
    <2>1. /\ Gone({c}) /\ wal' = wal /\ walDisk' = walDisk /\ pc[c] # "restart2"
      BY <1>2 DEF Close, files, Idle, At
    <2>2. shm' = shm /\ salts' = salts
      BY <1>2, <2>1 DEF Gone, Others
    <2>3. SaltsDrawn' /\ Published'
      BY <2>1, <2>2 DEF RInv, SaltsDrawn, Drawn, LiveHdr, Published
    <2> QED BY <2>1, <2>2, <2>3, SomeGoneReads
  <1> QED BY <1>1, <1>2

LEMMA CloseWalReads ==
  ASSUME TInv, TInv', RInv, NEW c \in Conns, CloseWal(c)
  PROVE  RInv'
  <1>1. Closing(c)
    BY DEF TInv, LInv, Local, ControlOf, CloseWal, At, Closing
  <1>2. \A d \in Conns \ {c} : At(d, "closed")
    BY <1>1 DEF TInv, ClosingsOK, Others
  <1>3. Gone({c}) /\ walDisk' = walDisk /\ (wal' = wal \/ wal' = EmptyLog)
    BY DEF CloseWal
  <1>4. salts' = salts /\ salts \in Nat /\ EmptyLog.salt = -1
    BY <1>3, HdrNumbers DEF Gone, TInv, EmptyLog, NoSalt
  <1>5. Drawn(wal.salt)' /\ Drawn(walDisk.salt)'
    BY <1>3, <1>4 DEF RInv, SaltsDrawn, Drawn
  <1> QED BY <1>2, <1>3, <1>5, AllGoneReads

LEMMA DeathReads ==
  ASSUME TInv, TInv', RInv, NEW c \in Conns, Death(c)
  PROVE  RInv'
  <1>1. Gone({c}) /\ walDisk' = walDisk /\ salts' = salts
    BY DEF Death, Gone
  <1>2. Spared => pc[c] # "restart2"
    BY DEF Death, Mortal, Spared, At
  <1>3. /\ wal'.salt = wal.salt /\ wal'.nCkpt = wal.nCkpt
        /\ \A n \in 1 .. LiveHdr.mxFrame : wal'.frames[n] = wal.frames[n]
        /\ wal' = wal \/ \A d \in Conns \ {c} : ~tx[d].on /\ pc[d] # "recover2"
    <2>1. CASE wal' = wal
      BY <2>1
    <2>2. CASE wal' # wal
      <3>1. InFrames(c) /\ \E k \in 1 .. Len(job[c].list) - 1 : wal' = Framed(Written(c)[k].frames)
        BY <2>2 DEF Death, Framed
      <3>2. PICK k \in 1 .. Len(job[c].list) - 1 : wal' = Framed(Written(c)[k].frames)
        BY <3>1
      <3>3. k \in 0 .. Len(job[c].list)
        BY <3>2 DEF TInv, Types, Conn, ConnOf
      <3>4. Extends(c, Written(c)[k])
        BY <3>1, <3>3, WriterAppends, WrittenExtends
      <3>5. \A d \in Conns \ {c} : ~tx[d].on /\ pc[d] # "recover2"
        BY <3>1, WriterAppends, OthersOff DEF TInv, Others, Recovery
      <3> QED BY <3>2, <3>4, <3>5, FramedIs DEF Extends, TInv, Types, FilesOK
    <2> QED BY <2>1, <2>2
  <1>4. Drawn(wal.salt)' /\ Drawn(walDisk.salt)'
    BY <1>1, <1>3 DEF RInv, SaltsDrawn, Drawn
  <1>5. CASE \A d \in Conns \ {c} : At(d, "closed")
    BY <1>1, <1>4, <1>5, AllGoneReads
  <1>6. CASE ~\A d \in Conns \ {c} : At(d, "closed")
    <2>1. shm' = shm /\ LiveHdr' = LiveHdr
      BY <1>1, <1>6 DEF Gone, LiveHdr
    <2>2. Published'
      BY <1>3, <2>1, HdrNumbers, PublishedKept DEF RInv, TInv, Types, FilesOK
    <2>3. SaltsDrawn'
      BY <1>1, <1>4, <2>1 DEF RInv, SaltsDrawn, Drawn
    <2> QED BY <1>1, <1>2, <1>3, <2>1, <2>2, <2>3, SomeGoneReads
  <1> QED BY <1>5, <1>6

LEMMA PowerFailureReads ==
  ASSUME TInv, TInv', RInv, PowerFailure
  PROVE  RInv'
  <1>1. Gone(Conns) /\ walDisk' = wal' /\ salts' = salts
    BY DEF PowerFailure, Gone
  <1>2. wal'.salt = wal.salt \/ wal'.salt = walDisk.salt
    <2>1. CASE wal' = wal
      BY <2>1
    <2>2. ASSUME NEW h \in {<<wal.salt, wal.nCkpt>>, <<walDisk.salt, walDisk.nCkpt>>}, NEW f,
                 wal' = [salt |-> h[1], nCkpt |-> h[2], frames |-> f]
          PROVE  wal'.salt = wal.salt \/ wal'.salt = walDisk.salt
      BY <2>2
    <2> QED BY <2>1, <2>2 DEF PowerFailure, WalWrecks
  <1>3. Drawn(wal.salt)' /\ Drawn(walDisk.salt)'
    BY <1>1, <1>2 DEF RInv, SaltsDrawn, Drawn
  <1> QED BY <1>1, <1>3, AllGoneReads

-----------------------------------------------------------------------------
LEMMA InitReads ==
  ASSUME Init
  PROVE  RInv
  <1>1. \A d \in Conns : pc[d] \in {"idle", "closed"} /\ job[d] = NoJob /\ wc[d] = NewWal /\ tx[d] = NoTx
    BY DEF Init
  <1>2. /\ NoJob.iFirst = 0 /\ NoJob.mxI = 0 /\ NoJob.kind = "none" /\ NoJob.h1.salt = 0
        /\ NewWal.readLock = -1 /\ NewWal.iReCksum = 0 /\ NewWal.hdr.salt = 0 /\ ~NoTx.on /\ ~NoTx.failed
    BY DEF NoJob, NewWal, NoTx, ZeroHdr
  <1>3. LiveHdr.mxFrame = 0 /\ LiveHdr.salt = 0 /\ shm.nBackfill = 0
    BY DEF Init, LiveHdr, ZeroShm, ZeroHdr
  <1>4. wal.salt = -1 /\ walDisk.salt = -1 /\ salts = 0
    BY DEF Init, EmptyLog, NoSalt
  <1>5. ASSUME NEW d \in Conns PROVE Mine(d)
    <2>1. Call(d) /\ SaltOf(d)
      BY <1>1, <1>2, <1>4 DEF Call, CallOf, SaltOf, Drawn, Marking, Checkpointing, ScanPcs, CopyPcs, FramePcs
    <2>2. WriterOf(d) /\ LogOf(d) /\ HeaderOf(d)
      BY <1>1, <1>2 DEF WriterOf, LogOf, HeaderOf
    <2> QED BY <2>1, <2>2 DEF Mine
  <1>6. SaltsDrawn /\ Published
    BY <1>3, <1>4 DEF SaltsDrawn, Drawn, Published
  <1>7. \A d \in Conns : \A e \in Others(d) : FreshFor(d, e)
    BY <1>1, <1>2 DEF FreshFor, Unpublished
  <1>8. Readers
    BY <1>1, <1>2, <1>3 DEF Readers, SnapOf, CkptOf, SafeFor, BackfillOK, Checkpointing, ScanPcs, CopyPcs, Others
  <1> QED BY <1>5, <1>6, <1>7, <1>8 DEF RInv

LEMMA StutterReads ==
  ASSUME RInv, UNCHANGED vars
  PROVE  RInv'
  <1>1. /\ pc' = pc /\ job' = job /\ tx' = tx /\ wc' = wc /\ setting' = setting
        /\ wal' = wal /\ walDisk' = walDisk /\ shm' = shm /\ salts' = salts
    BY DEF vars, private, files
  <1>2. LiveHdr' = LiveHdr
    BY <1>1 DEF LiveHdr
  <1>3. ASSUME NEW d \in Conns PROVE Mine(d)'
    <2>1. Mine(d)
      BY DEF RInv
    <2> QED BY <1>1, <1>2, <2>1 DEF Mine, Call, SaltOf, Drawn, WriterOf, Unpublished, LogOf, HeaderOf, Reached, CommitWritten
  <1>4. \A d \in Conns : \A e \in Others(d) : FreshFor(d, e)'
    BY <1>1, <1>2 DEF RInv, FreshFor, Unpublished
  <1>5. SaltsDrawn' /\ Published'
    BY <1>1, <1>2 DEF RInv, SaltsDrawn, Drawn, Published
  <1>6. ASSUME Readers PROVE Readers'
    BY <1>1, <1>2, <1>6 DEF Readers, SnapOf, Snap, CkptOf, Below, Here, SafeFor, Scanned, BackfillOK, Restarting
  <1> QED BY <1>1, <1>3, <1>4, <1>5, <1>6 DEF RInv, Spared

LEMMA StepReads ==
  ASSUME TInv, TInv', RInv, [Next]_vars
  PROVE  RInv'
  <1>1. ASSUME NEW c \in Conns, BeginRead(c) \/ EndRead(c) \/ ReadStep(c) PROVE RInv'
    BY <1>1, BeginReadReads, EndReadReads, TryHdrReads, TryHdr2Reads, BadHdrReads,
       BadHdrBusyReads, RecoverLockReads, RecoverBusyReads, RecoverLogReads, RecoverHdr0Reads,
       RecoverInfoReads, ChooseDbReads, Check0Reads, ScanReads, SetMarkReads, LockMarkReads,
       MinFrameReads, CheckMarkReads DEF ReadStep
  <1>2. ASSUME NEW c \in Conns,
               BeginWrite(c) \/ Shrink(c) \/ Commit(c) \/ Rollback(c) \/ WriteStep(c) \/ Fails(c)
        PROVE RInv'
    BY <1>2, BeginWriteReads, ShrinkReads, CommitReads, RollbackReads, RestartReads,
       RestartHdr0Reads, RestartInfoReads, CannotRestartReads, WriteLogHeaderReads,
       SyncHeaderReads, WriteFramesReads, SyncFramesReads, IndexReads, PublishReads, FailsReads
       DEF WriteStep
  <1>3. ASSUME NEW c \in Conns, NEW p \in Pages, Modify(c, p) \/ Spill(c, p) PROVE RInv'
    BY <1>3, ModifyReads, SpillReads
  <1>4. ASSUME NEW c \in Conns, Checkpoint(c) PROVE RInv'
    <2>1. PICK mode \in setting.modes : StartCkpt(c, mode)
      BY <1>4 DEF Checkpoint
    <2>2. mode \in Modes
      BY <2>1, WalAssumption DEF TInv, LInv, Shapes, Modes
    <2> QED BY <2>1, <2>2, StartCkptReads
  <1>6. ASSUME NEW c \in Conns, CkptStep(c) \/ CkptFails(c) PROVE RInv'
    BY <1>6, CkptWriteReads, CkptStartReads, CkptReadMarkReads, CkptLockMarkReads,
       CkptLock0Reads, CkptSyncReads, CkptCopyReads, CkptTruncateReads, CkptSyncDbReads,
       CkptBackfillReads, CkptDoneReads, TruncateLogReads, CkptEndReads, CkptFailsReads,
       CloseWalReads DEF CkptStep
  <1>7. ASSUME NEW c \in Conns, Open(c) \/ Close(c) \/ Death(c) PROVE RInv'
    BY <1>7, OpenReads, CloseReads, DeathReads
  <1>8. ASSUME PowerFailure PROVE RInv'
    BY <1>8, PowerFailureReads
  <1>9. ASSUME UNCHANGED vars PROVE RInv'
    BY <1>9, StutterReads
  <1> QED BY <1>1, <1>2, <1>3, <1>4, <1>6, <1>7, <1>8, <1>9 DEF Next

(* RInv in full: the frames that the shared header counts are valid and    *)
(* end with a commit, a writer's frames go on from them, a checkpointer    *)
(* copies frames of the log that is there, and, where nobody dies between  *)
(* the two parts of a restart, none that a reader's mark holds back.       *)
THEOREM ReadersInvariance == Spec => []RInv
  <1>1. Init => RInv
    BY InitReads
  <1>2. TInv /\ TInv' /\ RInv /\ [Next]_vars => RInv'
    BY StepReads
  <1> QED BY <1>1, <1>2, Invariance, PTL DEF Spec

(* ReadersKeepTheirPages of WalRecovery, for settings in which no process  *)
(* dies between the header of a restarted log and its nBackfill: a reader  *)
(* holds the lock of its mark, nothing beyond its snapshot is backfilled,  *)
(* and under mark zero nothing is copied (walTryBeginRead, walCheckpoint). *)
THEOREM ReadersAreSafe == Spec => [](Spared => ReadersKeepTheirPages)
  <1>1. TInv /\ RInv => (Spared => ReadersKeepTheirPages)
    <2> SUFFICES ASSUME TInv, RInv, Spared, NEW c \in Conns, Reading(c)
                 PROVE  /\ c \in lock[WAL_READ_LOCK(wc[c].readLock)].shared
                        /\ wc[c].readLock > 0 => shm.nBackfill <= wc[c].hdr.mxFrame
                        /\ wc[c].readLock = 0 => ~\E d \in Conns : Copying(d)
      BY DEF ReadersKeepTheirPages
    <2>1. c \in lock[WAL_READ_LOCK(wc[c].readLock)].shared
      BY MarkLocked DEF TInv, Reading
    <2>2. ASSUME wc[c].readLock > 0 PROVE shm.nBackfill <= wc[c].hdr.mxFrame
      <3>1. shm.nBackfill <= Snap(c) /\ shm.nBackfill \in Nat
        BY <2>2 DEF RInv, Readers, SnapOf, TInv, Types, SharedOK
      <3>2. LiveHdr.mxFrame \in Nat /\ wc[c].hdr.mxFrame \in Nat
        BY HdrNumbers DEF TInv
      <3>3. tx[c].on => pc[c] # "restart1"
        BY <2>2 DEF TInv, LInv, Local, ControlOf, RestartPcs
      <3>4. tx[c].on => LiveHdr.mxFrame <= wc[c].hdr.mxFrame
        BY <3>2, <3>3 DEF RInv, Mine, WriterOf
      <3> QED BY <3>1, <3>2, <3>4 DEF Snap
    <2>3. ASSUME wc[c].readLock = 0 PROVE ~\E d \in Conns : Copying(d)
      BY <2>3, NobodyCopies DEF TInv, Copying, CopyPcs
    <2> QED BY <2>1, <2>2, <2>3
  <1> QED BY <1>1, Invariance, ReadersInvariance, PTL

(* What the comment of struct WalCkptInfo says of nBackfill holds in these *)
(* settings: Wal_restart finds it broken by a death in the others.         *)
THEOREM BackfillIsWithinLog == Spec => [](Spared => BackfillWithinLog)
  <1>1. TInv /\ RInv => (Spared => BackfillWithinLog)
    <2> SUFFICES ASSUME TInv, RInv, Spared, lock[WAL_WRITE_LOCK] = Free
                 PROVE  shm.nBackfill <= LiveHdr.mxFrame
      BY DEF BackfillWithinLog
    <2>1. ASSUME NEW c \in Conns, pc[c] = "restart2" PROVE FALSE
      <3>1. Excl(c, WAL_WRITE_LOCK)
        BY <2>1 DEF TInv, LInv, Local, ControlOf, Excl, ExclOf, HdrPcs, Recovery, MarkPcs, RestartPcs, FramePcs, CkptPcs, ScanPcs, CopyPcs
      <3>2. c \in lock[WAL_WRITE_LOCK].excl
        <4>1. WAL_WRITE_LOCK \in Slots
          BY WalAssumption DEF Slots, WAL_WRITE_LOCK, WAL_READ_LOCK
        <4>2. lock[WAL_WRITE_LOCK].excl = {d \in Conns : Excl(d, WAL_WRITE_LOCK)}
          BY <4>1, Holders DEF TInv
        <4> QED BY <3>1, <4>2
      <3> QED BY <3>2 DEF Free
    <2> QED BY <2>1 DEF RInv, Readers, BackfillOK, Restarting
  <1> QED BY <1>1, Invariance, ReadersInvariance, PTL

(* RecoveryFindsTheLog of WalRecovery, whatever fails or dies: what the    *)
(* shared header counts are valid frames of the log that is there, the     *)
(* last of them a commit, so that a recovery at any moment finds at least  *)
(* what readers see.                                                       *)
THEOREM RecoveryIsComplete == Spec => []RecoveryFindsTheLog
  <1>1. TInv /\ RInv => RecoveryFindsTheLog
    <2> SUFFICES ASSUME TInv, RInv, LiveHdr.mxFrame > 0
                 PROVE  LiveHdr.salt = wal.salt /\ LiveHdr.mxFrame <= LastCommit(wal)
      BY DEF RecoveryFindsTheLog
    <2>1. LiveHdr.mxFrame \in 1 .. Len(wal.frames) /\ LogOK(wal)
      BY HdrNumbers DEF TInv, Types, FilesOK, LogOK, IsSeq, LengthsOK
    <2> QED BY <2>1, RecoversAll DEF RInv, Published
  <1> QED BY <1>1, Invariance, ReadersInvariance, PTL
=============================================================================
