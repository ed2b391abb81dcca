---------------------------- MODULE OnlineBackup ----------------------------
(***************************************************************************)
(* Online backups of one database (backup.c): each copies the source page  *)
(* by page into a destination of its own, a few pages per call, while the  *)
(* source goes on changing, through its own pager or in other processes.   *)
(*                                                                         *)
(* The source's pager is here what a backup has to do with it: the         *)
(* snapshot its cache belongs to, its transaction, and the moments when it *)
(* writes a page out and tells the backups (sqlite3BackupUpdate) or        *)
(* starts them again (sqlite3BackupRestart).  The destination is locked    *)
(* for the whole backup and has a transaction, so that what is copied      *)
(* shows when the last call commits it.  A call holds the mutexes of the   *)
(* source throughout and is a step.  A page is the number of the write it  *)
(* was last changed by; page 1's header fields are not part of it.         *)
(***************************************************************************)
EXTENDS Integers, Sequences, FiniteSets

CONSTANTS
    Backups,    \* sqlite3_backup objects of one source
    MaxPage,    \* bound: pages of the source
    Settings    \* the settings to choose from

ASSUME OnlineBackupAssumption ==
    /\ MaxPage \in Nat \ {0}
    /\ Settings \subseteq [wal : BOOLEAN,               \* journal mode of the source
                           io : BOOLEAN,                \* system calls fail
                           size : 1 .. MaxPage,         \* of the source at the start
                           users : SUBSET Backups,
                           writes : Nat]                \* bound: pages changed

VARIABLES
    image,      \* the source as committed
    basis,      \* the snapshot that its pager's cache belongs to
    trans,      \* BtShared.inTransaction of the source
    work,       \* the source as its pager has it in a write transaction
    dirty,      \* pages changed and not written out
    out,        \* pages the transaction has written out
    bk,         \* the sqlite3_backup objects
    inDest,     \* what a backup has put into its destination's pager
    dest,       \* the destination as committed
    writes,     \* pages changed so far
    setting     \* what was chosen of Settings

source == <<basis, trans, work, dirty, out>>
vars == <<image, source, bk, inDest, dest, writes, setting>>

Pages == 1 .. MaxPage

(* What the destination held before; nothing is read of it. *)
OldPage == 0
Untouched == [p \in Pages |-> OldPage]
OldContent == <<>>

Closed == [rc |-> "none", iNext |-> 1, isAttached |-> FALSE, bDestLocked |-> FALSE]

Init ==
    /\ setting \in Settings
    /\ image = [p \in 1 .. setting.size |-> 0]
    /\ basis = image
    /\ trans = "none"
    /\ work = <<>> /\ dirty = {} /\ out = {}
    /\ bk = [b \in Backups |-> Closed]
    /\ inDest = [b \in Backups |-> Untouched]
    /\ dest = [b \in Backups |-> OldContent]
    /\ writes = 0

-----------------------------------------------------------------------------
(* What the pager tells the backups on its list.                           *)

(* ~isFatalError(p->rc) *)
Live(b) == bk[b].rc \in {"ok", "busy"}

HasCopied_Less(b, p) == bk[b].isAttached /\ Live(b) /\ p < bk[b].iNext - 1   \* mutant

HasCopied(b, p) == bk[b].isAttached /\ Live(b) /\ p < bk[b].iNext

(* Pages are written out with the content f; a backup that has a page      *)
(* already copies it again, or fails to.                                   *)
BackupUpdate(f) ==
    /\ inDest' = [b \in Backups |-> [p \in Pages |->
                     IF p \in DOMAIN f /\ HasCopied(b, p) THEN f[p] ELSE inDest[b][p]]]
    /\ \E F \in SUBSET {b \in Backups : \E p \in DOMAIN f : HasCopied(b, p)} :
          /\ setting.io \/ F = {}
          /\ bk' = [b \in Backups |-> [bk[b] EXCEPT !.rc = IF b \in F THEN "error" ELSE @]]

Restarted == [b \in Backups |-> [bk[b] EXCEPT !.iNext = IF bk[b].isAttached THEN 1 ELSE @]]

BackupRestart == bk' = Restarted /\ UNCHANGED inDest

-----------------------------------------------------------------------------
(* The transactions of the source's own pager, of whichever connection.    *)

HasChanged_Always == TRUE                                               \* mutant

(* The change counter or the header of the wal-index is another one. *)
HasChanged == image # basis

(* The start of a read transaction empties a cache that is stale. *)
Opened(B) == IF trans = "none" /\ HasChanged THEN B ELSE bk
Snapshot == IF trans = "none" THEN image ELSE basis

BeginRead ==
    /\ trans = "none" /\ trans' = "read"
    /\ basis' = Snapshot
    /\ bk' = Opened(Restarted)
    /\ UNCHANGED <<image, work, dirty, out, inDest, dest, writes, setting>>

EndRead ==
    /\ trans = "read" /\ trans' = "none"
    /\ UNCHANGED <<image, basis, work, dirty, out, bk, inDest, dest, writes, setting>>

BeginWrite ==
    /\ trans = "read" /\ trans' = "write"
    /\ basis = image                        \* else SQLITE_BUSY_SNAPSHOT
    /\ work' = basis
    /\ UNCHANGED <<image, basis, dirty, out, bk, inDest, dest, writes, setting>>

Grown(s, p) == IF p <= Len(s) THEN [s EXCEPT ![p] = writes + 1] ELSE Append(s, writes + 1)
Cut(s) == SubSeq([s EXCEPT ![1] = writes + 1], 1, Len(s) - 1)

MayWrite == writes < setting.writes /\ writes' = writes + 1

Write(p) ==
    /\ trans = "write" /\ MayWrite
    /\ p <= Len(work) + 1
    /\ work' = Grown(work, p) /\ dirty' = dirty \cup {p}
    /\ UNCHANGED <<image, basis, trans, out, bk, inDest, dest, setting>>

(* The file becomes shorter, which page 1 says too. *)
Truncate ==
    /\ trans = "write" /\ MayWrite
    /\ Len(work) > 1
    /\ work' = Cut(work) /\ dirty' = (dirty \cup {1}) \ {Len(work)}
    /\ UNCHANGED <<image, basis, trans, out, bk, inDest, dest, setting>>

(* A page is written to the file or the log before the commit: a spill, or *)
(* a commit that will fail.                                                *)
WriteOut(p) ==
    /\ trans = "write" /\ p \in dirty
    /\ setting.wal => p # 1                 \* pinned until the commit
    /\ dirty' = dirty \ {p} /\ out' = out \cup {p}
    /\ BackupUpdate([q \in {p} |-> work[p]])
    /\ UNCHANGED <<image, basis, trans, work, dest, writes, setting>>

EndWrite(state) ==
    /\ trans' = state
    /\ work' = <<>> /\ dirty' = {} /\ out' = {}
    /\ UNCHANGED <<dest, writes, setting>>

Commit ==
    /\ trans = "write"
    /\ image' = work /\ basis' = work
    /\ BackupUpdate([p \in dirty |-> work[p]])
    /\ EndWrite("read")

(* The journal is played back, page by page, into the file. *)
Rollback ==
    /\ trans = "write" /\ ~setting.wal
    /\ BackupUpdate([p \in out \cap 1 .. Len(basis) |-> basis[p]])
    /\ EndWrite("read")
    /\ UNCHANGED <<image, basis>>

(* The frames are cut off the log, for each of which, and for each dirty   *)
(* page, the backups start again.                                          *)
RollbackWal ==
    /\ trans = "write" /\ setting.wal
    /\ IF out \cup dirty # {} THEN BackupRestart ELSE UNCHANGED <<bk, inDest>>
    /\ EndWrite("read")
    /\ UNCHANGED <<image, basis>>

(* A write or the roll-back fails, and the cache is not to be trusted any  *)
(* more: the pager rolls back, as any other would, when it starts again.   *)
PagerFails ==
    /\ setting.io /\ trans = "write" /\ out \cup dirty # {}
    /\ BackupRestart
    /\ EndWrite("none")
    /\ UNCHANGED <<image, basis>>

(* Another process commits. *)
ExternalCommit ==
    /\ trans = "none" \/ (setting.wal /\ trans = "read")
    /\ MayWrite
    /\ \/ \E p \in Pages : p <= Len(image) + 1 /\ image' = Grown(image, p)
       \/ Len(image) > 1 /\ image' = Cut(image)
    /\ UNCHANGED <<source, bk, inDest, dest, setting>>

-----------------------------------------------------------------------------
(* The interface of backup.c.                                              *)

Set(b, r) == bk' = [bk EXCEPT ![b] = r]

BackupInit(b) ==
    /\ b \in setting.users /\ bk[b].rc = "none"
    /\ Set(b, [Closed EXCEPT !.rc = "ok"])
    /\ UNCHANGED <<image, source, inDest, dest, writes, setting>>

SourceIsWritten_No == FALSE                                             \* mutant

SourceIsWritten == trans = "write"

StepBusy(b) ==
    /\ Live(b) /\ SourceIsWritten
    /\ Set(b, [bk[b] EXCEPT !.rc = "busy"])
    /\ UNCHANGED <<image, source, inDest, dest, writes, setting>>

(* The call reads the source in the transaction that is open, or in one of *)
(* its own, for which the cache may have to be emptied.                    *)
Reads ==
    /\ basis' = Snapshot
    /\ UNCHANGED <<image, trans, work, dirty, out, writes, setting>>

(* Another process holds a lock on the source, or on the destination. *)
StepRefused(b) ==
    /\ Live(b) /\ ~SourceIsWritten
    /\ \/ trans = "none" /\ UNCHANGED source /\ Set(b, [bk[b] EXCEPT !.rc = "busy"])
          /\ UNCHANGED <<image, writes, setting>>
       \/ /\ ~bk[b].bDestLocked
          /\ Reads
          /\ bk' = [Opened(Restarted) EXCEPT ![b].rc = "busy"]
    /\ UNCHANGED <<inDest, dest>>

(* The page as the source's pager has it. *)
SourcePage(p) == IF trans = "write" THEN work[p] ELSE Snapshot[p]

Attaches_Not(done) == FALSE                                             \* mutant

(* There is more to copy: the pager is to tell of changes from now on. *)
Attaches(done) == ~done

Least(x, y) == IF x <= y THEN x ELSE y

(* At most nPage pages are copied.  Behind the last one, the destination   *)
(* is cut and committed, and the backup is over.                           *)
Step(b, nPage) ==
    /\ Live(b) /\ ~SourceIsWritten
    /\ Reads
    /\ \E B \in {Opened(Restarted)} :
          LET first == B[b].iNext
              last == Least(first + nPage - 1, Len(Snapshot))
              next == IF first <= last THEN last + 1 ELSE first
              copy == [p \in Pages |-> IF p \in first .. last THEN SourcePage(p) ELSE inDest[b][p]]
              done == next > Len(Snapshot)
          IN  /\ bk' = [B EXCEPT ![b] =
                           [rc |-> IF done THEN "done" ELSE "ok", iNext |-> next,
                            isAttached |-> B[b].isAttached \/ Attaches(done), bDestLocked |-> TRUE]]
              /\ inDest' = [inDest EXCEPT ![b] = copy]
              /\ dest' = IF done THEN [dest EXCEPT ![b] = SubSeq(copy, 1, Len(Snapshot))]
                         ELSE dest

(* An error, after which a call does nothing and the backup can only end. *)
StepFails(b) ==
    /\ setting.io
    /\ Live(b) /\ ~SourceIsWritten
    /\ Reads
    /\ bk' = [Opened(Restarted) EXCEPT ![b].rc = "error"]
    /\ UNCHANGED <<inDest, dest>>

(* What is not committed in the destination is rolled back. *)
BackupFinish(b) ==
    /\ bk[b].rc # "none"
    /\ Set(b, Closed)
    /\ inDest' = [inDest EXCEPT ![b] = Untouched]
    /\ UNCHANGED <<image, source, dest, writes, setting>>

-----------------------------------------------------------------------------
SourceStep ==
    \/ BeginRead \/ EndRead \/ BeginWrite \/ Truncate
    \/ \E p \in Pages : Write(p) \/ WriteOut(p)
    \/ Commit \/ Rollback \/ RollbackWal \/ PagerFails \/ ExternalCommit

BackupStep(b) ==
    \/ BackupInit(b) \/ StepBusy(b) \/ StepRefused(b) \/ StepFails(b) \/ BackupFinish(b)
    \/ \E nPage \in Pages : Step(b, nPage)

Next == SourceStep \/ \E b \in Backups : BackupStep(b)

Spec == Init /\ [][Next]_vars

(* Write transactions end, and the application calls sqlite3_backup_step,  *)
(* for a page at a time, until it is done: it meets the source again and   *)
(* again when it is not being written, and locked by nobody.               *)
Fairness ==
    /\ WF_vars(Commit)
    /\ \A b \in Backups : SF_vars(Step(b, 1))

FairSpec == Spec /\ Fairness

-----------------------------------------------------------------------------
Content == Seq(0 .. setting.writes)

TypeOK ==
    /\ image \in Content /\ Len(image) \in Pages /\ basis \in Content /\ work \in Content
    /\ trans \in {"none", "read", "write"}
    /\ dirty \subseteq 1 .. Len(work) /\ out \subseteq Pages
    /\ \A b \in Backups :
          /\ bk[b].rc \in {"none", "ok", "busy", "done", "error"}
          /\ bk[b].iNext \in 1 .. MaxPage + 1
          /\ bk[b].isAttached => bk[b].bDestLocked
          /\ Live(b) /\ bk[b].iNext > 1 => bk[b].isAttached
          /\ inDest[b] \in [Pages -> 0 .. setting.writes] /\ dest[b] \in Content

(* What a backup has copied is what the source's pager would read now, but *)
(* for pages that are changed and not written out: whatever was written,   *)
(* rolled back or changed by others since, and in whatever order.          *)
CopiedPagesAreCurrent ==
    LET now == IF trans = "write" THEN work ELSE basis
    IN  \A b \in Backups : Live(b) =>
            \A p \in 1 .. Least(bk[b].iNext - 1, Len(now)) :
                p \notin dirty => inDest[b][p] = now[p]

(* The destination changes as a whole, into an image that the source had   *)
(* between two transactions: no half of one, nothing that was rolled back, *)
(* no mixture of pages from before and after.                              *)
BackupIsASnapshot ==
    [][\A b \in Backups : dest'[b] # dest[b] => trans # "write" /\ dest'[b] = basis']_vars

(* A backup is started again only for a change: one that copies a page per *)
(* call, each in a read transaction of its own, comes to its end once the  *)
(* source is left alone.                                                   *)
BackupEnds == \A b \in Backups : Live(b) ~> ~Live(b)
=============================================================================
