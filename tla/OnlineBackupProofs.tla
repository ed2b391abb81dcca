------------------------- MODULE OnlineBackupProofs -------------------------
(***************************************************************************)
(* What is proved of OnlineBackup, for any number of backups, pages and    *)
(* writes and any settings: types, that what is copied stays what the      *)
(* source's pager would read, and that a destination only ever becomes an  *)
(* image of the source.  That a backup ends is liveness and left to TLC.   *)
(***************************************************************************)
EXTENDS OnlineBackup, SequenceTheorems, TLAPS

Backup == [rc : {"none", "ok", "busy", "done", "error"}, iNext : Nat,
           isAttached : BOOLEAN, bDestLocked : BOOLEAN]

(* Functions and sequences have their domains, and only a write            *)
(* transaction has pages of its own.                                       *)
Shape ==
    /\ setting \in Settings /\ writes \in 0 .. setting.writes
    /\ bk \in [Backups -> Backup]
    /\ inDest \in [Backups -> [Pages -> 0 .. setting.writes]]
    /\ dest \in [Backups -> Content]
    /\ Len(basis) \in Pages
    /\ trans = "write" => Len(work) \in Pages
    /\ trans # "write" => dirty = {} /\ out = {} /\ work = <<>>

(* A page that the transaction has not written out is in the copies as it  *)
(* was before: this is what a roll-back, which tells the backups only of   *)
(* the pages it restores, relies on.                                       *)
CopiesOfUnwrittenAreOld ==
    trans = "write" =>
        \A b \in Backups : Live(b) =>
            \A p \in 1 .. Least(bk[b].iNext - 1, Len(basis)) :
                p \notin out => inDest[b][p] = basis[p]

IInv ==
    /\ TypeOK
    /\ Shape
    /\ CopiedPagesAreCurrent
    /\ CopiesOfUnwrittenAreOld

(* The two halves of TypeOK: the source, and each backup.                  *)
SourceTypes ==
    /\ image \in Content /\ Len(image) \in Pages /\ basis \in Content /\ work \in Content
    /\ trans \in {"none", "read", "write"}
    /\ dirty \subseteq 1 .. Len(work) /\ out \subseteq Pages

BackupTypes(b) ==
    /\ bk[b].rc \in {"none", "ok", "busy", "done", "error"}
    /\ bk[b].iNext \in 1 .. MaxPage + 1
    /\ bk[b].isAttached => bk[b].bDestLocked
    /\ Live(b) /\ bk[b].iNext > 1 => bk[b].isAttached
    /\ inDest[b] \in [Pages -> 0 .. setting.writes] /\ dest[b] \in Content

LEMMA TypeHalves == TypeOK <=> SourceTypes /\ \A b \in Backups : BackupTypes(b)
  BY DEF TypeOK, SourceTypes, BackupTypes

(* A backup that goes on as it was, starts again or comes to a halt, keeps *)
(* its types.                                                              *)
LEMMA KeptBackupTypes ==
  ASSUME NEW b \in Backups, BackupTypes(b), Shape', UNCHANGED setting,
         bk'[b].iNext \in {1, bk[b].iNext},
         bk'[b].isAttached = bk[b].isAttached, bk'[b].bDestLocked = bk[b].bDestLocked,
         Live(b)' => Live(b)
  PROVE  BackupTypes(b)'
  <1>1. bk'[b] \in Backup /\ inDest'[b] \in [Pages -> 0 .. setting.writes] /\ dest'[b] \in Content
    BY DEF Shape, Content
  <1> QED BY <1>1, OnlineBackupAssumption DEF BackupTypes, Backup, Content

-----------------------------------------------------------------------------
(* Sequences of pages: a page that is changed or added, a last one that is *)
(* cut off.                                                                *)
LEMMA GrownPages ==
  ASSUME NEW s \in Content, NEW p \in Nat \ {0}, p <= Len(s) + 1, MayWrite, Shape
  PROVE  /\ Grown(s, p) \in Content
         /\ Len(Grown(s, p)) = IF p <= Len(s) THEN Len(s) ELSE Len(s) + 1
         /\ \A q \in 1 .. Len(s) : q # p => Grown(s, p)[q] = s[q]
  <1>1. writes + 1 \in 0 .. setting.writes
    BY OnlineBackupAssumption DEF Shape, MayWrite
  <1>2. CASE p <= Len(s)
    BY <1>1, <1>2, ExceptSeq DEF Grown, Content
  <1>3. CASE p = Len(s) + 1
    <2>1. Grown(s, p) = Append(s, writes + 1)
      BY <1>3 DEF Grown, Content
    <2> QED BY <2>1, <1>1, <1>3 DEF Content
  <1> QED BY <1>2, <1>3 DEF Content

LEMMA CutPages ==
  ASSUME NEW s \in Content, Len(s) > 1, MayWrite, Shape
  PROVE  /\ Cut(s) \in Content
         /\ Len(Cut(s)) = Len(s) - 1
         /\ \A q \in 2 .. Len(s) - 1 : Cut(s)[q] = s[q]
  <1> DEFINE t == [s EXCEPT ![1] = writes + 1]
  <1>1. writes + 1 \in 0 .. setting.writes
    BY OnlineBackupAssumption DEF Shape, MayWrite
  <1>2. /\ t \in Content /\ Len(t) = Len(s)
        /\ \A q \in 2 .. Len(s) : t[q] = s[q]
    BY <1>1, ExceptSeq DEF Content
  <1> HIDE DEF t
  <1>3. \A q \in 1 .. Len(s) - 1 : t[q] \in 0 .. setting.writes
    <2>1. \A q \in 1 .. Len(t) : t[q] \in 0 .. setting.writes
      BY <1>2, ElementOfSeq DEF Content
    <2> QED BY <1>2, <2>1 DEF Content
  <1>4. /\ SubSeq(t, 1, Len(s) - 1) \in Content
        /\ Len(SubSeq(t, 1, Len(s) - 1)) = Len(s) - 1
        /\ \A q \in 1 .. Len(s) - 1 : SubSeq(t, 1, Len(s) - 1)[q] = t[q]
    BY <1>3, SubSeqProperties DEF Content
  <1> QED BY <1>2, <1>4 DEF Cut, t, Content

(* What is told of a page reaches the copies that have it, and ends the    *)
(* backups where it fails.                                                 *)
LEMMA UpdateEffect ==
  ASSUME Shape, NEW f, BackupUpdate(f), UNCHANGED setting,
         \A p \in DOMAIN f \cap Pages : f[p] \in 0 .. setting.writes
  PROVE  /\ bk' \in [Backups -> Backup]
         /\ inDest' \in [Backups -> [Pages -> 0 .. setting.writes]]
         /\ \A b \in Backups :
               /\ bk'[b].rc \in {bk[b].rc, "error"}
               /\ bk'[b].iNext = bk[b].iNext
               /\ bk'[b].isAttached = bk[b].isAttached
               /\ bk'[b].bDestLocked = bk[b].bDestLocked
               /\ \A p \in Pages : inDest'[b][p] =
                     IF p \in DOMAIN f /\ HasCopied(b, p) THEN f[p] ELSE inDest[b][p]
  <1>1. PICK F : bk' = [b \in Backups |-> [bk[b] EXCEPT !.rc = IF b \in F THEN "error" ELSE @]]
    BY DEF BackupUpdate
  <1>2. \A b \in Backups : bk[b] \in Backup
    BY DEF Shape
  <1>3. \A b \in Backups : [bk[b] EXCEPT !.rc = IF b \in F THEN "error" ELSE @] \in Backup
    BY <1>2 DEF Backup
  <1>4. bk' \in [Backups -> Backup]
    BY <1>1, <1>3
  <1>5. \A b \in Backups : /\ bk'[b].rc \in {bk[b].rc, "error"}
                           /\ bk'[b].iNext = bk[b].iNext
                           /\ bk'[b].isAttached = bk[b].isAttached
                           /\ bk'[b].bDestLocked = bk[b].bDestLocked
    BY <1>1, <1>2 DEF Backup
  <1>6. \A b \in Backups : \A p \in Pages : inDest'[b][p] =
           IF p \in DOMAIN f /\ HasCopied(b, p) THEN f[p] ELSE inDest[b][p]
    BY DEF BackupUpdate
  <1>7. inDest' \in [Backups -> [Pages -> 0 .. setting.writes]]
    BY DEF BackupUpdate, Shape
  <1> QED BY <1>4, <1>5, <1>6, <1>7

LEMMA RestartEffect ==
  ASSUME Shape
  PROVE  /\ Restarted \in [Backups -> Backup]
         /\ \A b \in Backups :
               /\ Restarted[b].rc = bk[b].rc
               /\ Restarted[b].iNext = IF bk[b].isAttached THEN 1 ELSE bk[b].iNext
               /\ Restarted[b].isAttached = bk[b].isAttached
               /\ Restarted[b].bDestLocked = bk[b].bDestLocked
  BY DEF Shape, Restarted, Backup

(* A read transaction finds the pager's cache up to date, or empties it    *)
(* and has all attached backups start again.                               *)
LEMMA OpenedEffect ==
  ASSUME TypeOK, Shape
  PROVE  /\ Opened(Restarted) \in [Backups -> Backup]
         /\ \A b \in Backups :
               /\ Opened(Restarted)[b].rc = bk[b].rc
               /\ Opened(Restarted)[b].iNext \in {1, bk[b].iNext}
               /\ Opened(Restarted)[b].isAttached = bk[b].isAttached
               /\ Opened(Restarted)[b].bDestLocked = bk[b].bDestLocked
               /\ Live(b) /\ Snapshot # basis => Opened(Restarted)[b].iNext = 1
         /\ Snapshot \in Content /\ Len(Snapshot) \in Pages
         /\ trans # "none" => Snapshot = basis
  <1>1. bk \in [Backups -> Backup] /\ \A b \in Backups : bk[b].iNext \in 1 .. MaxPage + 1
    BY DEF Shape, TypeOK
  <1>2. \A b \in Backups : Live(b) /\ ~bk[b].isAttached => bk[b].iNext = 1
    BY <1>1, OnlineBackupAssumption DEF TypeOK, Backup
  <1>3. Snapshot \in Content /\ Len(Snapshot) \in Pages /\ (trans # "none" => Snapshot = basis)
    BY DEF Snapshot, Shape, TypeOK
  <1>4. Snapshot # basis => Opened(Restarted) = Restarted
    BY DEF Snapshot, Opened, HasChanged
  <1>5. Opened(Restarted) \in {bk, Restarted}
    BY DEF Opened
  <1> HIDE DEF Opened, Restarted
  <1> QED BY <1>1, <1>2, <1>3, <1>4, <1>5, RestartEffect

-----------------------------------------------------------------------------
(* The steps of the source.                                                *)
LEMMA InitIInv == Init => IInv
  <1> SUFFICES ASSUME Init PROVE IInv
    OBVIOUS
  <1>1. setting.size \in Pages /\ setting.writes \in Nat /\ setting \in Settings
    BY OnlineBackupAssumption DEF Init, Pages
  <1>2. image \in Content /\ Len(image) = setting.size
    BY <1>1, OnlineBackupAssumption DEF Init, Content, Pages
  <1>3. <<>> \in Content /\ Len(<<>>) = 0
    BY EmptySeq DEF Content
  <1>4. bk \in [Backups -> Backup] /\ \A b \in Backups : ~Live(b) /\ bk[b] = Closed
    BY DEF Init, Closed, Live, Backup
  <1>a. Untouched \in [Pages -> 0 .. setting.writes]
    BY <1>1 DEF Untouched, OldPage
  <1>b. inDest \in [Backups -> [Pages -> 0 .. setting.writes]] /\ dest \in [Backups -> Content]
    BY <1>3, <1>a DEF Init, OldContent
  <1>c. writes \in 0 .. setting.writes /\ Len(basis) \in Pages
    <2>1. writes = 0 /\ basis = image
      BY DEF Init
    <2> QED BY <2>1, <1>1, <1>2
  <1>d. trans = "none" /\ dirty = {} /\ out = {} /\ work = <<>>
    BY DEF Init
  <1>5. Shape
    BY <1>1, <1>4, <1>b, <1>c, <1>d DEF Shape
  <1>6. TypeOK
    BY <1>1, <1>2, <1>3, <1>4, OnlineBackupAssumption
       DEF Init, TypeOK, Closed, Untouched, OldPage, OldContent, Pages
  <1> QED BY <1>4, <1>5, <1>6 DEF Init, IInv, CopiedPagesAreCurrent, CopiesOfUnwrittenAreOld

LEMMA BeginReadIInv ==
  ASSUME IInv, BeginRead
  PROVE  IInv'
  <1>0. TypeOK /\ Shape /\ CopiedPagesAreCurrent /\ trans = "none" /\ trans' = "read"
        /\ basis' = Snapshot /\ bk' = Opened(Restarted)
        /\ UNCHANGED <<image, work, dirty, out, inDest, dest, writes, setting>>
    BY DEF IInv, BeginRead
  <1>1. Shape'
    BY <1>0, OpenedEffect DEF Shape, Content
  <1>2. TypeOK'
    <2>1. \A b \in Backups : BackupTypes(b)'
      BY <1>0, <1>1, TypeHalves, KeptBackupTypes, OpenedEffect DEF Live
    <2>2. SourceTypes'
      BY <1>0, <1>1, TypeHalves, OpenedEffect DEF SourceTypes, Content
    <2> QED BY <2>1, <2>2 DEF TypeOK, SourceTypes, BackupTypes
  <1>3. ASSUME NEW b \in Backups, Live(b)',
               NEW q \in 1 .. Least(bk'[b].iNext - 1, Len(basis'))
        PROVE  inDest'[b][q] = basis'[q]
    <2>1. Live(b) /\ bk'[b].iNext # 1
      BY <1>0, <1>3, OpenedEffect DEF Live, Least
    <2>2. Snapshot = basis /\ bk'[b].iNext = bk[b].iNext
      BY <1>0, <2>1, OpenedEffect
    <2> QED BY <1>0, <2>1, <2>2, <1>3 DEF CopiedPagesAreCurrent, Shape
  <1>4. CopiedPagesAreCurrent' /\ CopiesOfUnwrittenAreOld'
    BY <1>0, <1>3 DEF CopiedPagesAreCurrent, CopiesOfUnwrittenAreOld
  <1> QED BY <1>1, <1>2, <1>4 DEF IInv

LEMMA EndReadIInv ==
  ASSUME IInv, EndRead
  PROVE  IInv'
  BY DEF IInv, EndRead, TypeOK, Shape, CopiedPagesAreCurrent, CopiesOfUnwrittenAreOld, Live, Content

LEMMA BeginWriteIInv ==
  ASSUME IInv, BeginWrite
  PROVE  IInv'
  <1>0. TypeOK /\ Shape /\ CopiedPagesAreCurrent /\ trans = "read" /\ trans' = "write"
        /\ work' = basis /\ dirty' = {} /\ out' = {}
        /\ UNCHANGED <<image, basis, bk, inDest, dest, writes, setting>>
    BY DEF IInv, BeginWrite, Shape
  <1>1. Shape'
    BY <1>0 DEF Shape, Content
  <1>2. TypeOK'
    BY <1>0 DEF TypeOK, Live, Content
  <1>3. CopiedPagesAreCurrent' /\ CopiesOfUnwrittenAreOld'
    BY <1>0 DEF Shape, CopiedPagesAreCurrent, CopiesOfUnwrittenAreOld, Live
  <1> QED BY <1>1, <1>2, <1>3 DEF IInv

LEMMA WriteIInv ==
  ASSUME IInv, NEW p \in Pages, Write(p)
  PROVE  IInv'
  <1>0. TypeOK /\ Shape /\ CopiedPagesAreCurrent /\ CopiesOfUnwrittenAreOld
        /\ trans = "write" /\ MayWrite /\ p <= Len(work) + 1
        /\ work' = Grown(work, p) /\ dirty' = dirty \cup {p}
        /\ UNCHANGED <<image, basis, trans, out, bk, inDest, dest, setting>>
    BY DEF IInv, Write
  <1>1. /\ work' \in Content
        /\ Len(work') = IF p <= Len(work) THEN Len(work) ELSE Len(work) + 1
        /\ \A q \in 1 .. Len(work) : q # p => work'[q] = work[q]
    BY <1>0, GrownPages DEF TypeOK, Pages
  <1>2. Len(work') \in Pages /\ Len(work) \in Nat
    BY <1>0, <1>1, OnlineBackupAssumption DEF Shape, Pages
  <1>3. writes' \in 0 .. setting.writes
    BY <1>0, OnlineBackupAssumption DEF Shape, MayWrite
  <1>4. Shape'
    BY <1>0, <1>1, <1>2, <1>3 DEF Shape, Content
  <1>5. TypeOK'
    BY <1>0, <1>1, <1>2 DEF TypeOK, Live, Content, Pages
  <1>6. ASSUME NEW b \in Backups, Live(b), NEW q \in 1 .. Least(bk[b].iNext - 1, Len(work')),
               q \notin dirty'
        PROVE  inDest[b][q] = work'[q]
    <2>1. q # p /\ q \in 1 .. Len(work) /\ q <= bk[b].iNext - 1 /\ q \notin dirty
      BY <1>0, <1>1, <1>2, <1>6 DEF Least, Shape, Backup, Pages
    <2>2. q \in 1 .. Least(bk[b].iNext - 1, Len(work))
      BY <2>1, <1>2 DEF Least
    <2> QED BY <1>0, <1>1, <2>1, <2>2, <1>6 DEF CopiedPagesAreCurrent
  <1>7. CopiedPagesAreCurrent'
    BY <1>0, <1>6 DEF CopiedPagesAreCurrent, Live
  <1>8. CopiesOfUnwrittenAreOld'
    BY <1>0 DEF CopiesOfUnwrittenAreOld, Live
  <1> QED BY <1>4, <1>5, <1>7, <1>8 DEF IInv

LEMMA TruncateIInv ==
  ASSUME IInv, Truncate
  PROVE  IInv'
  <1>0. TypeOK /\ Shape /\ CopiedPagesAreCurrent /\ CopiesOfUnwrittenAreOld
        /\ trans = "write" /\ MayWrite /\ Len(work) > 1
        /\ work' = Cut(work) /\ dirty' = (dirty \cup {1}) \ {Len(work)}
        /\ UNCHANGED <<image, basis, trans, out, bk, inDest, dest, setting>>
    BY DEF IInv, Truncate
  <1>1. /\ work' \in Content
        /\ Len(work') = Len(work) - 1
        /\ \A q \in 2 .. Len(work) - 1 : work'[q] = work[q]
    BY <1>0, CutPages DEF TypeOK
  <1>2. Len(work) \in Pages /\ Len(work') \in Pages
    BY <1>0, <1>1, OnlineBackupAssumption DEF Shape, Pages
  <1>3. writes' \in 0 .. setting.writes
    BY <1>0, OnlineBackupAssumption DEF Shape, MayWrite
  <1>4. Shape'
    BY <1>0, <1>1, <1>2, <1>3 DEF Shape, Content
  <1>5. TypeOK'
    <2>1. \A b \in Backups : BackupTypes(b)'
      BY <1>0, TypeHalves DEF BackupTypes, Live, Content
    <2>2. dirty' \subseteq 1 .. Len(work')
      <3> SUFFICES ASSUME NEW q \in dirty' PROVE q \in 1 .. Len(work) - 1
        BY <1>1
      <3>1. (q \in 1 .. Len(work) \/ q = 1) /\ q # Len(work)
        BY <1>0 DEF TypeOK
      <3> QED BY <3>1, <1>0, <1>2 DEF Pages
    <2>3. SourceTypes'
      BY <1>0, <1>1, <2>2, TypeHalves DEF SourceTypes, Content
    <2> QED BY <2>1, <2>3 DEF TypeOK, SourceTypes, BackupTypes
  <1>6. ASSUME NEW b \in Backups, Live(b), NEW q \in 1 .. Least(bk[b].iNext - 1, Len(work')),
               q \notin dirty'
        PROVE  inDest[b][q] = work'[q]
    <2>1. q \in 2 .. Len(work) - 1 /\ q <= bk[b].iNext - 1 /\ q \notin dirty
      BY <1>0, <1>1, <1>2, <1>6 DEF Least, Shape, Backup, Pages
    <2>2. q \in 1 .. Least(bk[b].iNext - 1, Len(work))
      BY <2>1, <1>2 DEF Least, Pages
    <2> QED BY <1>0, <1>1, <2>1, <2>2, <1>6 DEF CopiedPagesAreCurrent
  <1>7. CopiedPagesAreCurrent'
    BY <1>0, <1>6 DEF CopiedPagesAreCurrent, Live
  <1>8. CopiesOfUnwrittenAreOld'
    BY <1>0 DEF CopiesOfUnwrittenAreOld, Live
  <1> QED BY <1>4, <1>5, <1>7, <1>8 DEF IInv

(* A live backup's copy of a page that is written out is the page.         *)
LEMMA ToldCopies ==
  ASSUME TypeOK, Shape, NEW f, BackupUpdate(f), UNCHANGED setting,
         \A p \in DOMAIN f \cap Pages : f[p] \in 0 .. setting.writes,
         NEW b \in Backups, Live(b)', NEW q \in Pages, q < bk'[b].iNext
  PROVE  /\ Live(b) /\ q < bk[b].iNext
         /\ inDest'[b][q] = IF q \in DOMAIN f THEN f[q] ELSE inDest[b][q]
  <1>1. Live(b) /\ bk'[b].iNext = bk[b].iNext
    BY UpdateEffect DEF Live
  <1>2. bk[b].isAttached
    BY <1>1, OnlineBackupAssumption DEF TypeOK, Pages
  <1>3. HasCopied(b, q)
    BY <1>1, <1>2 DEF HasCopied
  <1> QED BY <1>1, <1>3, UpdateEffect

LEMMA UpdatedTypes ==
  ASSUME TypeOK, Shape, NEW f, BackupUpdate(f), UNCHANGED <<setting, dest>>,
         \A p \in DOMAIN f \cap Pages : f[p] \in 0 .. setting.writes
  PROVE  \A b \in Backups : BackupTypes(b)'
  <1> TAKE b \in Backups
  <1>1. /\ bk' \in [Backups -> Backup] /\ inDest' \in [Backups -> [Pages -> 0 .. setting.writes]]
        /\ Live(b)' => Live(b)
        /\ bk'[b].rc \in {bk[b].rc, "error"} /\ bk'[b].iNext = bk[b].iNext
        /\ bk'[b].isAttached = bk[b].isAttached /\ bk'[b].bDestLocked = bk[b].bDestLocked
    BY UpdateEffect DEF Live
  <1>2. BackupTypes(b)
    BY TypeHalves
  <1> QED BY <1>1, <1>2 DEF BackupTypes, Content, Live

LEMMA WriteOutIInv ==
  ASSUME IInv, NEW p \in Pages, WriteOut(p)
  PROVE  IInv'
  <1> DEFINE f == [q \in {p} |-> work[p]]
  <1>0. TypeOK /\ Shape /\ CopiedPagesAreCurrent /\ CopiesOfUnwrittenAreOld
        /\ trans = "write" /\ p \in dirty
        /\ dirty' = dirty \ {p} /\ out' = out \cup {p}
        /\ BackupUpdate(f)
        /\ UNCHANGED <<image, basis, trans, work, dest, writes, setting>>
    BY DEF IInv, WriteOut
  <1>1. work[p] \in 0 .. setting.writes /\ Len(work) \in Pages
    BY <1>0, ElementOfSeq DEF TypeOK, Shape, Content
  <1>2. DOMAIN f = {p} /\ f[p] = work[p]
    OBVIOUS
  <1> HIDE DEF f
  <1>3. Shape'
    BY <1>0, <1>1, <1>2, UpdateEffect DEF Shape, Content
  <1>4. TypeOK'
    <2>1. \A b \in Backups : BackupTypes(b)'
      BY <1>0, <1>1, <1>2, UpdatedTypes
    <2>2. SourceTypes'
      BY <1>0, TypeHalves DEF SourceTypes, Content
    <2> QED BY <2>1, <2>2 DEF TypeOK, SourceTypes, BackupTypes
  <1>5. ASSUME NEW b \in Backups, Live(b)', NEW q \in Pages, q < bk'[b].iNext
        PROVE  /\ Live(b) /\ q < bk[b].iNext
               /\ inDest'[b][q] = IF q = p THEN work[p] ELSE inDest[b][q]
    BY <1>0, <1>1, <1>2, <1>5, ToldCopies
  <1>6. \A b \in Backups : bk[b].iNext \in Nat /\ bk'[b].iNext \in Nat
    BY <1>0, <1>3 DEF Shape, Backup
  <1>7. Len(basis) \in Pages
    BY <1>0 DEF Shape
  <1>8. ASSUME NEW b \in Backups, Live(b)',
               NEW q \in 1 .. Least(bk'[b].iNext - 1, Len(work)), q \notin dirty'
        PROVE  inDest'[b][q] = work[q]
    <2>1. q \in Pages /\ q <= Len(work) /\ q < bk'[b].iNext
      BY <1>1, <1>6, <1>8, OnlineBackupAssumption DEF Least, Pages
    <2>2. CASE q = p
      BY <1>5, <1>8, <2>1, <2>2
    <2>3. CASE q # p
      <3>1. q \notin dirty /\ q \in 1 .. Least(bk[b].iNext - 1, Len(work)) /\ Live(b)
        BY <1>0, <1>1, <1>5, <1>6, <1>8, <2>1, <2>3 DEF Least, Pages
      <3> QED BY <1>0, <1>5, <1>8, <2>1, <2>3, <3>1 DEF CopiedPagesAreCurrent
    <2> QED BY <2>2, <2>3
  <1>9. ASSUME NEW b \in Backups, Live(b)',
               NEW q \in 1 .. Least(bk'[b].iNext - 1, Len(basis)), q \notin out'
        PROVE  inDest'[b][q] = basis[q]
    <2>1. q \in Pages /\ q <= Len(basis) /\ q < bk'[b].iNext /\ q # p /\ q \notin out
      BY <1>0, <1>7, <1>6, <1>9, OnlineBackupAssumption DEF Least, Pages
    <2>2. q \in 1 .. Least(bk[b].iNext - 1, Len(basis)) /\ Live(b)
      BY <1>5, <1>6, <1>7, <1>9, <2>1 DEF Least, Pages
    <2> QED BY <1>0, <1>5, <1>9, <2>1, <2>2 DEF CopiesOfUnwrittenAreOld
  <1>10. CopiedPagesAreCurrent' /\ CopiesOfUnwrittenAreOld'
    BY <1>0, <1>8, <1>9 DEF CopiedPagesAreCurrent, CopiesOfUnwrittenAreOld
  <1> QED BY <1>3, <1>4, <1>10 DEF IInv

LEMMA CommitIInv ==
  ASSUME IInv, Commit
  PROVE  IInv'
  <1> DEFINE f == [p \in dirty |-> work[p]]
  <1>0. TypeOK /\ Shape /\ CopiedPagesAreCurrent
        /\ trans = "write" /\ trans' = "read"
        /\ image' = work /\ basis' = work /\ work' = <<>> /\ dirty' = {} /\ out' = {}
        /\ BackupUpdate(f)
        /\ UNCHANGED <<dest, writes, setting>>
    BY DEF IInv, Commit, EndWrite
  <1>1. /\ Len(work) \in Pages
        /\ \A p \in dirty : work[p] \in 0 .. setting.writes
    BY <1>0, ElementOfSeq DEF TypeOK, Shape, Content
  <1>2. DOMAIN f = dirty /\ \A p \in dirty : f[p] = work[p]
    OBVIOUS
  <1> HIDE DEF f
  <1>3. Shape'
    BY <1>0, <1>1, <1>2, UpdateEffect DEF Shape, Content
  <1>4. TypeOK'
    <2>1. \A b \in Backups : BackupTypes(b)'
      BY <1>0, <1>1, <1>2, UpdatedTypes
    <2>2. SourceTypes'
      BY <1>0, <1>1, TypeHalves, EmptySeq DEF SourceTypes, Content
    <2> QED BY <2>1, <2>2 DEF TypeOK, SourceTypes, BackupTypes
  <1>5. ASSUME NEW b \in Backups, Live(b)', NEW q \in 1 .. Least(bk'[b].iNext - 1, Len(work))
        PROVE  inDest'[b][q] = work[q]
    <2>1. bk[b].iNext \in Nat /\ bk'[b].iNext \in Nat
      BY <1>0, <1>3 DEF Shape, Backup
    <2>2. q \in Pages /\ q <= Len(work) /\ q < bk'[b].iNext
      BY <1>1, <1>5, <2>1, OnlineBackupAssumption DEF Least, Pages
    <2>3. /\ Live(b) /\ q < bk[b].iNext
          /\ inDest'[b][q] = IF q \in dirty THEN work[q] ELSE inDest[b][q]
      BY <1>0, <1>1, <1>2, <1>5, <2>2, ToldCopies
    <2>4. q \in 1 .. Least(bk[b].iNext - 1, Len(work))
      BY <1>1, <1>5, <2>1, <2>2, <2>3 DEF Least, Pages
    <2> QED BY <1>0, <2>3, <2>4 DEF CopiedPagesAreCurrent
  <1>6. CopiedPagesAreCurrent' /\ CopiesOfUnwrittenAreOld'
    BY <1>0, <1>5 DEF CopiedPagesAreCurrent, CopiesOfUnwrittenAreOld
  <1> QED BY <1>3, <1>4, <1>6 DEF IInv

LEMMA RollbackIInv ==
  ASSUME IInv, Rollback
  PROVE  IInv'
  <1> DEFINE f == [p \in out \cap 1 .. Len(basis) |-> basis[p]]
  <1>0. TypeOK /\ Shape /\ CopiesOfUnwrittenAreOld
        /\ trans = "write" /\ trans' = "read"
        /\ work' = <<>> /\ dirty' = {} /\ out' = {}
        /\ BackupUpdate(f)
        /\ UNCHANGED <<image, basis, dest, writes, setting>>
    BY DEF IInv, Rollback, EndWrite
  <1>1. /\ Len(basis) \in Pages
        /\ \A p \in out \cap 1 .. Len(basis) : basis[p] \in 0 .. setting.writes
    BY <1>0, ElementOfSeq DEF TypeOK, Shape, Content
  <1>2. DOMAIN f = out \cap 1 .. Len(basis) /\ \A p \in DOMAIN f : f[p] = basis[p]
    OBVIOUS
  <1> HIDE DEF f
  <1>3. Shape'
    BY <1>0, <1>1, <1>2, UpdateEffect DEF Shape, Content
  <1>4. TypeOK'
    <2>1. \A b \in Backups : BackupTypes(b)'
      BY <1>0, <1>1, <1>2, UpdatedTypes
    <2>2. SourceTypes'
      BY <1>0, <1>1, TypeHalves, EmptySeq DEF SourceTypes, Content
    <2> QED BY <2>1, <2>2 DEF TypeOK, SourceTypes, BackupTypes
  <1>5. ASSUME NEW b \in Backups, Live(b)', NEW q \in 1 .. Least(bk'[b].iNext - 1, Len(basis))
        PROVE  inDest'[b][q] = basis[q]
    <2>1. bk[b].iNext \in Nat /\ bk'[b].iNext \in Nat
      BY <1>0, <1>3 DEF Shape, Backup
    <2>2. q \in Pages /\ q \in 1 .. Len(basis) /\ q < bk'[b].iNext
      BY <1>1, <1>5, <2>1, OnlineBackupAssumption DEF Least, Pages
    <2>3. /\ Live(b) /\ q < bk[b].iNext
          /\ inDest'[b][q] = IF q \in out THEN basis[q] ELSE inDest[b][q]
      BY <1>0, <1>1, <1>2, <1>5, <2>2, ToldCopies
    <2>4. q \in 1 .. Least(bk[b].iNext - 1, Len(basis))
      BY <1>1, <1>5, <2>1, <2>2, <2>3 DEF Least, Pages
    <2> QED BY <1>0, <2>3, <2>4 DEF CopiesOfUnwrittenAreOld
  <1>6. CopiedPagesAreCurrent' /\ CopiesOfUnwrittenAreOld'
    BY <1>0, <1>5 DEF CopiedPagesAreCurrent, CopiesOfUnwrittenAreOld
  <1> QED BY <1>3, <1>4, <1>6 DEF IInv

(* What the end of a transaction leaves when all attached backups start    *)
(* again: nothing is copied.                                               *)
LEMMA AllStartAgain ==
  ASSUME IInv, BackupRestart, UNCHANGED <<image, basis, dest, writes, setting>>,
         trans' \in {"none", "read"}, work' = <<>>, dirty' = {}, out' = {}
  PROVE  IInv'
  <1>0. TypeOK /\ Shape /\ bk' = Restarted /\ inDest' = inDest
    BY DEF IInv, BackupRestart
  <1>1. Shape'
    BY <1>0, RestartEffect DEF Shape, Content
  <1>2. ASSUME NEW b \in Backups
        PROVE  BackupTypes(b)' /\ (Live(b)' => bk'[b].iNext = 1)
    <2>1. BackupTypes(b) /\ bk[b] \in Backup
      BY <1>0, TypeHalves DEF Shape
    <2>2. /\ bk'[b].rc = bk[b].rc
          /\ bk'[b].iNext = IF bk[b].isAttached THEN 1 ELSE bk[b].iNext
          /\ bk'[b].isAttached = bk[b].isAttached
          /\ bk'[b].bDestLocked = bk[b].bDestLocked
      BY <1>0, RestartEffect
    <2>3. BackupTypes(b)'
      BY <1>1, <2>1, <2>2, KeptBackupTypes DEF Live
    <2> QED BY <2>1, <2>2, <2>3 DEF BackupTypes, Live
  <1>3. SourceTypes'
    BY <1>0, TypeHalves, EmptySeq DEF SourceTypes, Content
  <1>4. TypeOK'
    BY <1>2, <1>3 DEF TypeOK, SourceTypes, BackupTypes
  <1>5. \A b \in Backups : Live(b)' => 1 .. Least(bk'[b].iNext - 1, Len(basis)) = {}
    BY <1>0, <1>2, OnlineBackupAssumption DEF Least, Shape, Pages
  <1>6. CopiedPagesAreCurrent' /\ CopiesOfUnwrittenAreOld'
    BY <1>5 DEF CopiedPagesAreCurrent, CopiesOfUnwrittenAreOld
  <1> QED BY <1>1, <1>4, <1>6 DEF IInv

LEMMA RollbackWalIInv ==
  ASSUME IInv, RollbackWal
  PROVE  IInv'
  <1>1. CASE out \cup dirty # {}
    BY <1>1, AllStartAgain DEF RollbackWal, EndWrite
  <1>2. CASE out \cup dirty = {}
    <2>0. TypeOK /\ Shape /\ CopiesOfUnwrittenAreOld /\ out = {}
          /\ trans = "write" /\ trans' = "read"
          /\ work' = <<>> /\ dirty' = {} /\ out' = {}
          /\ UNCHANGED <<image, basis, bk, inDest, dest, writes, setting>>
      BY <1>2 DEF IInv, RollbackWal, EndWrite
    <2>1. Shape'
      BY <2>0 DEF Shape, Content
    <2>2. TypeOK'
      BY <2>0, EmptySeq DEF TypeOK, Live, Content
    <2>3. CopiedPagesAreCurrent' /\ CopiesOfUnwrittenAreOld'
      BY <2>0 DEF CopiedPagesAreCurrent, CopiesOfUnwrittenAreOld, Live
    <2> QED BY <2>1, <2>2, <2>3 DEF IInv
  <1> QED BY <1>1, <1>2

LEMMA PagerFailsIInv ==
  ASSUME IInv, PagerFails
  PROVE  IInv'
  BY AllStartAgain DEF PagerFails, EndWrite

LEMMA ExternalCommitIInv ==
  ASSUME IInv, ExternalCommit
  PROVE  IInv'
  <1>0. TypeOK /\ Shape /\ MayWrite
        /\ UNCHANGED <<basis, trans, work, dirty, out, bk, inDest, dest, setting>>
    BY DEF IInv, ExternalCommit, source
  <1>1. image \in Content /\ Len(image) \in Pages
    BY <1>0 DEF TypeOK
  <1>2. image' \in Content /\ Len(image') \in Pages
    <2>1. CASE \E p \in Pages : p <= Len(image) + 1 /\ image' = Grown(image, p)
      <3>1. PICK p \in Pages : p <= Len(image) + 1 /\ image' = Grown(image, p)
        BY <2>1
      <3> QED BY <3>1, <1>0, <1>1, GrownPages, OnlineBackupAssumption DEF Pages
    <2>2. CASE Len(image) > 1 /\ image' = Cut(image)
      BY <2>2, <1>0, <1>1, CutPages, OnlineBackupAssumption DEF Pages
    <2> QED BY <2>1, <2>2 DEF ExternalCommit
  <1>3. writes' \in 0 .. setting.writes
    BY <1>0, OnlineBackupAssumption DEF Shape, MayWrite
  <1>4. Shape'
    BY <1>0, <1>3 DEF Shape, Content
  <1>5. TypeOK'
    BY <1>0, <1>2 DEF TypeOK, Live, Content
  <1>6. CopiedPagesAreCurrent' /\ CopiesOfUnwrittenAreOld'
    BY <1>0 DEF IInv, CopiedPagesAreCurrent, CopiesOfUnwrittenAreOld, Live
  <1> QED BY <1>4, <1>5, <1>6 DEF IInv

-----------------------------------------------------------------------------
(* The calls of backup.c.                                                  *)
LEMMA BackupInitIInv ==
  ASSUME IInv, NEW b \in Backups, BackupInit(b)
  PROVE  IInv'
  <1>0. TypeOK /\ Shape
        /\ bk' = [bk EXCEPT ![b] = [Closed EXCEPT !.rc = "ok"]]
        /\ UNCHANGED <<image, basis, trans, work, dirty, out, inDest, dest, writes, setting>>
    BY DEF IInv, BackupInit, Set, source
  <1>1. /\ bk' \in [Backups -> Backup]
        /\ bk'[b].rc = "ok" /\ bk'[b].iNext = 1 /\ ~bk'[b].isAttached
        /\ \A c \in Backups \ {b} : bk'[c] = bk[c]
    BY <1>0 DEF Shape, Closed, Backup
  <1>2. Shape'
    BY <1>0, <1>1 DEF Shape, Content
  <1>3. \A c \in Backups : BackupTypes(c)'
    <2> TAKE c \in Backups
    <2>1. BackupTypes(c)
      BY <1>0, TypeHalves
    <2>2. CASE c = b
      BY <2>1, <2>2, <1>0, <1>1, OnlineBackupAssumption DEF BackupTypes, Live, Content
    <2>3. CASE c # b
      BY <2>1, <2>3, <1>0, <1>1 DEF BackupTypes, Live, Content
    <2> QED BY <2>2, <2>3
  <1>4. SourceTypes'
    BY <1>0, TypeHalves DEF SourceTypes, Content
  <1>5. TypeOK'
    BY <1>3, <1>4 DEF TypeOK, SourceTypes, BackupTypes
  <1>6. \A c \in Backups : c # b => Live(c)' = Live(c) /\ bk'[c].iNext = bk[c].iNext
    BY <1>1 DEF Live
  <1>7. \A n \in Nat : 1 .. Least(bk'[b].iNext - 1, n) = {}
    BY <1>1 DEF Least
  <1>8. Len(work) \in Nat /\ Len(basis) \in Nat
    BY <1>0 DEF TypeOK, Content
  <1>9. CopiedPagesAreCurrent'
    BY <1>0, <1>6, <1>7, <1>8 DEF IInv, CopiedPagesAreCurrent
  <1>10. CopiesOfUnwrittenAreOld'
    BY <1>0, <1>6, <1>7, <1>8 DEF IInv, CopiesOfUnwrittenAreOld
  <1> QED BY <1>2, <1>5, <1>9, <1>10 DEF IInv

(* A call that is refused before it reads anything.                        *)
LEMMA SetBusy ==
  ASSUME IInv, NEW b \in Backups, Live(b), Set(b, [bk[b] EXCEPT !.rc = "busy"]),
         UNCHANGED <<image, source, inDest, dest, writes, setting>>
  PROVE  IInv'
  <1>0. TypeOK /\ Shape /\ Live(b)
        /\ bk' = [bk EXCEPT ![b] = [bk[b] EXCEPT !.rc = "busy"]]
        /\ UNCHANGED <<image, basis, trans, work, dirty, out, inDest, dest, writes, setting>>
    BY DEF IInv, Set, source
  <1>1. /\ bk' \in [Backups -> Backup]
        /\ \A c \in Backups : /\ Live(c)' = Live(c) /\ bk'[c].iNext = bk[c].iNext
                              /\ bk'[c].isAttached = bk[c].isAttached
                              /\ bk'[c].bDestLocked = bk[c].bDestLocked
    <2>1. bk \in [Backups -> Backup] /\ bk[b] \in Backup
      BY <1>0 DEF Shape
    <2>2. /\ bk'[b] \in Backup /\ bk'[b].rc = "busy" /\ bk'[b].iNext = bk[b].iNext
          /\ bk'[b].isAttached = bk[b].isAttached /\ bk'[b].bDestLocked = bk[b].bDestLocked
      BY <1>0, <2>1 DEF Backup
    <2>3. bk' \in [Backups -> Backup] /\ \A c \in Backups : c # b => bk'[c] = bk[c]
      BY <1>0, <2>1, <2>2
    <2> QED BY <1>0, <2>2, <2>3 DEF Live
  <1>2. Shape'
    BY <1>0, <1>1 DEF Shape, Content
  <1>3. \A c \in Backups : BackupTypes(c)'
    BY <1>0, <1>1, <1>2, TypeHalves, KeptBackupTypes
  <1>4. SourceTypes'
    BY <1>0, TypeHalves DEF SourceTypes, Content
  <1>5. TypeOK'
    BY <1>3, <1>4 DEF TypeOK, SourceTypes, BackupTypes
  <1>6. CopiedPagesAreCurrent'
    BY <1>0, <1>1 DEF IInv, CopiedPagesAreCurrent
  <1>7. CopiesOfUnwrittenAreOld'
    BY <1>0, <1>1 DEF IInv, CopiesOfUnwrittenAreOld
  <1> QED BY <1>2, <1>5, <1>6, <1>7 DEF IInv

LEMMA StepBusyIInv ==
  ASSUME IInv, NEW b \in Backups, StepBusy(b)
  PROVE  IInv'
  BY SetBusy DEF StepBusy

(* What a live backup has copied before a read transaction is begun, and   *)
(* need not copy again after it, is in the snapshot of that transaction.   *)
LEMMA CopiesInSnapshot ==
  ASSUME IInv, trans # "write", NEW c \in Backups, Live(c),
         NEW q \in 1 .. Least(Opened(Restarted)[c].iNext - 1, Len(Snapshot))
  PROVE  inDest[c][q] = Snapshot[q]
  <1>0. TypeOK /\ Shape /\ CopiedPagesAreCurrent
    BY DEF IInv
  <1>1. Opened(Restarted)[c].iNext # 1
    BY DEF Least
  <1>2. Snapshot = basis /\ Opened(Restarted)[c].iNext = bk[c].iNext
    BY <1>0, <1>1, OpenedEffect
  <1> QED BY <1>0, <1>2 DEF CopiedPagesAreCurrent, Shape

(* A call that copies nothing: it may have begun a read transaction, and   *)
(* leaves the backup live or not.                                          *)
LEMMA NothingCopied ==
  ASSUME IInv, NEW b \in Backups, Live(b), ~SourceIsWritten, Reads,
         NEW r \in {"busy", "error"}, bk' = [Opened(Restarted) EXCEPT ![b].rc = r],
         UNCHANGED <<inDest, dest>>
  PROVE  IInv'
  <1>0. TypeOK /\ Shape /\ CopiedPagesAreCurrent /\ trans # "write" /\ basis' = Snapshot
        /\ UNCHANGED <<image, trans, work, dirty, out, writes, setting>>
    BY DEF IInv, Reads, SourceIsWritten
  <1>1. /\ bk' \in [Backups -> Backup]
        /\ \A c \in Backups : /\ bk'[c].iNext = Opened(Restarted)[c].iNext
                              /\ bk'[c].isAttached = Opened(Restarted)[c].isAttached
                              /\ bk'[c].bDestLocked = Opened(Restarted)[c].bDestLocked
                              /\ c # b => bk'[c].rc = Opened(Restarted)[c].rc
    <2>1. Opened(Restarted) \in [Backups -> Backup]
      BY <1>0, OpenedEffect
    <2> HIDE DEF Opened, Restarted
    <2> QED BY <2>1 DEF Backup
  <1>2. \A c \in Backups : Live(c)' => Live(c)
    BY <1>0, <1>1, OpenedEffect DEF Live
  <1>3. Shape'
    BY <1>0, <1>1, OpenedEffect DEF Shape, Content
  <1>4. \A c \in Backups : BackupTypes(c)'
    BY <1>0, <1>1, <1>2, <1>3, TypeHalves, KeptBackupTypes, OpenedEffect
  <1>5. SourceTypes'
    BY <1>0, TypeHalves, OpenedEffect DEF SourceTypes, Content
  <1>6. TypeOK'
    BY <1>4, <1>5 DEF TypeOK, SourceTypes, BackupTypes
  <1>7. ASSUME NEW c \in Backups, Live(c)',
               NEW q \in 1 .. Least(bk'[c].iNext - 1, Len(basis'))
        PROVE  inDest'[c][q] = basis'[q]
    BY <1>0, <1>1, <1>2, <1>7, CopiesInSnapshot
  <1>8. CopiedPagesAreCurrent' /\ CopiesOfUnwrittenAreOld'
    BY <1>0, <1>7 DEF CopiedPagesAreCurrent, CopiesOfUnwrittenAreOld
  <1> QED BY <1>3, <1>6, <1>8 DEF IInv

LEMMA StepRefusedIInv ==
  ASSUME IInv, NEW b \in Backups, StepRefused(b)
  PROVE  IInv'
  <1>1. CASE ~bk[b].bDestLocked /\ Reads /\ bk' = [Opened(Restarted) EXCEPT ![b].rc = "busy"]
    BY <1>1, NothingCopied DEF StepRefused
  <1>2. CASE UNCHANGED source /\ Set(b, [bk[b] EXCEPT !.rc = "busy"]) /\ UNCHANGED <<image, writes, setting>>
    BY <1>2, SetBusy DEF StepRefused
  <1> QED BY <1>1, <1>2 DEF StepRefused

LEMMA StepFailsIInv ==
  ASSUME IInv, NEW b \in Backups, StepFails(b)
  PROVE  IInv'
  BY NothingCopied DEF StepFails

(* What a call copies, and where it leaves off: with the pages it had, it  *)
(* has all of the snapshot up to there.                                    *)
LEMMA StepEffect ==
  ASSUME IInv, NEW b \in Backups, NEW nPage \in Pages, Step(b, nPage)
  PROVE  \E next \in 1 .. MaxPage + 1, copy \in [Pages -> 0 .. setting.writes] :
            /\ \A q \in 1 .. Least(next - 1, Len(Snapshot)) : copy[q] = Snapshot[q]
            /\ bk' = [Opened(Restarted) EXCEPT ![b] =
                         [rc |-> IF next > Len(Snapshot) THEN "done" ELSE "ok", iNext |-> next,
                          isAttached |-> Opened(Restarted)[b].isAttached \/ ~(next > Len(Snapshot)),
                          bDestLocked |-> TRUE]]
            /\ inDest' = [inDest EXCEPT ![b] = copy]
            /\ dest' = IF next > Len(Snapshot)
                       THEN [dest EXCEPT ![b] = SubSeq(copy, 1, Len(Snapshot))] ELSE dest
  <1>0. TypeOK /\ Shape /\ Live(b) /\ trans # "write"
    BY DEF IInv, Step, SourceIsWritten
  <1> DEFINE first == Opened(Restarted)[b].iNext
             last == Least(first + nPage - 1, Len(Snapshot))
             next == IF first <= last THEN last + 1 ELSE first
             copy == [p \in Pages |-> IF p \in first .. last THEN SourcePage(p) ELSE inDest[b][p]]
  <1>1. /\ bk' = [Opened(Restarted) EXCEPT ![b] =
                    [rc |-> IF next > Len(Snapshot) THEN "done" ELSE "ok", iNext |-> next,
                     isAttached |-> Opened(Restarted)[b].isAttached \/ ~(next > Len(Snapshot)),
                     bDestLocked |-> TRUE]]
        /\ inDest' = [inDest EXCEPT ![b] = copy]
        /\ dest' = IF next > Len(Snapshot)
                   THEN [dest EXCEPT ![b] = SubSeq(copy, 1, Len(Snapshot))] ELSE dest
    BY DEF Step, Attaches
  <1>2. /\ first \in {1, bk[b].iNext} /\ bk[b].iNext \in 1 .. MaxPage + 1
        /\ Snapshot \in Content /\ Len(Snapshot) \in Pages
    BY <1>0, OpenedEffect DEF TypeOK
  <1>3. /\ first \in 1 .. MaxPage + 1 /\ last \in Nat /\ last <= Len(Snapshot)
        /\ next \in 1 .. MaxPage + 1
        /\ \A q \in 1 .. next - 1 : q <= Len(Snapshot) => q \in first .. last \/ q \in 1 .. first - 1
    <2>1. first \in 1 .. MaxPage + 1
      BY <1>2, OnlineBackupAssumption
    <2> HIDE DEF first
    <2> QED BY <1>2, <2>1, OnlineBackupAssumption DEF Least, Pages
  <1>4. \A p \in Pages : SourcePage(p) = Snapshot[p]
    BY <1>0 DEF SourcePage
  <1>5. \A p \in 1 .. Len(Snapshot) : Snapshot[p] \in 0 .. setting.writes
    BY <1>2, ElementOfSeq DEF Content
  <1>6. inDest[b] \in [Pages -> 0 .. setting.writes]
    BY <1>0 DEF Shape
  <1>7. \A q \in 1 .. Least(first - 1, Len(Snapshot)) : inDest[b][q] = Snapshot[q]
    BY <1>0, CopiesInSnapshot
  <1> HIDE DEF first, last, next
  <1>8. copy \in [Pages -> 0 .. setting.writes]
    <2> SUFFICES ASSUME NEW p \in Pages
                 PROVE  (IF p \in first .. last THEN SourcePage(p) ELSE inDest[b][p]) \in 0 .. setting.writes
      OBVIOUS
    <2>1. p \in first .. last => p \in 1 .. Len(Snapshot)
      BY <1>2, <1>3 DEF Pages
    <2> QED BY <2>1, <1>4, <1>5, <1>6
  <1>9. ASSUME NEW q \in 1 .. Least(next - 1, Len(Snapshot)) PROVE copy[q] = Snapshot[q]
    <2>1. q \in Pages /\ q <= Len(Snapshot) /\ q \in 1 .. next - 1
      BY <1>2, <1>3, OnlineBackupAssumption DEF Least, Pages
    <2>2. CASE q \in first .. last
      BY <2>1, <2>2, <1>4
    <2>3. CASE q \in 1 .. first - 1
      <3>1. q \in 1 .. Least(first - 1, Len(Snapshot)) /\ q \notin first .. last
        BY <2>1, <2>3, <1>2, <1>3 DEF Least, Pages
      <3> QED BY <2>1, <3>1, <1>7
    <2> QED BY <1>3, <2>1, <2>2, <2>3
  <1> HIDE DEF copy
  <1> QED BY <1>1, <1>3, <1>8, <1>9

(* A destination is a sequence of its own once its pages are cut to size.  *)
LEMMA FirstPages ==
  ASSUME setting.writes \in Nat, NEW copy \in [Pages -> 0 .. setting.writes], NEW n \in Pages
  PROVE  /\ SubSeq(copy, 1, n) \in Content /\ Len(SubSeq(copy, 1, n)) = n
         /\ \A q \in 1 .. n : SubSeq(copy, 1, n)[q] = copy[q]
  <1>1. \A q \in 1 .. n : copy[q] \in 0 .. setting.writes
    BY OnlineBackupAssumption DEF Pages
  <1> QED BY <1>1, SubSeqProperties, OnlineBackupAssumption DEF Content, Pages

LEMMA StepIInv ==
  ASSUME IInv, NEW b \in Backups, NEW nPage \in Pages, Step(b, nPage)
  PROVE  IInv'
  <1>0. TypeOK /\ Shape /\ CopiedPagesAreCurrent /\ trans # "write" /\ basis' = Snapshot
        /\ UNCHANGED <<image, trans, work, dirty, out, writes, setting>>
    BY DEF IInv, Step, SourceIsWritten, Reads
  <1> DEFINE B == Opened(Restarted)
  <1>1. PICK next \in 1 .. MaxPage + 1, copy \in [Pages -> 0 .. setting.writes] :
            /\ \A q \in 1 .. Least(next - 1, Len(Snapshot)) : copy[q] = Snapshot[q]
            /\ bk' = [B EXCEPT ![b] =
                         [rc |-> IF next > Len(Snapshot) THEN "done" ELSE "ok", iNext |-> next,
                          isAttached |-> B[b].isAttached \/ ~(next > Len(Snapshot)),
                          bDestLocked |-> TRUE]]
            /\ inDest' = [inDest EXCEPT ![b] = copy]
            /\ dest' = IF next > Len(Snapshot)
                       THEN [dest EXCEPT ![b] = SubSeq(copy, 1, Len(Snapshot))] ELSE dest
    BY StepEffect
  <1>2. /\ B \in [Backups -> Backup] /\ Snapshot \in Content /\ Len(Snapshot) \in Pages
        /\ \A c \in Backups : /\ B[c].rc = bk[c].rc /\ B[c].iNext \in {1, bk[c].iNext}
                              /\ B[c].isAttached = bk[c].isAttached
                              /\ B[c].bDestLocked = bk[c].bDestLocked
    BY <1>0, OpenedEffect
  <1> HIDE DEF B
  <1>3. /\ bk' \in [Backups -> Backup]
        /\ \A c \in Backups : c # b => bk'[c] = B[c] /\ inDest'[c] = inDest[c]
        /\ inDest'[b] = copy /\ bk'[b].iNext = next
        /\ bk'[b].rc = (IF next > Len(Snapshot) THEN "done" ELSE "ok")
        /\ bk'[b].isAttached = (B[b].isAttached \/ ~(next > Len(Snapshot)))
        /\ bk'[b].bDestLocked
    <2>1. next \in Nat /\ B[b].isAttached \in BOOLEAN
      BY <1>2, OnlineBackupAssumption DEF Backup
    <2>2. inDest \in [Backups -> [Pages -> 0 .. setting.writes]]
      BY <1>0 DEF Shape
    <2> QED BY <1>1, <1>2, <2>1, <2>2 DEF Backup
  <1>4. SubSeq(copy, 1, Len(Snapshot)) \in Content
    BY <1>0, <1>2, FirstPages, OnlineBackupAssumption DEF Shape
  <1>5. Shape'
    <2>1. inDest' \in [Backups -> [Pages -> 0 .. setting.writes]]
      BY <1>0, <1>1 DEF Shape
    <2>2. dest' \in [Backups -> Content]
      BY <1>0, <1>1, <1>4 DEF Shape
    <2> QED BY <1>0, <1>2, <1>3, <2>1, <2>2 DEF Shape, Content
  <1>6. \A c \in Backups : BackupTypes(c)'
    <2> TAKE c \in Backups
    <2>1. BackupTypes(c) /\ inDest'[c] \in [Pages -> 0 .. setting.writes] /\ dest'[c] \in Content
      BY <1>0, <1>5, TypeHalves DEF Shape, Content
    <2>2. CASE c = b
      BY <1>0, <1>3, <2>1, <2>2 DEF BackupTypes, Live, Content
    <2>3. CASE c # b
      BY <1>0, <1>2, <1>3, <1>5, <2>1, <2>3, KeptBackupTypes DEF Live
    <2> QED BY <2>2, <2>3
  <1>7. SourceTypes'
    BY <1>0, <1>2, TypeHalves DEF SourceTypes, Content
  <1>8. TypeOK'
    BY <1>6, <1>7 DEF TypeOK, SourceTypes, BackupTypes
  <1>9. ASSUME NEW c \in Backups, Live(c)',
               NEW q \in 1 .. Least(bk'[c].iNext - 1, Len(basis'))
        PROVE  inDest'[c][q] = basis'[q]
    <2>1. CASE c = b
      BY <1>0, <1>1, <1>3, <1>9, <2>1
    <2>2. CASE c # b
      <3>1. Live(c) /\ q \in 1 .. Least(Opened(Restarted)[c].iNext - 1, Len(Snapshot))
        BY <1>0, <1>2, <1>3, <1>9, <2>2 DEF Live, B
      <3> QED BY <1>0, <1>3, <2>2, <3>1, CopiesInSnapshot
    <2> QED BY <2>1, <2>2
  <1>10. CopiedPagesAreCurrent' /\ CopiesOfUnwrittenAreOld'
    BY <1>0, <1>9 DEF CopiedPagesAreCurrent, CopiesOfUnwrittenAreOld
  <1> QED BY <1>5, <1>8, <1>10 DEF IInv

LEMMA BackupFinishIInv ==
  ASSUME IInv, NEW b \in Backups, BackupFinish(b)
  PROVE  IInv'
  <1>0. TypeOK /\ Shape
        /\ bk' = [bk EXCEPT ![b] = Closed] /\ inDest' = [inDest EXCEPT ![b] = Untouched]
        /\ UNCHANGED <<image, basis, trans, work, dirty, out, dest, writes, setting>>
    BY DEF IInv, BackupFinish, Set, source
  <1>1. /\ Closed \in Backup /\ Closed.iNext = 1 /\ ~Closed.isAttached
        /\ Closed.rc = "none" /\ ~Closed.bDestLocked
    BY DEF Closed, Backup
  <1>2. Untouched \in [Pages -> 0 .. setting.writes]
    BY <1>0, OnlineBackupAssumption DEF Untouched, OldPage, Shape
  <1>3. /\ bk' \in [Backups -> Backup] /\ bk'[b] = Closed
        /\ inDest' \in [Backups -> [Pages -> 0 .. setting.writes]]
        /\ \A c \in Backups : c # b => bk'[c] = bk[c] /\ inDest'[c] = inDest[c]
    BY <1>0, <1>1, <1>2 DEF Shape
  <1>4. Shape'
    BY <1>0, <1>3 DEF Shape, Content
  <1>5. \A c \in Backups : BackupTypes(c)'
    <2> TAKE c \in Backups
    <2>1. BackupTypes(c) /\ inDest'[c] \in [Pages -> 0 .. setting.writes]
      BY <1>0, <1>3, TypeHalves
    <2>2. CASE c = b
      BY <1>0, <1>1, <1>3, <2>1, <2>2, OnlineBackupAssumption DEF BackupTypes, Live, Content
    <2>3. CASE c # b
      BY <1>0, <1>3, <2>1, <2>3 DEF BackupTypes, Live, Content
    <2> QED BY <2>2, <2>3
  <1>6. SourceTypes'
    BY <1>0, TypeHalves DEF SourceTypes, Content
  <1>7. TypeOK'
    BY <1>5, <1>6 DEF TypeOK, SourceTypes, BackupTypes
  <1>8. \A c \in Backups : Live(c)' =>
           Live(c) /\ bk'[c].iNext = bk[c].iNext /\ inDest'[c] = inDest[c]
    BY <1>1, <1>3 DEF Live
  <1>9. CopiedPagesAreCurrent' /\ CopiesOfUnwrittenAreOld'
    BY <1>0, <1>8 DEF IInv, CopiedPagesAreCurrent, CopiesOfUnwrittenAreOld
  <1> QED BY <1>4, <1>7, <1>9 DEF IInv

-----------------------------------------------------------------------------
LEMMA NextIInv ==
  ASSUME IInv, [Next]_vars
  PROVE  IInv'
  <1>1. CASE SourceStep
    BY <1>1, BeginReadIInv, EndReadIInv, BeginWriteIInv, TruncateIInv, WriteIInv, WriteOutIInv,
       CommitIInv, RollbackIInv, RollbackWalIInv, PagerFailsIInv, ExternalCommitIInv
       DEF SourceStep
  <1>2. ASSUME NEW b \in Backups, BackupStep(b) PROVE IInv'
    BY <1>2, BackupInitIInv, StepBusyIInv, StepRefusedIInv, StepFailsIInv, BackupFinishIInv,
       StepIInv
       DEF BackupStep
  <1>3. CASE UNCHANGED vars
    <2>1. Shape' /\ TypeOK'
      BY <1>3 DEF vars, source, IInv, TypeOK, Shape, Live, Content
    <2>2. CopiedPagesAreCurrent'
      BY <1>3 DEF vars, source, IInv, CopiedPagesAreCurrent, Live
    <2>3. CopiesOfUnwrittenAreOld'
      BY <1>3 DEF vars, source, IInv, CopiesOfUnwrittenAreOld, Live
    <2> QED BY <2>1, <2>2, <2>3 DEF IInv
  <1> QED BY <1>1, <1>2, <1>3 DEF Next

(* All that is reached has the inductive invariant: in particular, what a  *)
(* roll-back does not tell the backups of is in their copies already.      *)
THEOREM Invariance == Spec => []IInv
  <1>1. IInv /\ [Next]_vars => IInv'
    BY NextIInv
  <1> QED BY <1>1, InitIInv, PTL DEF Spec

(* Every variable has its type; what a backup counts stays within the      *)
(* pages, and a live one that has copied any is on the pager's list.       *)
THEOREM Typing == Spec => []TypeOK
  BY Invariance, PTL DEF IInv

(* sqlite3BackupUpdate and sqlite3BackupRestart are called for all that    *)
(* matters: what a backup has copied is what the pager would read now, but *)
(* for the pages that are changed and not written out.                     *)
THEOREM CopiesAreCurrent == Spec => []CopiedPagesAreCurrent
  BY Invariance, PTL DEF IInv

(* A destination only changes by the step that commits it, outside write   *)
(* transactions, and becomes the snapshot that the step reads.             *)
LEMMA DestChangesByStep ==
  ASSUME IInv, [Next]_vars, NEW b \in Backups, dest'[b] # dest[b]
  PROVE  \E nPage \in Pages : Step(b, nPage)
  <1>1. CASE SourceStep
    BY <1>1 DEF SourceStep, BeginRead, EndRead, BeginWrite, Truncate, Write, WriteOut, Commit,
                Rollback, RollbackWal, PagerFails, EndWrite, ExternalCommit
  <1>2. ASSUME NEW c \in Backups, BackupStep(c) PROVE \E nPage \in Pages : Step(b, nPage)
    <2>1. PICK nPage \in Pages : Step(c, nPage)
      BY <1>2 DEF BackupStep, BackupInit, StepBusy, StepRefused, StepFails, BackupFinish
    <2>2. c = b
      <3>1. SUFFICES ASSUME c # b PROVE FALSE
        OBVIOUS
      <3>2. \E copy, n : dest' \in {dest, [dest EXCEPT ![c] = SubSeq(copy, 1, n)]}
        BY <2>1 DEF Step
      <3>3. dest \in [Backups -> Content]
        BY DEF IInv, Shape
      <3> QED BY <3>1, <3>2, <3>3
    <2> QED BY <2>1, <2>2
  <1>3. CASE UNCHANGED vars
    BY <1>3 DEF vars
  <1> QED BY <1>1, <1>2, <1>3 DEF Next

(* The destination changes as a whole, into an image that the source had   *)
(* between two transactions.                                               *)
THEOREM DestinationsAreSnapshots == Spec => BackupIsASnapshot
  <1>1. IInv /\ [Next]_vars =>
           [\A b \in Backups : dest'[b] # dest[b] => trans # "write" /\ dest'[b] = basis']_vars
    <2> SUFFICES ASSUME IInv, [Next]_vars, NEW b \in Backups, dest'[b] # dest[b]
                 PROVE  trans # "write" /\ dest'[b] = basis'
      OBVIOUS
    <2>1. PICK nPage \in Pages : Step(b, nPage)
      BY DestChangesByStep
    <2>2. PICK next \in 1 .. MaxPage + 1, copy \in [Pages -> 0 .. setting.writes] :
              /\ \A q \in 1 .. Least(next - 1, Len(Snapshot)) : copy[q] = Snapshot[q]
              /\ dest' = IF next > Len(Snapshot)
                         THEN [dest EXCEPT ![b] = SubSeq(copy, 1, Len(Snapshot))] ELSE dest
      BY <2>1, StepEffect
    <2>3. trans # "write" /\ basis' = Snapshot /\ dest \in [Backups -> Content]
      BY <2>1 DEF Step, SourceIsWritten, Reads, IInv, Shape
    <2>4. Snapshot \in Content /\ Len(Snapshot) \in Pages
      BY OpenedEffect DEF IInv
    <2>5. next > Len(Snapshot) /\ dest'[b] = SubSeq(copy, 1, Len(Snapshot))
      BY <2>2, <2>3
    <2>6. \A q \in 1 .. Len(Snapshot) : copy[q] = Snapshot[q]
      BY <2>2, <2>4, <2>5, OnlineBackupAssumption DEF Least, Pages
    <2>7. SubSeq(copy, 1, Len(Snapshot)) = Snapshot
      <3> DEFINE cut == SubSeq(copy, 1, Len(Snapshot))
      <3>1. setting.writes \in Nat
        BY OnlineBackupAssumption DEF IInv, Shape
      <3>2. /\ cut \in Content /\ Len(cut) = Len(Snapshot)
            /\ \A q \in 1 .. Len(Snapshot) : cut[q] = copy[q]
        BY <2>4, <3>1, FirstPages
      <3> HIDE DEF cut
      <3>3. cut = Snapshot
        BY <2>4, <2>6, <3>2, SeqEqual DEF Content
      <3> QED BY <3>3 DEF cut
    <2> QED BY <2>3, <2>5, <2>7
  <1> QED BY <1>1, Invariance, PTL DEF Spec, BackupIsASnapshot
=============================================================================
