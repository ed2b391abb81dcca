--------------------------- MODULE PagerRecovery ---------------------------
(***************************************************************************)
(* What the pager guarantees: the database image is what a recovery would  *)
(* make of the two files, and it changes only when a transaction commits.  *)
(***************************************************************************)
EXTENDS Pager

(* The roll-back of a journal as one function: it reads sector after       *)
(* sector, expects a header where the records of the last one end, and     *)
(* stops at the first sector that is not what it expects.                  *)
RecoveryStep(s, e) ==
    IF ~s.on THEN s
    ELSE IF s.left = 0
    THEN [on   |-> e.kind = "hdr",
          left |-> IF e.val = ToEndOfFile THEN s.size - 1 ELSE e.val,
          nonce |-> e.nonce,
          size |-> s.size,
          first |-> FALSE,
          file |-> IF s.first /\ e.kind = "hdr"
                   THEN [p \in 1 .. e.pg |-> IF p <= Len(s.file) THEN s.file[p] ELSE 0]
                   ELSE s.file]
    ELSE LET skip == e.kind = "rec" /\ e.pg > Len(s.file)
             good == e.kind = "rec" /\ e.nonce = s.nonce
         IN  [s EXCEPT !.on = skip \/ good,
                       !.left = @ - 1,
                       !.file = IF good /\ ~skip THEN Put(@, e.pg, e.val) ELSE @]

Recovered(file, j) ==
    IF ~LooksHot(j) THEN file
    ELSE LET upTo[n \in 0 .. Len(j.data)] ==
                 IF n = 0
                 THEN [on |-> TRUE, left |-> 0, nonce |-> 0, size |-> Len(j.data),
                       first |-> TRUE, file |-> file]
                 ELSE CHOOSE t \in {RecoveryStep(s, j.data[n]) : s \in {upTo[n - 1]}} : TRUE
         IN  upTo[Len(j.data)].file

Image == Recovered(db, jrnl)

(* All that a power failure may make of the image. *)
AfterPowerFailure ==
    {Recovered(d, [exists |-> TRUE, data |-> j]) :
        d \in Wrecks(db, dbDisk, Torn),
        j \in {jDisk.data} \cup
              (IF jrnl.exists THEN Wrecks(jrnl.data, IF jSame THEN jDisk.data ELSE <<>>, Junk)
                              ELSE {<<>>})}

(* Until the disk has the end of a journal, the journal may be back.       *)
Fallback == IF PowerFails THEN AfterPowerFailure \ {Image} ELSE {}

(* What connection c reads: the cached page, or else the page of the file. *)
View(c) ==
    [p \in 1 .. mem[c].dbSize |->
        IF p \in Cached(c) THEN mem[c].cache[p] ELSE IF p <= Len(db) THEN db[p] ELSE 0]

InTransaction(c) == eState[c] \in READER .. WRITER_FINISHED
InWriteTransaction(c) == eState[c] \in WRITER_LOCKED .. WRITER_FINISHED

Atomic ==
    INSTANCE AtomicDb WITH
        InitImage <- [p \in 1 .. InitSize |-> 0],
        image <- Image,
        fallback <- Fallback,
        view <- [c \in Conns |-> IF InTransaction(c) THEN View(c) ELSE <<>>],
        writer <- {c \in Conns : InWriteTransaction(c)}

(* Transactions are atomic, isolated and, but for the last one when its    *)
(* unlink is not synced, durable: whatever dies or fails and whenever, the *)
(* committed image changes only by a whole commit, no reader ever sees     *)
(* anything else, and a roll-back gives the image back.  This is Atomic's  *)
(* specification, but for journals that persist: what the roll-back of one *)
(* may give back is another matter, see RollbackRestores.                  *)
ImplementsAtomicDb ==
    /\ Atomic!Init
    /\ [][JournalMode # "persist" => [Atomic!Next]_(Atomic!vars)]_vars

(* The committed image of the files is another one only when a commit that *)
(* has written and synced everything ends its journal, and then it is what *)
(* that connection sees, or when the power fails before the disk has the   *)
(* end of the journal.                                                     *)
ImageChangesByCommit ==
    [][Image' # Image =>
          \/ Image' \in Fallback /\ MachineIsDown
          \/ \E c \in Conns : pc[c] = "idle" /\ eState[c] = WRITER_FINISHED /\ Image' = View(c)]_vars

(* Once sqlite3PagerCommitPhaseTwo has finalized the journal no power      *)
(* failure takes the transaction back, where the end of the journal is     *)
(* synced: in synchronous=FULL with a journal that is truncated or zeroed, *)
(* in EXTRA with any.  (In FULL the directory is not synced after the      *)
(* unlink, and the journal may be back.)                                   *)
SyncedCommitIsFinal ==
    extraSync \/ (fullSync /\ JournalMode # "delete") =>
        \A c \in Conns :
            pc[c] = "unlock" /\ eState[c] = WRITER_FINISHED /\ tx[c].job = "none"
                => AfterPowerFailure \subseteq {Image}

(* sqlite3PagerRollback gives the database file and the cached pages the   *)
(* state they had when the transaction was opened.                         *)
RollbackRestores ==
    \A c \in Conns : pc[c] = "unlock" /\ tx[c].job = "rollback" => View(c) = Image
=============================================================================
