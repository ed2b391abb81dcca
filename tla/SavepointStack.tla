--------------------------- MODULE SavepointStack ---------------------------
(***************************************************************************)
(* What nested savepoints promise: a stack of images.  Rolling back to one *)
(* brings its image back, releasing one keeps the changes, and whatever    *)
(* happens in between neither the saved images nor the committed one, to   *)
(* which a crash goes back, change.                                        *)
(*                                                                         *)
(* An image is a sequence of pages; what a free page holds is nobody's     *)
(* business, so that an image has the same mark for all of them.           *)
(***************************************************************************)
EXTENDS Naturals, Sequences

CONSTANT InitImage

VARIABLES
    committed,  \* the image of the last committed transaction
    image,      \* the present image, that of the transaction if there is one
    saved       \* the images of the open savepoints, outermost first

vars == <<committed, image, saved>>

Init ==
    /\ committed = InitImage
    /\ image = InitImage
    /\ saved = <<>>

Change == image' # image /\ UNCHANGED <<committed, saved>>

Open == saved' = Append(saved, image) /\ UNCHANGED <<committed, image>>

RollbackTo(i) ==
    /\ image' = saved[i]
    /\ saved' = SubSeq(saved, 1, i)
    /\ UNCHANGED committed

Release(i) ==
    /\ saved' = SubSeq(saved, 1, i - 1)
    /\ UNCHANGED <<committed, image>>

Commit == committed' = image /\ saved' = <<>> /\ UNCHANGED image

Rollback == image' = committed /\ saved' = <<>> /\ UNCHANGED committed

Next ==
    \/ Change \/ Open \/ Commit \/ Rollback
    \/ \E i \in DOMAIN saved : RollbackTo(i) \/ Release(i)

Spec == Init /\ [][Next]_vars
=============================================================================
