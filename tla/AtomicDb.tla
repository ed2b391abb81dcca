------------------------------ MODULE AtomicDb ------------------------------
(***************************************************************************)
(* What the pager promises the B-tree layer: a database image that changes *)
(* only by whole committed transactions, one writer at a time, readers     *)
(* that see the image and nothing else, and crashes that lose no committed *)
(* transaction, except that a power failure may take back the last one     *)
(* while its commit has not reached the disk (variable fallback).          *)
(***************************************************************************)
EXTENDS Naturals, Sequences

CONSTANTS
    Conns,      \* connections to the database
    InitImage   \* the image at the start, a non-empty sequence of pages

VARIABLES
    image,      \* the committed image
    fallback,   \* images a power failure may go back to
    view,       \* view[c]: what c reads, <<>> outside of a transaction
    writer      \* the connections in a write transaction, at most one

vars == <<image, fallback, view, writer>>

NoView == <<>>

Others(c) == Conns \ {c}

Init ==
    /\ image = InitImage
    /\ fallback = {}
    /\ view = [c \in Conns |-> NoView]
    /\ writer = {}

(* The disk may make a commit final at any time. *)
Settling == fallback' \subseteq fallback

BeginRead(c) ==
    /\ view[c] = NoView
    /\ view' = [view EXCEPT ![c] = image]
    /\ Settling
    /\ UNCHANGED <<image, writer>>

BeginWrite(c) ==
    /\ writer = {}
    /\ view[c] = image
    /\ writer' = {c}
    /\ Settling
    /\ UNCHANGED <<image, view>>

(* The writer changes its own view, or takes its changes back. *)
Change(c) ==
    /\ c \in writer
    /\ DOMAIN view' = Conns
    /\ view'[c] # NoView
    /\ \A d \in Others(c) : view'[d] = view[d]
    /\ Settling
    /\ UNCHANGED <<image, writer>>

(* The commit waits until nobody reads. *)
Commit(c) ==
    /\ c \in writer
    /\ \A d \in Others(c) : view[d] = NoView
    /\ image' = view[c]
    /\ fallback' \subseteq {image}
    /\ UNCHANGED <<view, writer>>

(* After a commit or a rollback the writer is a reader of the image. *)
EndWrite(c) ==
    /\ c \in writer
    /\ view[c] = image
    /\ writer' = {}
    /\ Settling
    /\ UNCHANGED <<image, view>>

(* The end of a read, a transaction given up after an error, the death of  *)
(* the process.                                                            *)
Leave(c) ==
    /\ view' = [view EXCEPT ![c] = NoView]
    /\ writer' = writer \ {c}
    /\ Settling
    /\ UNCHANGED image

PowerLoss ==
    /\ image' \in {image} \cup fallback
    /\ fallback' = {}
    /\ view' = [c \in Conns |-> NoView]
    /\ writer' = {}

Settle == UNCHANGED <<writer, view, image>> /\ Settling

Next ==
    \/ Settle
    \/ \E c \in Conns :
          \/ Change(c) \/ BeginWrite(c) \/ EndWrite(c) \/ Commit(c)
          \/ Leave(c) \/ BeginRead(c)
    \/ PowerLoss

Spec == Init /\ [][Next]_vars
=============================================================================
