----------------------------- MODULE SnapshotDb -----------------------------
(***************************************************************************)
(* What the write-ahead log promises: a database image that changes only   *)
(* by whole committed transactions, one writer at a time, and readers that *)
(* keep the image they began with while others commit.                     *)
(*                                                                         *)
(* limbo holds the images a crash may turn into the committed one: those   *)
(* of a commit that is under way or has failed, and of earlier commits as  *)
(* long as the disk may lose the later ones.  When commits are lasting no  *)
(* image in limbo is older than the last commit.                           *)
(***************************************************************************)
EXTENDS Naturals, Sequences

CONSTANTS
    Conns,      \* connections to the database
    InitImage   \* the image at the start, a non-empty sequence of pages

VARIABLES
    image,      \* the committed image
    limbo,      \* images a crash may leave instead
    view,       \* view[c]: what c reads, <<>> outside of a transaction
    writer,     \* the connections in a write transaction, at most one
    lasting     \* whether a commit is on the disk when it is done

vars == <<image, limbo, view, writer, lasting>>

NoView == <<>>

Init ==
    /\ image = InitImage
    /\ limbo = {}
    /\ view = [c \in Conns |-> NoView]
    /\ writer = {}
    /\ lasting \in BOOLEAN

(* The disk may settle what is in limbo at any time. *)
Settling == limbo' \subseteq limbo

BeginRead(c) ==
    /\ UNCHANGED <<writer, lasting>>
    /\ view[c] = NoView
    /\ view' = [view EXCEPT ![c] = image]
    /\ UNCHANGED image
    /\ Settling

EndRead(c) ==
    /\ UNCHANGED <<writer, lasting>>
    /\ c \notin writer
    /\ view' = [view EXCEPT ![c] = NoView]
    /\ UNCHANGED image
    /\ Settling

(* Only a reader of the newest image may write. *)
BeginWrite(c) ==
    /\ writer = {}
    /\ writer' = {c}
    /\ view[c] = image
    /\ UNCHANGED <<image, view, lasting>>
    /\ Settling

(* The writer changes its own view; what it has written to the log for a   *)
(* commit may become the image in a crash.                                 *)
Change(c) ==
    /\ c \in writer
    /\ UNCHANGED <<writer, lasting>>
    /\ DOMAIN view' = Conns
    /\ \A d \in Conns \ {c} : view'[d] = view[d]
    /\ view'[c] # NoView
    /\ UNCHANGED image
    /\ limbo' \subseteq limbo \cup {view[c]}

(* Readers keep what they read. *)
Commit(c) ==
    /\ c \in writer
    /\ writer' = {}
    /\ image' = view[c]
    /\ UNCHANGED <<view, lasting>>
    /\ limbo' \subseteq IF lasting THEN {} ELSE limbo \cup {image}

Rollback(c) ==
    /\ c \in writer
    /\ writer' = {}
    /\ view' = [view EXCEPT ![c] = image]
    /\ UNCHANGED <<image, lasting>>
    /\ Settling

(* The death of processes, all of them in a power failure. *)
Crash(S) ==
    /\ writer' = writer \ S
    /\ view' = [c \in Conns |-> IF c \in S THEN NoView ELSE view[c]]
    /\ image' \in {image} \cup limbo
    /\ limbo' \subseteq limbo \cup {image} \cup {view[c] : c \in S \cap writer}
    /\ UNCHANGED lasting

(* A survivor finds out what a crash has left, or the next to open the     *)
(* database does.  The image is then in doubt: it may not be on the disk.  *)
Recover ==
    /\ UNCHANGED <<writer, lasting, view>>
    /\ image' \in {image} \cup limbo
    /\ limbo' \subseteq limbo \cup {image}

Next ==
    \/ Recover
    \/ \E c \in Conns :
          \/ Change(c) \/ BeginWrite(c) \/ Commit(c) \/ Rollback(c)
          \/ BeginRead(c) \/ EndRead(c)
    \/ \E S \in SUBSET Conns : Crash(S)

Spec == Init /\ [][Next]_vars
=============================================================================
