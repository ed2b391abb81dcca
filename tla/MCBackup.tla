------------------------------ MODULE MCBackup ------------------------------
(***************************************************************************)
(* Instances of OnlineBackup.                                              *)
(***************************************************************************)
EXTENDS OnlineBackup

CONSTANTS A, B

OneBackup(wal, io, size, n) ==
    [wal |-> wal, io |-> io, size |-> size, users |-> {A}, writes |-> n]

TwoBackups(wal) == [OneBackup(wal, FALSE, 2, 2) EXCEPT !.users = {A, B}]

(* What follows a failing call needs one write less. *)
Sources ==
    {OneBackup(wal, FALSE, size, 3) : wal \in BOOLEAN, size \in {1, 3}}
      \cup {OneBackup(wal, TRUE, size, 2) : wal \in BOOLEAN, size \in {1, 3}}
      \cup {TwoBackups(wal) : wal \in BOOLEAN}
=============================================================================
