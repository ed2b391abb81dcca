----------------------------- MODULE MCUnixLock -----------------------------
(***************************************************************************)
(* Instances of UnixLock: a process with two connections, as the           *)
(* bookkeeping of unixInodeInfo is about several handles of one process,   *)
(* next to processes with one.                                             *)
(***************************************************************************)
EXTENDS UnixLock, TLC

CONSTANTS a1, a2, b1, c1, A, B, C

ThreeProcesses == (a1 :> A) @@ (a2 :> A) @@ (b1 :> B) @@ (c1 :> C)

TwoProcesses == (a1 :> A) @@ (a2 :> A) @@ (b1 :> B)
=============================================================================
