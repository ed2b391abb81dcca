---------------------------- MODULE MCSavepoint -----------------------------
(***************************************************************************)
(* Instances of Savepoint: one long transaction with a rollback journal,   *)
(* two shorter ones with a log, so that the second may restart it.         *)
(***************************************************************************)
EXTENDS Savepoint

Journals ==
    [journal : {"synced", "unsynced"}, ops : {5}, txns : {1}]
        \cup [journal : {"wal"}, ops : {4}, txns : {2}]
=============================================================================
