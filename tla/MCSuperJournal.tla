--------------------------- MODULE MCSuperJournal ---------------------------
(***************************************************************************)
(* Instances of SuperJournal: two databases, two connections.              *)
(***************************************************************************)
EXTENDS SuperJournal

Modes == [Dbs -> {"delete", "truncate", "persist"}]
Only(mode) == [d \in Dbs |-> mode]
Kept == [Dbs -> {"truncate", "persist"}]

(* Journals that are deleted: any single fault, or two deaths. *)
Deleted ==
    [journal : {Only("delete")}, sync : {"normal", "full"}, txns : {2},
     faults : {{"die", "io"}, {"power"}}, most : {1}]
    \cup [journal : {Only("delete")}, sync : {"normal"}, txns : {2},
          faults : {{"die"}}, most : {2}]

(* Journals of any kind, a single transaction and a single fault. *)
Mixed ==
    [journal : Modes, sync : {"normal", "full"}, txns : {1},
     faults : {{"die", "io"}, {"power"}}, most : {1}]

(* Journals that are written over, and no fault that leaves a cold one. *)
Reused == [journal : Kept, sync : {"full"}, txns : {2}, faults : {{}}, most : {0}]

Survivable == Deleted \cup Mixed \cup Reused

(* A cold journal that a recovery leaves, and a transaction over it. *)
ColdJournals ==
    [journal : {Only("truncate"), Only("persist")}, sync : {"full"}, txns : {2},
     faults : {{"die"}}, most : {1}]
=============================================================================
