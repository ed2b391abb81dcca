------------------------------- MODULE MCWal -------------------------------
(***************************************************************************)
(* Instances of Wal: the roles, settings and faults of each run.           *)
(***************************************************************************)
EXTENDS WalRecovery, TLC

CONSTANTS A, B, C

(* A and B write, B runs checkpoints; nothing goes wrong. *)
Pair ==
    [sync |-> "normal", users |-> {A, B}, readers |-> {A, B}, writers |-> {A, B},
     checkpointers |-> {B}, modes |-> {"passive"}, writes |-> 2, pages |-> 1,
     io |-> FALSE, power |-> FALSE, die |-> "never", exits |-> 0]

(* A writer, a reader, and a process that runs nothing but checkpoints. *)
Trio ==
    [Pair EXCEPT !.users = {A, B, C}, !.writers = {A}, !.checkpointers = {C}, !.writes = 1]

Truncating == [Pair EXCEPT !.writers = {A}, !.modes = {"truncate"}]

Concurrent == {Pair, Trio, Truncating}

(* One process dies, but not where RestartDeath shows what becomes of it:  *)
(* one writes, the other reads, runs checkpoints, or both, or keeps no    *)
(* more than the wal-index alive for a writer that comes back.             *)
Mortals == [Pair EXCEPT !.writers = {A}, !.die = "spared", !.exits = 1]

Dying ==
    {[Mortals EXCEPT !.writes = 1], [Mortals EXCEPT !.readers = {A}],
     [Mortals EXCEPT !.checkpointers = {}],
     [Mortals EXCEPT !.checkpointers = {}, !.pages = 2, !.writes = 1],
     [Mortals EXCEPT !.readers = {A}, !.checkpointers = {}, !.pages = 2],
     [Mortals EXCEPT !.users = {A}, !.checkpointers = {A}, !.pages = 2]}

(* The power fails, and writes and syncs too. *)
Outage(sync) ==
    [Pair EXCEPT !.sync = sync, !.users = {A}, !.checkpointers = {A}, !.pages = 2,
                 !.power = TRUE, !.io = TRUE, !.exits = 1]

Crashing == Dying \cup {Outage("normal"), Outage("full")}

Running == Concurrent \cup Crashing

RestartDeath == {[Mortals EXCEPT !.die = "always"]}
=============================================================================
