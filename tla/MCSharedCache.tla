--------------------------- MODULE MCSharedCache ----------------------------
(***************************************************************************)
(* Instances of SharedCache: two connections that do all there is to do to *)
(* one cache, two that use two caches, a writer that waits for two         *)
(* readers, and three readers that want to write what the next one reads.  *)
(***************************************************************************)
EXTENDS SharedCache

CONSTANTS A, B, C, X, Y

TwoConnections ==
    [caches |-> {X}, open |-> {A, B}, readUncommitted |-> {}, maxActive |-> 2, begins |-> {0}, once |-> FALSE,
     statements |-> {A, B} \X {X} \X {"t"} \X {"read", "write"},
     closing |-> FALSE, backup |-> FALSE, patient |-> FALSE]

Everything ==
    [TwoConnections EXCEPT !.readUncommitted = {B}, !.begins = 0 .. 2, !.closing = TRUE,
        !.statements = {A, B} \X {X} \X {"t", Schema} \X {"read", "write"}]

ManyReaders ==
    [TwoConnections EXCEPT !.open = {A, B, C}, !.maxActive = 1, !.patient = TRUE,
        !.statements = {<<A, X, "t", "write">>, <<B, X, "t", "read">>, <<C, X, "t", "read">>}]

Circle ==
    [TwoConnections EXCEPT !.caches = {X, Y}, !.open = {A, B, C}, !.maxActive = 1,
        !.once = TRUE, !.patient = TRUE,
        !.statements = {<<A, X, "t", "write">>, <<B, X, "t", "read">>, <<B, Y, "t", "write">>,
                        <<C, Y, "t", "read">>, <<C, X, "t", "read">>}]

Backup == [TwoConnections EXCEPT !.backup = TRUE, !.begins = {}]

Sharing == {Everything, ManyReaders, Circle, Backup}
WithBackup == {Backup}
=============================================================================
