------------------------------ MODULE MCPager ------------------------------
(***************************************************************************)
(* Instances of Pager: the settings and faults of each run.                *)
(***************************************************************************)
EXTENDS PagerRecovery

CONSTANTS A, B

Faults(die, power, io) == [die |-> die, power |-> power, io |-> io]

NoFault == Faults(FALSE, FALSE, FALSE)
Deaths  == Faults(TRUE, FALSE, FALSE)
Power   == Faults(FALSE, TRUE, FALSE)
Errors  == Faults(FALSE, FALSE, TRUE)
PowerAndErrors == Faults(FALSE, TRUE, TRUE)

(* One process, a file of constant size, and two transactions. *)
Setting(journal, sync, f) ==
    [journal |-> journal, sync |-> sync, die |-> f.die, power |-> f.power, io |-> f.io,
     users |-> {A}, pages |-> InitSize, txns |-> 2]

(* A file that may grow. *)
Growing(f, n) ==
    [Setting("delete", "full", f) EXCEPT !.pages = InitSize + 1, !.txns = n]

Failing ==
    {Growing(Deaths, 2), Growing(Power, 1),
     Setting("delete", "full", PowerAndErrors), Setting("delete", "extra", Power),
     Setting("delete", "normal", Power), Setting("truncate", "full", Power),
     Setting("persist", "full", PowerAndErrors)}

(* Two processes; what dies with a process does not depend on syncs, so    *)
(* that their second transaction is left to the setting without them.      *)
Shared(journal, sync, f, n) ==
    [Setting(journal, sync, f) EXCEPT !.users = {A, B}, !.txns = n]

Sharing ==
    {Shared("delete", "full", Deaths, 1), Shared("delete", "off", Deaths, 2),
     Shared("truncate", "full", Errors, 1)}

Running == Failing \cup Sharing

Undisturbed == {Setting("persist", "full", NoFault)}
=============================================================================
