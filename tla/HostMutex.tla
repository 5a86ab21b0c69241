------------------------------ MODULE HostMutex ------------------------------
(***************************************************************************)
(* What the destructive lock promises: of the commands backup, restore,    *)
(* restore-rollback, migrate, freeze and thaw one at a time is at work on  *)
(* the host.  A command leaves when it ends or when its process dies.      *)
(***************************************************************************)
CONSTANT Procs  \* the commands

VARIABLE inside \* the commands at work

Init == inside = {}

Enter(p) == inside = {} /\ inside' = {p}

Leave(p) == p \in inside /\ inside' = inside \ {p}

Next == \E p \in Procs : Enter(p) \/ Leave(p)

Spec == Init /\ [][Next]_inside
=============================================================================
