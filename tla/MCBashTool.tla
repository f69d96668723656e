----------------------------- MODULE MCBashTool -----------------------------
(* BashTool on small instances.                                             *)
EXTENDS BashTool

Behaves(timeout, kids, chunks, faults, cancels) ==
    [timeout |-> timeout, kids |-> kids, chunks |-> chunks, faults |-> faults, cancels |-> cancels]

SomeCommands ==
    {Behaves(TRUE, "group", 1, 0, 2), Behaves(FALSE, "group", 3, 0, 1),
     Behaves(TRUE, "none", 2, 1, 1), Behaves(FALSE, "none", 3, 1, 0),
     Behaves(FALSE, "group", 2, 1, 0), Behaves(TRUE, "daemon", 1, 0, 1)}
=============================================================================
