---------------------------- MODULE MCContext ----------------------------
(* Two sockets of the application. *)
EXTENDS Context

Budget(max, connects, binds, shutdowns, interrupts) ==
    [max_sockets |-> max, connects |-> connects, binds |-> binds,
     shutdowns |-> shutdowns, interrupts |-> interrupts]

\* Two connections; one, and binds; shutdown (); a signal while terminate () waits.
SmallBudgets ==
    {Budget(3, 2, 0, 0, 0), Budget(3, 1, 2, 0, 0), Budget(2, 1, 1, 1, 0), Budget(2, 1, 0, 0, 1)}

\* A connection and shutdown (), far from the limit on sockets.
ShutdownBudget == {Budget(4, 1, 0, 1, 0)}
=============================================================================
