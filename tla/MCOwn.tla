------------------------------- MODULE MCOwn -------------------------------
(* own_t for TLC: a socket and objects at two addresses below it, each in  *)
(* one of two I/O threads, in any shape a tree of them can have.           *)
EXTENDS Own

CONSTANTS socket, a, b, io1, io2, none

\* Three objects and one request; or two objects, one of which may get the
\* address of the other, and two requests.
BothBudgets == {[launches |-> 3, posts |-> 1, asks |-> 1],
                [launches |-> 2, posts |-> 1, asks |-> 2]}
=============================================================================
