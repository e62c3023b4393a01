---------------------------- MODULE MCShmChannel ----------------------------
(***************************************************************************)
(* A listener that may die, and one sender, in the build as it comes.        *)
(***************************************************************************)
EXTENDS ShmChannel

CONSTANTS father, a

Pages == [p \in Procs |-> 1]

=============================================================================
