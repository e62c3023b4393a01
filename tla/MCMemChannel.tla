---------------------------- MODULE MCMemChannel ----------------------------
(***************************************************************************)
(* Small instances of the ring for TLC.  Two writers and one reader; the   *)
(* ring starts near its end so that blocks wrap, and near the wrap of the  *)
(* operation numbers.                                                      *)
(***************************************************************************)
EXTENDS MemChannelQueue

CONSTANT
  Explored   \* the race windows a run follows a behaviour into

\* A run with a smaller Explored checks the promises of the behaviours that hit
\* no other window; those of the others are conditional on it.
WithinExplored == hz \subseteq Explored
=============================================================================
