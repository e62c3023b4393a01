-------------------------- MODULE MCRegistration --------------------------
(***************************************************************************)
(* Two connections at a time and two starts of the node's process.           *)
(***************************************************************************)
EXTENDS Registration

CONSTANTS
  k1, k2,
  Explored   \* the windows a run follows a behaviour into

WithinExplored == hz \subseteq Explored
=============================================================================
