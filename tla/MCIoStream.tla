---------------------------- MODULE MCIoStream ----------------------------
(***************************************************************************)
(* Two handles and two descriptors: a listener and what it accepts, or two   *)
(* connections, one of which is closing while the other one is set up.       *)
(***************************************************************************)
EXTENDS IoStream

CONSTANTS
  s1, s2,
  Explored   \* the windows a run follows a behaviour into

WithinExplored == hz \subseteq Explored
=============================================================================
