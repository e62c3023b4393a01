--------------------------- MODULE MCConnection ---------------------------
(***************************************************************************)
(* Three connections at a time: a listener with what it accepts, or an       *)
(* endpoint's control connection with a data connection and a newcomer.      *)
(***************************************************************************)
EXTENDS Connection

CONSTANTS
  c1, c2, c3, p1,
  Explored   \* the windows a run follows a behaviour into

WithinExplored == hz \subseteq Explored
=============================================================================
