---------------------------- MODULE MCNodeTable ----------------------------
(***************************************************************************)
(* The node 6, which owns the ids 4 .. 7, under a father that owns 0 .. 7.  *)
(***************************************************************************)
EXTENDS NodeTable, TLC

CONSTANTS
  e1, e2, e3,
  Explored   \* the windows a run follows a behaviour into

WithinExplored == hz \subseteq Explored

Peer(i, w, p) == [id |-> i, width |-> w, pid |-> p]
\* Three children, one inside the domain of another and one started again as
\* another process; a father whose id lies in the domain of a brother.
Children == {Peer(4, 1, 1), Peer(5, 2, 1), Peer(7, 1, 1), Peer(7, 1, 2)}
Others   == {Peer(3, 8, 1), Peer(2, 2, 1)}
FewPeers == Children \cup Others

\* What the last call returned has no influence on what follows.
WithoutRet == <<ep, tables, pending, checked, checking, event, hz>>
AlikeSlots == Permutations(Slots)
=============================================================================
