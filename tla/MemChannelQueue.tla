-------------------------- MODULE MemChannelQueue --------------------------
(***************************************************************************)
(* The ring implements the queue its users see: until a race window has    *)
(* been hit it is a bounded first-in first-out queue of messages           *)
(* (MsgQueue).                                                             *)
(***************************************************************************)
EXTENDS MemChannel

\* What is in the queue: the blocks reserved at or after the read cursor, which
\* are those that come after the first few.
Behind  == CHOOSE k \in 0 .. Len(order) : \A i \in DOMAIN order : order[i].p < rpos <=> i <= k
Pending == [i \in 1 .. Len(order) - Behind |-> order[i + Behind].m]

Needs     == [m \in Message |-> Need(m)]
Succeeded == {m \in Message : <<m, "SUCCESS">> \in returned}
Refused   == {m \in Message : <<m, "BUFF_LIMIT">> \in returned}
Orphans   == {<<w, sent[w]>> : w \in {v \in Writers : pc[v] = "dead"}}

Queue == INSTANCE MsgQueue WITH
           NodesOf  <- Needs,
           Capacity <- NodeCount - 1 - Protect,
           queue    <- Pending,
           done     <- Succeeded,
           refused  <- Refused,
           orphans  <- Orphans,
           taken    <- delivered,
           broken   <- hz # {}
QueueSpec == Queue!Spec
=============================================================================
