------------------------------ MODULE MsgQueue ------------------------------
(***************************************************************************)
(* What a memory channel promises its users: a bounded first-in first-out  *)
(* queue with many senders and one receiver.  A sender takes its place     *)
(* (Reserve), then is told success (Commit); or it is refused.  Messages   *)
(* come out in the order of the places, each once, a message of a live     *)
(* sender not before its sender has been told success.  A message whose    *)
(* sender died after Reserve may be skipped or delivered.                  *)
(*                                                                         *)
(* The promise ends when the environment breaks the channel's assumptions: *)
(* then `broken` becomes true and nothing is promised.                     *)
(***************************************************************************)
EXTENDS Integers, Sequences, Functions

CONSTANTS
  NodesOf,   \* the size of each message
  Capacity   \* the size of the messages the queue can hold

VARIABLES
  queue,     \* messages with a place, oldest first
  done,      \* messages whose senders were told success
  refused,   \* messages whose senders were told the queue is full
  orphans,   \* senders that died, with the number of the message they died in
  taken,     \* messages handed out
  broken     \* the environment broke the assumptions

vars == <<queue, done, refused, orphans, taken, broken>>

Size(q) ==
  LET sum[i \in 0 .. Len(q)] == IF i = 0 THEN 0 ELSE sum[i - 1] + NodesOf[q[i]]
  IN  sum[Len(q)]
Orphan(m) == <<m[1], m[2]>> \in orphans
Fresh(m)  == m \notin done \cup refused /\ ~Orphan(m)

Init ==
  /\ queue = <<>> /\ done = {} /\ refused = {} /\ orphans = {}
  /\ taken = <<>> /\ broken = FALSE

Reserve(m) ==
  /\ Fresh(m) /\ m \notin Range(queue) /\ m \notin Range(taken)
  /\ Size(queue) + NodesOf[m] <= Capacity
  /\ queue' = Append(queue, m)
  /\ UNCHANGED <<done, refused, orphans, taken, broken>>

Commit(m) ==
  /\ Fresh(m) /\ (m \in Range(queue) \/ NodesOf[m] = 0)
  /\ done' = done \cup {m}
  /\ UNCHANGED <<queue, refused, orphans, taken, broken>>

Refuse(m) ==
  /\ Fresh(m) /\ m \notin Range(queue)
  /\ refused' = refused \cup {m}
  /\ UNCHANGED <<queue, done, orphans, taken, broken>>

\* A sender dies; its message, if it has a place, is an orphan.
Die ==
  /\ \E o \in (orphans' \ orphans) : orphans' = orphans \cup {o}
  /\ UNCHANGED <<queue, done, refused, taken, broken>>

\* The receiver steps over orphans at the head and may take what follows.
Receive ==
  /\ \E k \in 0 .. Len(queue) :
       /\ \A i \in 1 .. k : Orphan(queue[i])
       /\ \/ /\ queue' = SubSeq(queue, k + 1, Len(queue))
             /\ UNCHANGED taken
          \/ /\ k < Len(queue)
             /\ queue[k + 1] \in done \/ Orphan(queue[k + 1])
             /\ taken' = Append(taken, queue[k + 1])
             /\ queue' = SubSeq(queue, k + 2, Len(queue))
  /\ UNCHANGED <<done, refused, orphans, broken>>

Next ==
  \/ broken'
  \/ \E m \in DOMAIN NodesOf : Reserve(m) \/ Commit(m) \/ Refuse(m)
  \/ Die \/ Receive

Spec == Init /\ [][Next]_vars
=============================================================================
