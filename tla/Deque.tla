-------------------------------- MODULE Deque --------------------------------
(***************************************************************************)
(* What a buffer_manager promises its users: a double-ended queue of        *)
(* blocks.  A block is pushed whole, consumed a piece at a time from its    *)
(* beginning, and taken away when it is used up and the caller says so.     *)
(* Whether a push is refused is the implementation's affair.                *)
(***************************************************************************)
EXTENDS Integers, Sequences

CONSTANTS Lengths, Payloads

VARIABLE deque     \* the blocks: their payload, their size, how much is used

Block(v, s) == [what |-> v, size |-> s, used |-> 0]

\* The first n units of b are used up (or all that is left).
Consumed(b, n) == [b EXCEPT !.used = IF @ + n > b.size THEN b.size ELSE @ + n]
Spent(b) == b.used = b.size

Init == deque = <<>>

PushBack  == \E v \in Payloads, s \in Lengths : deque' = Append(deque, Block(v, s))
PushFront == \E v \in Payloads, s \in Lengths : deque' = <<Block(v, s)>> \o deque

PopFront ==
  /\ deque # <<>>
  /\ \E n \in 0 .. Head(deque).size, free \in BOOLEAN :
       LET b == Consumed(Head(deque), n)
       IN  deque' = IF free /\ Spent(b) THEN Tail(deque) ELSE <<b>> \o Tail(deque)

PopBack ==
  /\ deque # <<>>
  /\ \E n \in 0 .. deque[Len(deque)].size, free \in BOOLEAN :
       LET rest == SubSeq(deque, 1, Len(deque) - 1)
           b    == Consumed(deque[Len(deque)], n)
       IN  deque' = IF free /\ Spent(b) THEN rest ELSE Append(rest, b)

Clear == deque' = <<>>

Next == PushBack \/ PushFront \/ PopFront \/ PopBack \/ Clear

Spec == Init /\ [][Next]_deque
=============================================================================
