----------------------------- MODULE BufferDeque -----------------------------
(***************************************************************************)
(* The buffer manager implements a double-ended queue of blocks.           *)
(***************************************************************************)
EXTENDS BufferManager

\* In both modes the calls of a buffer_manager do what a double-ended queue of
\* blocks does: no block is lost, doubled, moved before another or overwritten,
\* and what a caller consumes is what it pushed.
TheDeque  == INSTANCE Deque WITH deque <- Contents
DequeSpec == TheDeque!Spec
=============================================================================
