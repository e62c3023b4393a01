----------------------------- MODULE MCFraming -----------------------------
(***************************************************************************)
(* A head of eight bytes: messages of one and two digits, that fit the head,  *)
(* that need a block, that are too long for the user, and for the block.     *)
(***************************************************************************)
EXTENDS Framing
=============================================================================
