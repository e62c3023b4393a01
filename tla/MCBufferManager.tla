--------------------------- MODULE MCBufferManager ---------------------------
(***************************************************************************)
(* A small circular piece: blocks of three sizes, so that they wrap in      *)
(* different places, and fewer slots than the smallest blocks could fill.   *)
(***************************************************************************)
EXTENDS BufferDeque

\* 9 is padded to 10; <<3, 0>> and <<0, 0>> ask for the dynamic mode.
SmallModes  == {<<9, 3>>, <<3, 0>>}
\* At most two blocks and four units.
SmallLimits == {<<4, 2>>}
\* The dynamic mode without limits is cut off here.
ShortList == Len(list) <= 2
=============================================================================
