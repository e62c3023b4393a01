-------------------------- MODULE MemChannelBlocks --------------------------
(***************************************************************************)
(* Why the ring keeps its promises: what is true, at every step, of the    *)
(* nodes between the cursors.  Every such node is part of a published      *)
(* block, part of a block that one writer is filling, part of the block    *)
(* the reader has in hand, or remains of a call that ended early; every    *)
(* node outside them is clean.  The conjunction is inductive.              *)
(***************************************************************************)
EXTENDS MemChannel

\* No race window but a late final check and a crash of the reader.
Calm == Without({"lap", "early", "timeout", "wrap"})

\* Positions, and what they hold.
Used         == rpos .. wpos - 1
Clean(p)     == head[Idx(p)] = CleanHead
IsPublished(p) == Published(Idx(p))
SeqOf(p)     == head[Idx(p)].seq
MsgAt(p)     == blk[Idx(p)].check
InHandSize   == blk[Idx(rb)].size

\* The first position the reader has neither passed nor in hand.
Front ==
  IF rpc = "idle" THEN rpos
  ELSE IF rpc = "scan" THEN rb
  ELSE IF rpc = "reset" THEN rb + InHandSize
  ELSE re

\* A whole block of the message m at p.
Whole(p, m) ==
  /\ m \in Message /\ Need(m) > 0 /\ p + Need(m) <= wpos
  /\ blk[Idx(p)] = [size |-> Need(m), check |-> m]
  /\ \A q \in p .. p + Need(m) - 1 : data[Idx(q)] = m

\* The heads of a block with the number s before it is published, and those
\* after the first of n nodes.
FirstHead(s) == [start |-> TRUE, writen |-> FALSE, seq |-> s]
NextHead(s)  == [start |-> FALSE, writen |-> TRUE, seq |-> s]
Rest(p, n, s) == \A q \in p + 1 .. p + n - 1 : head[Idx(q)] = NextHead(s)

\* Nodes with the number s are found among the n nodes from p only.
Only(s, p, n) == \A q \in Used : SeqOf(q) = s => p <= q /\ q < p + n

\* The reader sees all of what begins at p and has n nodes, or nothing.
SeenWhole(p, n) == rpc \in {"scan", "reset"} /\ p < rw => p + n <= rw

PublishedBlock(p, m) ==
  /\ Whole(p, m)
  /\ SeqOf(p) # 0 /\ Rest(p, Need(m), SeqOf(p)) /\ Only(SeqOf(p), p, Need(m))
  /\ SeenWhole(p, Need(m))
  /\ rpc = "reset" /\ p # rb => SeqOf(p) # rv.seq

\* A published block is whole, and its number is its own.
PublishedInv == \A p \in Used : IsPublished(p) => PublishedBlock(p, MsgAt(p))

\* The head of the node q of the block w is filling: marked, or still clean.
OwnHead(w, q) ==
  IF q >= wc[w] + op[w].i THEN Clean(q)
  ELSE head[Idx(q)] = IF q = wc[w] THEN FirstHead(op[w].seq) ELSE NextHead(op[w].seq)

\* What the writer w has made of its nodes so far; the reader is before them.
Own(w) ==
  /\ Front <= wc[w] /\ wc[w] + Need(op[w].m) <= wpos
  /\ SeenWhole(wc[w], Need(op[w].m))
  /\ \A q \in Reserved(w) : OwnHead(w, q)
  /\ pc[w] = "fill" => blk[First(w)].size = Need(op[w].m)
  /\ pc[w] \in {"flag", "publish"} => Whole(wc[w], op[w].m)
  /\ pc[w] = "publish" => op[w].start
  /\ Only(op[w].seq, wc[w], op[w].i)
Apart(v, w) ==
  wc[v] + Need(op[v].m) <= wc[w] \/ wc[w] + Need(op[w].m) <= wc[v]
FillingInv ==
  /\ \A w \in Writers : Filling(w) => Own(w)
  /\ \A v, w \in Writers : v # w /\ Filling(v) /\ Filling(w) => Apart(v, w)

\* The number of a call at work is no other's.
Loading(w)  == pc[w] \in {"load", "cas"}
Numbered(w) == Loading(w) \/ pc[w] \in Writing
NumbersInv ==
  \A w \in Writers :
    /\ Loading(w) \/ Filling(w) =>
         /\ op[w].seq # 0
         /\ \A v \in Writers \ {w} : Numbered(v) => op[v].seq # op[w].seq
         /\ rpc = "reset" => rv.seq # op[w].seq
    /\ Loading(w) => \A p \in Used : SeqOf(p) # op[w].seq

FreeInv == \A p \in wpos .. rpos + NodeCount - 1 : Clean(p)

\* The reader has passed no published block, has one whole block in hand while
\* it frees it, and leaves clean heads behind.
ScanInv ==
  /\ rv.ret = "OK" /\ re = rb
  /\ \A p \in rpos .. rb - 1 : ~IsPublished(p)
ResetInv ==
  /\ rv.ret = "OK" /\ rv.seq # 0
  /\ Whole(rb, MsgAt(rb))
  /\ re <= rb + InHandSize /\ rb + InHandSize <= rw
  /\ \A p \in rpos .. rb - 1 : ~IsPublished(p)
  /\ \A p \in rb .. re - 1 : Clean(p)
  /\ \A p \in re .. rb + InHandSize - 1 : SeqOf(p) = rv.seq
  /\ \A p \in rb + 1 .. rb + InHandSize - 1 : ~head[Idx(p)].start
  /\ Only(rv.seq, rb, InHandSize)
CleanInv ==
  /\ rpos <= rv.i /\ rv.i <= rb /\ rb <= re
  /\ \A p \in rpos .. rb - 1 : ~IsPublished(p)
  /\ \A p \in rpos .. rv.i - 1 : Clean(p)
  /\ \A p \in rb .. re - 1 : Clean(p)
  /\ IF re = rb THEN rv.ret \in {"NO_DATA", "BUFF_LIMIT"} ELSE rv.ret = "OK"
ReaderInv ==
  /\ rpc = "idle"  => rv.ret = "OK"
  /\ rpc = "scan"  => ScanInv
  /\ rpc = "reset" => ResetInv
  /\ rpc = "clean" => CleanInv

Blocks == PublishedInv /\ FillingInv /\ NumbersInv /\ FreeInv /\ ReaderInv
BlocksInv == Calm => Blocks

\* A call knows its message and how far it is, and no result is of a later call.
AtNode(w) ==
  /\ pc[w] \in {"idle", "dead", "begin", "load", "cas", "mark"} => op[w].i = 0
  /\ pc[w] = "cont" => op[w].i \in 1 .. Need(op[w].m) - 1
  /\ pc[w] \in Writing \ {"mark", "cont"} => op[w].i = Need(op[w].m)
AtWork(w) == pc[w] \notin {"idle", "dead"}
CallsInv ==
  /\ \A w \in Writers : AtNode(w)
  /\ \A w \in Writers : AtWork(w) =>
       op[w].m[1] = w /\ op[w].m[2] = sent[w] /\ Need(op[w].m) > 0
  /\ \A r \in returned : LET m == r[1] IN
       m[2] <= sent[m[1]] /\ (AtWork(m[1]) => m[2] < sent[m[1]])

-----------------------------------------------------------------------------
(***************************************************************************)
(* The messages: where each is, and that it is there once.                 *)
(***************************************************************************)
CalmNoLate  == Without({"lap", "early", "late", "timeout", "wrap"})
CalmNoCrash == Without({"lap", "early", "timeout", "wrap", "readercrash"})

\* A block waits at p until the reader begins to free it.
Waits(p) == p \in Used /\ IsPublished(p)

\* The call of the writer w has not published its block yet, so that a message
\* of w which is already out is of an earlier call.
OnWay(w) == pc[w] \in {"begin", "load", "cas"} \/ Filling(w)
Old(m) ==
  m \in Message /\ m[2] <= sent[m[1]] /\ (OnWay(m[1]) => m[2] < sent[m[1]])

HandedOutOnce == \A i, j \in DOMAIN delivered : delivered[i] = delivered[j] => i = j
GoneForGood   == \A m \in Elements(delivered) : Old(m) /\ ~InRing(m) /\ ~InHand(m)
OneBlockEach  == \A p, q \in Used : Waits(p) /\ Waits(q) /\ MsgAt(p) = MsgAt(q) => p = q
OnePlaceEach  ==
  \A m \in AnyMsg : InRing(m) \/ InHand(m) => Old(m) /\ ~(InRing(m) /\ InHand(m))
NotRefused    == \A m \in AnyMsg : Kept(m) => <<m, "BUFF_LIMIT">> \notin returned

\* Up to its final check a writer's block waits untouched, as long as the reader
\* is never ahead of the check.
Untouched(w) ==
  /\ IF rpc = "reset" /\ wc[w] = rb THEN re = rb ELSE Front <= wc[w]
  /\ Waits(wc[w]) /\ SeqOf(wc[w]) = op[w].seq
Unchecked == \A w \in Writers : pc[w] = "check" => Untouched(w)

TakenWaits == rpc = "reset" /\ re = rb => Waits(rb)

Once == /\ HandedOutOnce /\ GoneForGood /\ OneBlockEach /\ OnePlaceEach
        /\ NotRefused /\ Unchecked /\ TakenWaits
OnceInv == CalmNoLate => Once

\* What was accepted is somewhere, and so is what is about to be.
Safe == /\ \A m \in Accepted : Kept(m)
        /\ \A w \in Writers : pc[w] = "check" => Kept(op[w].m)
LossInv == CalmNoCrash => Safe

-----------------------------------------------------------------------------
(***************************************************************************)
(* The places: what has become of every block that was ever reserved.      *)
(***************************************************************************)
Places == DOMAIN order
Place(m, p) == [m |-> m, p |-> p]
Has(m, p)   == \E i \in Places : order[i] = Place(m, p)

\* The call m died; it is reserved and at work; it has returned success.
Died(m)     == pc[m[1]] = "dead" /\ m[2] = sent[m[1]]
HoldsPlace(w) == pc[w] \in Writing
AtPlace(r)  == HoldsPlace(r.m[1]) /\ r = Place(op[r.m[1]].m, wc[r.m[1]])
Finished(m) == <<m, "SUCCESS">> \in returned

\* The first position the reader has not begun to give back.
Untaken == IF rpc = "reset" /\ re = rb THEN rb ELSE Front

InTurn ==
  /\ \A i \in Places : Need(order[i].m) > 0 /\ order[i].p + Need(order[i].m) <= wpos
  /\ \A i, j \in Places : i < j => order[i].p + Need(order[i].m) <= order[j].p
Fates    == \A i \in Places : LET r == order[i] IN Died(r.m) \/ AtPlace(r) \/ Finished(r.m)
Begun    == \A w \in Writers : HoldsPlace(w) => Has(op[w].m, wc[w])
Named    == \A p \in Used : Waits(p) => Has(MsgAt(p), p)
NotTaken == \A i \in Places :
              Finished(order[i].m) /\ Untaken <= order[i].p => Waits(order[i].p)
Passed   == \A i \in Places :
              rpc # "idle" /\ rpos <= order[i].p /\ order[i].p < rb => Died(order[i].m)
Held     == \A m \in Message : InHand(m) =>
              Has(m, rb) /\ (Died(m) \/ Finished(m)) /\ Front = rb + Need(m)
DiedOpen == \A r \in returned : ~Died(r[1])

AllPlaces == InTurn /\ Fates /\ Begun /\ Named /\ NotTaken /\ Passed /\ Held
PlacesInv == DiedOpen /\ (hz = {} => AllPlaces)

=============================================================================
